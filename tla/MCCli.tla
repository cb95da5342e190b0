------------------------------- MODULE MCCli -------------------------------
(***************************************************************************)
(* Two parts of the CLI that share nothing: a behaviour is one of the part *)
(* that `part` names, and the other part stays in an initial state.        *)
(*   "shield"    the shield:* commands against a zone                      *)
(*   "workspace" new, sync, doctor and deploy on the files of a workspace  *)
(***************************************************************************)
EXTENDS ShieldSync, Workspace, TLC

CONSTANTS
  c1, c2, \* two commands, of either part
  users, orders, \* names
  m1, m2, \* mounts
  s1, s2  \* secrets

VARIABLE part

MCKind    == [n \in {users, orders} |-> "service"]
MCBinding == [n \in {users, orders} |-> <<n>>]

A(command, mode, spec, envToken) ==
  [command |-> command, mode |-> mode, spec |-> spec, envToken |-> envToken]

Rule(target, action) == [target |-> target, action |-> action]

BlockAndLog == <<Rule("GET /a", "block"), Rule("GET /b", "log")>>
Changed     == <<Rule("GET /a", "log"), Rule("GET /a", "block")>>

\* Where the rules are written: in a file, in the configuration, in both, in the
\* document, or in a document that an empty configuration hides.
RuleSources ==
  {[file |-> Changed, config |-> BlockAndLog, extensions |-> <<>>],
   [config |-> <<>>, extensions |-> BlockAndLog], [extensions |-> BlockAndLog]}

Policy == <<[name |-> "checkout", action |-> "block", within |-> 600], [name |-> "login"]>>

MCArguments ==
  {A("sync-schema-actions", "apply", {"GET /a", "GET /b"}, "token") @@ r : r \in RuleSources}
    \union {A("sync-schema-actions", "dry", {"GET /a"}, "token") @@ [extensions |-> BlockAndLog]}
    \union {A("sync-sequences", m, {}, "token") @@ [file |-> Policy] : m \in {"apply", "dry"}}
    \union {A("sync-sequences", "apply", {}, "") @@ [file |-> Policy]}
    \union {A("bootstrap", "apply", s, "token") : s \in {{"GET /a"}, {"GET /a", "GET /b"}}}
    \union {A("bootstrap", "dry", {"GET /a"}, "token")}
    \union {A("push-schema", "apply", {"GET /a"}, "token") @@ [disable |-> d] : d \in BOOLEAN}
    \union {A("diff-discovered", "dry", {"GET /a"}, "token")}

\* A zone on which nothing runs.
Quiet ==
  /\ Init
  /\ \A c \in Commands : args[c] = A("diff-discovered", "dry", {"GET /a"}, "token")
  /\ zone.discovered = {}

\* A workspace in which nothing runs.
Empty == WorkspaceInit /\ secret["gateway"] = "none"

MCInit ==
  \/ part = "shield" /\ Init /\ Empty
  \/ part = "workspace" /\ Quiet /\ WorkspaceInit

MCNext ==
  \/ part = "shield" /\ Next /\ UNCHANGED <<part, workspaceVars>>
  \/ part = "workspace" /\ WorkspaceNext /\ UNCHANGED <<part, vars>>

MCSpec == MCInit /\ [][MCNext]_<<part, vars, workspaceVars>>

\* Commands are alike, and so are services, mounts and secrets.
MCSymmetry ==
  Permutations(Commands) \union Permutations(Names)
    \union Permutations(Mounts) \union Permutations(Secrets)

=============================================================================
