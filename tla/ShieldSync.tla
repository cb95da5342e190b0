----------------------------- MODULE ShieldSync -----------------------------
(***************************************************************************)
(* The shield:* commands of the gmode CLI against one Cloudflare zone      *)
(* (packages/cli/src/cloudflare.ts, config.ts, spec-loader.ts and          *)
(* commands/sync-schema-actions.ts, sync-sequences.ts, bootstrap-shield.ts,*)
(* push-schema.ts, diff-discovered.ts).                                    *)
(*                                                                         *)
(* Several commands run against the zone at once, from developers and from *)
(* CI.  Every call may fail, before or after it took effect, Shield goes   *)
(* on discovering and forgetting operations, and a command that failed is  *)
(* run again.                                                              *)
(***************************************************************************)
EXTENDS Naturals, Sequences, FiniteSets, SequencesExt

CONSTANTS
  Commands,    \* invocations of the CLI
  Arguments,   \* the arguments and configurations they may have
  Keys,        \* operation keys, "METHOD /path"
  Ids,         \* operation ids that Shield gives out
  MaxAttempts, \* bound on how often a command is run
  MaxChanges   \* bound on what Shield discovers and forgets

VARIABLES
  args,    \* the arguments of each command, fixed
  cmd,     \* each command
  zone,    \* the state of the zone
  changes, \* the number of changes in what is discovered
  writer   \* for the properties: the command that last set an operation's action

vars == <<args, cmd, zone, changes, writer>>

NoExit == 100

NewCommand(attempt) ==
  [pc |-> "start", attempt |-> attempt, listed |-> {}, todo |-> <<>>,
   applied |-> <<>>, failed |-> 0, exit |-> NoExit]

\* discovered pairs keys with ids; two hosts may serve the same key.
Init ==
  /\ args \in [Commands -> Arguments]
  /\ cmd = [c \in Commands |-> NewCommand(1)]
  /\ zone \in [discovered : SUBSET (Keys \X Ids), validation : {[i \in Ids |-> "none"]},
               schemas : {<<>>}, rules : {<<>>}]
  /\ \A p, q \in zone.discovered : p[2] = q[2] => p = q
  /\ changes = 0
  /\ writer = [i \in Ids |-> "nobody"]

Exit(c, code) == cmd' = [cmd EXCEPT ![c].pc = "exited", ![c].exit = code]
Goto(c, pc)   == cmd' = [cmd EXCEPT ![c].pc = pc]
ZoneUnchanged == UNCHANGED <<zone, writer>>

-----------------------------------------------------------------------------
(* loadConfig() and loadShieldSpec() *)

\* deepMerge() of the file's configuration and the environment's: a variable
\* that is not set counts as "", which replaces what the file says.
Token(a) == a.envToken

Offline(a) == a.command = "sync-sequences" /\ a.mode # "apply"

\* An export or a dry run of the sequences ends here.
LoadConfig(c) ==
  /\ cmd[c].pc = "start"
  /\ IF Offline(args[c]) THEN Exit(c, 0)
     ELSE IF Token(args[c]) = "" THEN Exit(c, 2)
     ELSE IF args[c].command = "sync-sequences"
          THEN cmd' = [cmd EXCEPT ![c].pc = "applying", ![c].todo = args[c].file]
          ELSE Goto(c, "loading")
  /\ UNCHANGED <<args, changes>> /\ ZoneUnchanged

\* loadActionRules(): a file, else the configuration, and only without both the
\* extensions of the document; an empty list hides those that come after it.
LoadActionRules(a) ==
  IF "file" \in DOMAIN a THEN a.file
  ELSE IF "config" \in DOMAIN a THEN a.config ELSE a.extensions

\* Rules are lists, in a file as in the configuration.
ASSUME ArgumentsAssumption ==
  \A a \in Arguments :
    /\ a.command = "sync-schema-actions" =>
         LoadActionRules(a) \in Seq(ToSet(LoadActionRules(a)))
    /\ a.command = "sync-sequences" => a.file \in Seq(ToSet(a.file))
    /\ a.command = "push-schema" => a.disable \in BOOLEAN

LoadSpec(c, loaded) ==
  /\ cmd[c].pc = "loading"
  /\ IF ~loaded THEN Exit(c, 1)
     ELSE IF args[c].command = "sync-schema-actions" /\ LoadActionRules(args[c]) = <<>>
          THEN Exit(c, 2)
     ELSE Goto(c, IF args[c].command = "push-schema" THEN "uploading" ELSE "listing")
  /\ UNCHANGED <<args, changes>> /\ ZoneUnchanged

-----------------------------------------------------------------------------
(* listDiscoveredOperations() and what each command does with the answer *)

Discovered(listed) == {p[1] : p \in listed}

\* resolveActions(): the id Shield gave to a rule's operation.  Of two ids for
\* one key either may be the one listed last.
Resolutions(rule, listed) == {p[2] : p \in {q \in listed : q[1] = rule.target}}

Resolvable(a, listed) ==
  \A rule \in ToSet(LoadActionRules(a)) :
    rule.target \in a.spec /\ Resolutions(rule, listed) # {}

\* Every rule is resolved before the first is applied.
StartApplying(c, listed) ==
  \/ /\ ~Resolvable(args[c], listed)
     /\ Exit(c, 1)
  \/ /\ Resolvable(args[c], listed)
     /\ \E choice \in [Discovered(listed) -> Ids] :
          /\ \A k \in Discovered(listed) : <<k, choice[k]>> \in listed
          /\ LET rules == LoadActionRules(args[c])
             IN  cmd' = [cmd EXCEPT
                   ![c].pc     = IF args[c].mode = "apply" THEN "applying" ELSE "reporting",
                   ![c].listed = listed,
                   ![c].todo   = [i \in DOMAIN rules |->
                                    [id |-> choice[rules[i].target],
                                     action |-> rules[i].action]]]

\* shield:diff-discovered and shield:bootstrap exit with 3 when Shield sees
\* operations that the document does not declare.
Drift(a, listed) == IF Discovered(listed) \subseteq a.spec THEN 0 ELSE 3

ListDiscoveredOperations == zone.discovered

Bootstrap(c, listed) ==
  cmd' = [cmd EXCEPT ![c].listed = listed,
                     ![c].pc = IF args[c].mode = "apply" THEN "uploading" ELSE "reporting"]

List(c) ==
  /\ cmd[c].pc = "listing"
  /\ LET listed == ListDiscoveredOperations
     IN  \/ args[c].command = "sync-schema-actions" /\ StartApplying(c, listed)
         \/ args[c].command = "diff-discovered" /\ Exit(c, Drift(args[c], listed))
         \/ args[c].command = "bootstrap" /\ Bootstrap(c, listed)
  /\ UNCHANGED <<args, changes>> /\ ZoneUnchanged

Report(c) ==
  /\ cmd[c].pc = "reporting"
  /\ Exit(c, IF args[c].command = "bootstrap" THEN Drift(args[c], cmd[c].listed) ELSE 0)
  /\ UNCHANGED <<args, changes>> /\ ZoneUnchanged

-----------------------------------------------------------------------------
(* The writing calls. *)

\* request(): it returns only a success, and throws when the answer is an
\* error or does not arrive; in the second case the zone may have changed.
Request(effect, ok) == ok => effect

SetAction(c, step) ==
  /\ zone' = [zone EXCEPT !.validation[step.id] = step.action]
  /\ writer' = [writer EXCEPT ![step.id] = c]

ApplyPastFailure(c, effect, ok) ==
  /\ cmd[c].pc = "applying" /\ args[c].command = "sync-schema-actions"
  /\ cmd[c].todo # <<>>
  /\ Request(effect, ok)
  /\ effect => \E p \in zone.discovered : p[2] = Head(cmd[c].todo).id
  /\ IF effect THEN SetAction(c, Head(cmd[c].todo)) ELSE ZoneUnchanged
  /\ cmd' = [cmd EXCEPT ![c].todo = Tail(@),
                        ![c].applied = IF ok THEN Append(@, Head(cmd[c].todo)) ELSE @]
  /\ UNCHANGED <<args, changes>>

\* setOperationSchemaValidation() of the next rule; the first failure ends the
\* command.
ApplyAction(c, effect, ok) ==
  /\ cmd[c].pc = "applying" /\ args[c].command = "sync-schema-actions"
  /\ cmd[c].todo # <<>>
  /\ LET step == Head(cmd[c].todo)
         known == \E p \in zone.discovered : p[2] = step.id
     IN  /\ Request(effect, ok)
         /\ effect => known
         /\ IF effect THEN SetAction(c, step) ELSE ZoneUnchanged
         /\ IF ok THEN cmd' = [cmd EXCEPT ![c].todo = Tail(@),
                                          ![c].applied = Append(@, step)]
            ELSE Exit(c, 1)
  /\ UNCHANGED <<args, changes>>

\* What is sent of a rule of the policy: its window, withinSeconds, is not, and
\* one without an action is to log.
Posted(rule) ==
  [name |-> rule.name, action |-> IF "action" \in DOMAIN rule THEN rule.action ELSE "log"]

\* putSequenceRule() posts, so that a rule sent twice is there twice.
PutSequenceRule(rule) == zone' = [zone EXCEPT !.rules = Append(@, Posted(rule))]

\* The next rule of the policy.  A failure is counted and the rule after it is
\* tried.
PostRule(c, effect, ok) ==
  /\ cmd[c].pc = "applying" /\ args[c].command = "sync-sequences"
  /\ cmd[c].todo # <<>>
  /\ Request(effect, ok)
  /\ IF effect THEN PutSequenceRule(Head(cmd[c].todo)) ELSE UNCHANGED zone
  /\ cmd' = [cmd EXCEPT ![c].todo = Tail(@),
                        ![c].applied = IF ok THEN Append(@, Head(cmd[c].todo)) ELSE @,
                        ![c].failed = IF ok THEN @ ELSE @ + 1]
  /\ UNCHANGED <<args, changes, writer>>

AllApplied(c) ==
  /\ cmd[c].pc = "applying" /\ cmd[c].todo = <<>>
  /\ Exit(c, IF cmd[c].failed > 0 THEN 1 ELSE 0)
  /\ UNCHANGED <<args, changes>> /\ ZoneUnchanged

\* The operations of the schema a command uploads: all of the document's, or
\* what is left of it after pruneOpenApiDocument().
UploadedKeys(c) ==
  IF args[c].command = "bootstrap"
  THEN args[c].spec \intersect Discovered(cmd[c].listed) ELSE args[c].spec

\* Only push-schema --disable uploads a schema that is not enforced.
Enabled(a) == a.command = "push-schema" => ~a.disable

\* by and attempt are for the properties.
Upload(c) ==
  [by |-> c, attempt |-> cmd[c].attempt, keys |-> UploadedKeys(c), enabled |-> Enabled(args[c])]

UploadUserSchema(c, effect, ok) ==
  /\ cmd[c].pc = "uploading"
  /\ Request(effect, ok)
  /\ zone' = IF effect THEN [zone EXCEPT !.schemas = Append(@, Upload(c))] ELSE zone
  /\ UNCHANGED <<args, changes, writer>>

PushSchema(c, effect, ok) ==
  /\ args[c].command = "push-schema"
  /\ UploadUserSchema(c, effect, ok)
  /\ Exit(c, IF ok THEN 0 ELSE 1)

\* An upload that worked does not hide the drift.
UploadPruned(c, effect, ok) ==
  /\ args[c].command = "bootstrap"
  /\ UploadUserSchema(c, effect, ok)
  /\ Exit(c, IF ok THEN Drift(args[c], cmd[c].listed) ELSE 1)

\* listDiscoveredOperations() fails.
ListFails(c) ==
  /\ cmd[c].pc = "listing"
  /\ Exit(c, 1)
  /\ UNCHANGED <<args, changes>> /\ ZoneUnchanged

-----------------------------------------------------------------------------
(* The environment: Shield, and whoever runs the command again. *)

ShieldChanges(discovered) ==
  /\ changes < MaxChanges
  /\ \A p, q \in discovered : p[2] = q[2] => p = q
  /\ zone' = [zone EXCEPT !.discovered = discovered]
  /\ changes' = changes + 1
  /\ UNCHANGED <<args, cmd, writer>>

RunAgain(c) ==
  /\ cmd[c].pc = "exited" /\ cmd[c].exit \in {1, 2} /\ cmd[c].attempt < MaxAttempts
  /\ cmd' = [cmd EXCEPT ![c] = NewCommand(cmd[c].attempt + 1)]
  /\ UNCHANGED <<args, changes>> /\ ZoneUnchanged

Next ==
  \/ \E c \in Commands :
       \/ LoadConfig(c) \/ List(c) \/ ListFails(c) \/ Report(c) \/ AllApplied(c) \/ RunAgain(c)
       \/ \E loaded \in BOOLEAN : LoadSpec(c, loaded)
       \/ \E effect, ok \in BOOLEAN :
            \/ ApplyAction(c, effect, ok) \/ PostRule(c, effect, ok)
            \/ PushSchema(c, effect, ok) \/ UploadPruned(c, effect, ok)
  \/ \E p \in Keys \X Ids :
       \/ p \notin zone.discovered /\ ShieldChanges(zone.discovered \union {p})
       \/ p \in zone.discovered /\ ShieldChanges(zone.discovered \ {p})

Spec == Init /\ [][Next]_vars

-----------------------------------------------------------------------------
(* Properties. *)

\* The action a command gives to an operation: its last rule for it decides.
Decided(c, id) ==
  LET steps == cmd[c].applied
      last  == CHOOSE i \in DOMAIN steps :
                 /\ steps[i].id = id
                 /\ \A j \in DOMAIN steps : steps[j].id = id => j <= i
  IN  steps[last].action

\* When shield:sync-schema-actions exits with 0, every rule it was given has
\* been sent, and each operation that no other command has set since has the
\* action of the last rule for it, through failures and runs before.
ExitZeroMeansEnforced ==
  \A c \in Commands :
    (/\ cmd[c].exit = 0 /\ args[c].mode = "apply"
     /\ args[c].command = "sync-schema-actions") =>
      /\ Len(cmd[c].applied) = Len(LoadActionRules(args[c]))
      /\ \A i \in {cmd[c].applied[j].id : j \in DOMAIN cmd[c].applied} :
           writer[i] = c => zone.validation[i] = Decided(c, i)

\* A rule of the policy is in the zone, by its name and with the action it asks
\* for.  This says nothing of its window, which is never sent.
IsThere(rule) ==
  \E i \in DOMAIN zone.rules :
    /\ zone.rules[i].name = rule.name
    /\ "action" \in DOMAIN rule => zone.rules[i].action = rule.action

\* When shield:sync-sequences exits with 0, every rule of the policy is in the
\* zone, but without its window; and whatever the exit code, no failure makes it
\* skip a rule that comes after.
ExitZeroMeansSynced ==
  \A c \in Commands :
    (/\ cmd[c].pc = "exited" /\ args[c].mode = "apply" /\ Token(args[c]) # ""
     /\ args[c].command = "sync-sequences") =>
      /\ Len(cmd[c].applied) + cmd[c].failed = Len(args[c].file)
      /\ cmd[c].exit = 0 => \A rule \in ToSet(args[c].file) : IsThere(rule)

\* What a command has uploaded in the run that it is in or has ended.
UploadsOf(c) ==
  {zone.schemas[i] : i \in {j \in DOMAIN zone.schemas :
     zone.schemas[j].by = c /\ zone.schemas[j].attempt = cmd[c].attempt}}

\* When shield:bootstrap --upload exits with 0 or 3, this run of it has uploaded
\* a schema, enabled, and only such a one, that declares the operations of the
\* document that Shield knew when it was asked and no others; with 0 these are
\* all that Shield knew, with 3 they are not.  No run of it ever uploads an
\* operation that the document does not declare.
BootstrapCoversTraffic ==
  \A c \in Commands : args[c].command = "bootstrap" /\ args[c].mode = "apply" =>
    /\ cmd[c].exit \in {0, 3} =>
         LET known == Discovered(cmd[c].listed)
         IN  /\ UploadsOf(c) # {}
             /\ \A upload \in UploadsOf(c) :
                  upload.enabled /\ upload.keys = args[c].spec \intersect known
             /\ cmd[c].exit = 0 <=> known \subseteq args[c].spec
    /\ \A i \in DOMAIN zone.schemas :
         zone.schemas[i].by = c => zone.schemas[i].keys \subseteq args[c].spec

\* When shield:push-schema exits with 0, this run of it has uploaded the whole
\* document, to be enforced unless it was told to disable it; and no run of it
\* uploads anything else, or enforces what it was told to disable.
ExitZeroMeansPushed ==
  \A c \in Commands : args[c].command = "push-schema" =>
    /\ cmd[c].exit = 0 => UploadsOf(c) # {}
    /\ \A i \in DOMAIN zone.schemas : zone.schemas[i].by = c =>
         zone.schemas[i].keys = args[c].spec /\ (zone.schemas[i].enabled <=> ~args[c].disable)

\* Exit code 0 of each of the four commands that write to a zone holds what it
\* says, and so does the 3 of bootstrap, whichever replies are lost, whatever
\* other commands do, and after runs that failed half-way.
ExitZeroHolds ==
  /\ ExitZeroMeansEnforced /\ ExitZeroMeansSynced
  /\ BootstrapCoversTraffic /\ ExitZeroMeansPushed

=============================================================================
