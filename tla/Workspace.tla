----------------------------- MODULE Workspace -----------------------------
(***************************************************************************)
(* The files of a GMode workspace and the commands that keep them and the  *)
(* deployed Workers in step: gmode new, sync, doctor and deploy            *)
(* (packages/cli/src/manifest.ts, dev-vars.ts and commands/).              *)
(*                                                                         *)
(* The manifest is the source; sync writes the gateway's wrangler          *)
(* bindings, its generated registrations and the services' copies of the   *)
(* context secret, and doctor reads all of them, one file after the other. *)
(* Commands run at the same time (gmode dev syncs on every save), are      *)
(* killed between two files, and the developer edits the manifest and the  *)
(* secret meanwhile.                                                       *)
(***************************************************************************)
EXTENDS Naturals, FiniteSets

CONSTANTS
  Processes, \* running commands
  Names,     \* names of entries
  Kind,      \* whether a name is a "service" or a "web" app
  Mounts,    \* mounts a developer gives
  Binding,   \* toBindingName() of a name and its kind
  Secrets,   \* values of GMODE_CONTEXT_SECRET
  MaxEdits   \* bound on the developer's edits

\* The gateway's .dev.vars is none of the services'.
ASSUME NamesAssumption == "gateway" \notin Names

VARIABLES
  manifest,  \* gmode.jsonc: a set of entries [name, mount]
  dirs,      \* the directories of entries that exist
  wrangler,  \* the services array of the gateway's wrangler.jsonc
  generated, \* gmode.generated.ts
  secret,    \* .dev.vars of the gateway and of each service
  deployed,  \* the Workers of the account
  gateway,   \* the gateway of the account: its bindings
  proc,      \* each command
  edits      \* the number of edits so far

workspaceVars == <<manifest, dirs, wrangler, generated, secret, deployed, gateway, proc, edits>>
files == <<manifest, dirs, wrangler, generated, secret>>
account == <<deployed, gateway>>

NoSecret == "none"
Services(entries) == {e.name : e \in {x \in entries : Kind[x.name] = "service"}}

\* loadManifest() accepts entries with distinct names and mounts whose
\* directories exist.
Loads(entries) ==
  \A d \in entries :
    /\ d.name \in dirs
    /\ \A e \in entries : (d.name = e.name \/ d.mount = e.mount) => d = e

RenderWrangler(entries)  == {[binding |-> Binding[e.name], worker |-> e.name] : e \in entries}
RenderGenerated(entries) ==
  {[name |-> e.name, mount |-> e.mount, binding |-> Binding[e.name]] : e \in entries}

\* done holds the names a command is through with, secret the gateway's secret as
\* it has read it.  alone and current are history: of a sync, that no other command
\* has written, and that nobody has edited, since it read the manifest; of a doctor,
\* that nobody has edited since it did, nor since the syncs did that were writing then.
Idle == [pc |-> "idle", command |-> "none", entries |-> {}, done |-> {}, secret |-> NoSecret,
         exit |-> 0, alone |-> FALSE, current |-> FALSE]

WorkspaceInit ==
  /\ manifest = {} /\ dirs = {}
  /\ wrangler = {} /\ generated = {}
  /\ secret \in {[n \in Names \union {"gateway"} |->
                    IF n = "gateway" THEN s ELSE NoSecret] : s \in Secrets \union {NoSecret}}
  /\ deployed = {} /\ gateway = {}
  /\ proc = [p \in Processes |-> Idle]
  /\ edits = 0

\* A command ends.  Its exit code is kept only of doctor.
End(p)         == proc' = [proc EXCEPT ![p] = Idle]
Proceed(p, pc) == proc' = [proc EXCEPT ![p].pc = pc]

\* An edit of the manifest or of the gateway's secret.
Edited(cs) == [p \in Processes |-> [cs[p] EXCEPT !.current = FALSE]]

\* A command that has still to write files of the gateway or of services.
Writing == {"wrangler", "generated", "secrets", "copying"}

-----------------------------------------------------------------------------
(* runSync(): the manifest is read once, then the files are written. *)

AfterSync(command) == IF command = "deploy" THEN "deploying" ELSE "synced"

LoadManifest(p, command, entries) ==
  IF Loads(entries)
  THEN proc' = [q \in Processes |->
         IF q # p THEN [proc[q] EXCEPT !.alone = FALSE]
         ELSE [Idle EXCEPT !.pc = "wrangler", !.command = command, !.entries = entries,
                           !.current = TRUE,
                           !.alone = \A r \in Processes \ {p} : proc[r].pc \notin Writing]]
  ELSE End(p)

StartSync(p) ==
  /\ proc[p].pc = "idle"
  /\ LoadManifest(p, "sync", manifest)
  /\ UNCHANGED <<files, account, edits>>

StartDeploy(p) ==
  /\ proc[p].pc = "idle"
  /\ LoadManifest(p, "deploy", manifest)
  /\ UNCHANGED <<files, account, edits>>

WriteWrangler(p) ==
  /\ proc[p].pc = "wrangler"
  /\ wrangler' = RenderWrangler(proc[p].entries)
  /\ Proceed(p, "generated")
  /\ UNCHANGED <<manifest, dirs, generated, secret, account, edits>>

WriteGenerated(p) ==
  /\ proc[p].pc = "generated"
  /\ generated' = RenderGenerated(proc[p].entries)
  /\ Proceed(p, "secrets")
  /\ UNCHANGED <<manifest, dirs, wrangler, secret, account, edits>>

\* The rest of propagateContextSecret() once the services of `done` have theirs.
PropagateFrom(p, value, done) ==
  proc' = [proc EXCEPT ![p] =
    IF value = NoSecret \/ Services(@.entries) \subseteq done
    THEN [@ EXCEPT !.pc = AfterSync(proc[p].command), !.done = {}, !.secret = NoSecret]
    ELSE [@ EXCEPT !.pc = "copying", !.done = done, !.secret = value]]

\* Nothing to copy when the gateway has none.
ReadSecret(p) ==
  /\ proc[p].pc = "secrets"
  /\ PropagateFrom(p, secret["gateway"], {})
  /\ UNCHANGED <<files, account, edits>>

CopyOnce(p, n) ==
  /\ proc[p].pc = "copying" /\ n \in Services(proc[p].entries) \ proc[p].done
  /\ secret' = [secret EXCEPT ![n] = IF @ = NoSecret THEN proc[p].secret ELSE @]
  /\ PropagateFrom(p, proc[p].secret, proc[p].done \union {n})
  /\ UNCHANGED <<manifest, dirs, wrangler, generated, account, edits>>

\* upsertDevVar() of one service after the other.
CopySecret(p, n) ==
  /\ proc[p].pc = "copying" /\ n \in Services(proc[p].entries) \ proc[p].done
  /\ secret' = [secret EXCEPT ![n] = proc[p].secret]
  /\ PropagateFrom(p, proc[p].secret, proc[p].done \union {n})
  /\ UNCHANGED <<manifest, dirs, wrangler, generated, account, edits>>

Synced(p) ==
  /\ proc[p].pc = "synced"
  /\ End(p)
  /\ UNCHANGED <<files, account, edits>>

-----------------------------------------------------------------------------
(* gmode new: scaffold the directory, append the entry, sync. *)

Scaffold(p, n, m) ==
  /\ proc[p].pc = "idle"
  /\ IF ~Loads(manifest) \/ n \in {e.name : e \in manifest} \/ n \in dirs
     THEN End(p) /\ UNCHANGED dirs
     ELSE /\ dirs' = dirs \union {n}
          /\ proc' = [proc EXCEPT ![p].pc = "registering", ![p].command = "new",
                                  ![p].entries = {[name |-> n, mount |-> m]}]
  /\ UNCHANGED <<manifest, wrangler, generated, secret, account, edits>>

\* gmode.jsonc is read again, now as text to append to; an edit since is lost.
ReadManifest(p) ==
  /\ proc[p].pc = "registering"
  /\ proc' = [proc EXCEPT ![p].pc = "appending", ![p].entries = manifest \union @]
  /\ UNCHANGED <<files, account, edits>>

\* The mount is checked by the sync that follows.
Register(p) ==
  /\ proc[p].pc = "appending" /\ edits < MaxEdits
  /\ manifest' = proc[p].entries
  /\ edits' = edits + 1
  /\ proc' = Edited([proc EXCEPT ![p].pc = "registered", ![p].entries = {}])
  /\ UNCHANGED <<dirs, wrangler, generated, secret, account>>

SyncNew(p) ==
  /\ proc[p].pc = "registered"
  /\ LoadManifest(p, "sync", manifest)
  /\ UNCHANGED <<files, account, edits>>

-----------------------------------------------------------------------------
(* gmode deploy: every entry at once, the gateway last. *)

DeployEntry(p, n, ok) ==
  /\ proc[p].pc = "deploying"
  /\ n \in {e.name : e \in proc[p].entries} \ proc[p].done
  /\ deployed' = IF ok THEN deployed \union {n} ELSE deployed
  /\ proc' = [proc EXCEPT ![p].done = @ \union {n},
                          ![p].exit = IF ok THEN @ ELSE 1]
  /\ UNCHANGED <<files, gateway, edits>>

GatewayRegardless(p) ==
  /\ proc[p].pc = "deploying" /\ proc[p].done = {e.name : e \in proc[p].entries}
  /\ Proceed(p, "gateway")
  /\ UNCHANGED <<files, account, edits>>

\* Promise.all has settled: one failure and the gateway stays as it is.
EntriesDeployed(p) ==
  /\ proc[p].pc = "deploying" /\ proc[p].done = {e.name : e \in proc[p].entries}
  /\ IF proc[p].exit # 0 THEN End(p) ELSE Proceed(p, "gateway")
  /\ UNCHANGED <<files, account, edits>>

\* wrangler reads its configuration now.  A binding to a Worker that does not
\* exist is refused.
DeployGateway(p, ok) ==
  /\ proc[p].pc = "gateway"
  /\ ok => \A b \in wrangler : b.worker \in deployed
  /\ gateway' = IF ok THEN wrangler ELSE gateway
  /\ End(p)
  /\ UNCHANGED <<files, deployed, edits>>

-----------------------------------------------------------------------------
(* gmode doctor: one file after the other is compared with the manifest as  *)
(* it was at first.  A check that fails decides the exit code, and the next  *)
(* one is made all the same.                                                *)

StartDoctor(p) ==
  /\ proc[p].pc = "idle"
  /\ IF Loads(manifest)
     THEN proc' = [proc EXCEPT ![p] =
            [Idle EXCEPT !.pc = "drift check", !.command = "doctor", !.entries = manifest,
                         !.current = \A r \in Processes :
                                       proc[r].pc \in Writing => proc[r].current]]
     ELSE End(p)
  /\ UNCHANGED <<files, account, edits>>

Checked(p, ok, pc) ==
  /\ proc' = [proc EXCEPT ![p].pc = pc, ![p].exit = IF ok THEN @ ELSE 1]
  /\ UNCHANGED <<files, account, edits>>

DriftCheck(p) ==
  /\ proc[p].pc = "drift check"
  /\ LET expected == RenderWrangler(proc[p].entries)
     IN  Checked(p, Cardinality(wrangler) = Cardinality(expected) /\ expected \subseteq wrangler,
                 "fresh check")

FreshCheck(p) ==
  /\ proc[p].pc = "fresh check"
  /\ Checked(p, generated = RenderGenerated(proc[p].entries), "secret check")

\* Without a secret of the gateway the services are not looked at.
GatewaySecretCheck(p) ==
  /\ proc[p].pc = "secret check"
  /\ proc' = [proc EXCEPT ![p].secret = secret["gateway"],
                          ![p].pc = IF secret["gateway"] = NoSecret THEN "other checks" ELSE "service checks",
                          ![p].exit = IF secret["gateway"] = NoSecret THEN 1 ELSE @]
  /\ UNCHANGED <<files, account, edits>>

HasSomeSecret(p, n) ==
  /\ proc[p].pc = "service checks" /\ n \in Services(proc[p].entries) \ proc[p].done
  /\ proc' = [proc EXCEPT ![p].done = @ \union {n},
                          ![p].exit = IF secret[n] # NoSecret THEN @ ELSE 1]
  /\ UNCHANGED <<files, account, edits>>

\* hasContextSecret() of one service after the other.
ServiceSecretCheck(p, n) ==
  /\ proc[p].pc = "service checks" /\ n \in Services(proc[p].entries) \ proc[p].done
  /\ proc' = [proc EXCEPT ![p].done = @ \union {n},
                          ![p].exit = IF secret[n] = proc[p].secret THEN @ ELSE 1]
  /\ UNCHANGED <<files, account, edits>>

ServicesChecked(p) ==
  /\ proc[p].pc = "service checks" /\ Services(proc[p].entries) \subseteq proc[p].done
  /\ Checked(p, TRUE, "other checks")

\* Ports, Worker names, privacy and tools: files that no command here writes.
OtherChecks(p, ok) ==
  /\ proc[p].pc = "other checks"
  /\ Checked(p, ok, "exited")

-----------------------------------------------------------------------------
(* The developer, and the end of commands. *)

EditManifest(entries) ==
  /\ edits < MaxEdits
  /\ manifest' = entries
  /\ dirs' = dirs \union {e.name : e \in entries}
  /\ edits' = edits + 1
  /\ proc' = Edited(proc)
  /\ UNCHANGED <<wrangler, generated, secret, account>>

EditSecret(s) ==
  /\ edits < MaxEdits /\ s # secret["gateway"]
  /\ secret' = [secret EXCEPT !["gateway"] = s]
  /\ edits' = edits + 1
  /\ proc' = Edited(proc)
  /\ UNCHANGED <<manifest, dirs, wrangler, generated, account>>

\* A command is killed, or its result has been read.
Finish(p) ==
  /\ proc[p].pc # "idle"
  /\ proc' = [proc EXCEPT ![p] = Idle]
  /\ UNCHANGED <<files, account, edits>>

WorkspaceNext ==
  \/ \E p \in Processes :
       \/ StartSync(p) \/ StartDeploy(p)
       \/ WriteWrangler(p) \/ WriteGenerated(p) \/ ReadSecret(p) \/ Synced(p)
       \/ \E n \in Names : CopySecret(p, n)
       \/ \E n \in Names, m \in Mounts : Scaffold(p, n, m)
       \/ ReadManifest(p) \/ Register(p) \/ SyncNew(p)
       \/ \E n \in Names, ok \in BOOLEAN : DeployEntry(p, n, ok)
       \/ EntriesDeployed(p)
       \/ \E ok \in BOOLEAN : DeployGateway(p, ok)
       \/ StartDoctor(p) \/ DriftCheck(p) \/ FreshCheck(p)
       \/ GatewaySecretCheck(p) \/ ServicesChecked(p)
       \/ \E n \in Names : ServiceSecretCheck(p, n)
       \/ \E ok \in BOOLEAN : OtherChecks(p, ok)
       \/ Finish(p)
  \/ \E n, k \in Names :
       \/ EditManifest({e \in manifest : e.name # n})
       \/ \E m \in Mounts :
            EditManifest({e \in manifest : e.name \notin {n, k}} \union {[name |-> k, mount |-> m]})
  \/ \E s \in Secrets : EditSecret(s)

WorkspaceSpec == WorkspaceInit /\ [][WorkspaceNext]_workspaceVars

-----------------------------------------------------------------------------
(* Properties. *)

\* The files say what the manifest says.
InStep == wrangler = RenderWrangler(manifest) /\ generated = RenderGenerated(manifest)

SecretsShared == \A n \in Services(manifest) : secret[n] = secret["gateway"]

DistinctBindings == \A d, e \in manifest : Binding[d.name] = Binding[e.name] => d = e

\* When gmode doctor has passed all checks, which it makes at different times,
\* the gateway that would start now forwards each mount of the manifest to the
\* Worker of its entry and to nothing else, and every service verifies what it
\* signs: whatever was killed half-way before, and whatever syncs, deployments
\* and other doctors ran in between and since.  Provided nobody has edited since
\* it began, no sync that was at work when it began had read an older manifest,
\* which it could still write, and no two names share a binding name, which
\* neither the manifest's checks nor doctor look at.
DoctorSound ==
  \A p \in Processes :
    (/\ proc[p].command = "doctor" /\ proc[p].pc = "exited" /\ proc[p].exit = 0
     /\ proc[p].current /\ DistinctBindings) =>
      /\ \A r \in generated : {b.worker : b \in {x \in wrangler : x.binding = r.binding}} = {r.name}
      /\ {[name |-> r.name, mount |-> r.mount] : r \in generated} = manifest
      /\ secret["gateway"] # NoSecret /\ SecretsShared

\* A sync that is the only one to write and is not overtaken by an edit leaves a
\* workspace in which doctor finds no drift: nothing that an earlier command left
\* half done, between two files or two services, survives it.
AloneSyncSettles ==
  \A p \in Processes :
    (proc[p].pc = "synced" /\ proc[p].alone /\ proc[p].current) =>
      InStep /\ (secret["gateway"] # NoSecret => SecretsShared)

\* "then the gateway last so its service bindings always resolve": unless
\* another command has rewritten the bindings since, the gateway's deployment
\* is never refused for a Worker that does not exist, whichever deployments of
\* entries failed in this run or in earlier ones.
BindingsResolve ==
  \A p \in Processes :
    (proc[p].pc = "gateway" /\ wrangler = RenderWrangler(proc[p].entries)) =>
      \A b \in wrangler : b.worker \in deployed

=============================================================================
