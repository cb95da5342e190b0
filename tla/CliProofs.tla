------------------------------ MODULE CliProofs ------------------------------
(***************************************************************************)
(* Proofs about the gmode CLI.  For any number of commands, names, secrets *)
(* and edits: doctor is right about a workspace it finds in order, a sync  *)
(* that is alone leaves it in order, and a gateway is only deployed over   *)
(* bindings that resolve (Workspace).  For any arguments, operations and   *)
(* failures: a shield:* command that exits with 0 has done what it was     *)
(* asked (ShieldSync).                                                     *)
(***************************************************************************)
EXTENDS ShieldSync, Workspace, FiniteSetTheorems, SequenceTheorems, TLAPS

-----------------------------------------------------------------------------
(* A workspace: types. *)

Entries == [name : Names, mount : Mounts]

Syncing  == Writing \union {"synced"}
Checking == {"drift check", "fresh check", "secret check", "service checks",
             "other checks", "exited"}

ProcessStates ==
  [pc : Syncing \union Checking
          \union {"idle", "registering", "appending", "registered", "deploying", "gateway"},
   command : {"none", "sync", "new", "deploy", "doctor"}, entries : SUBSET Entries,
   done : SUBSET Names, secret : Secrets \union {NoSecret}, exit : {0, 1},
   alone : BOOLEAN, current : BOOLEAN]

FilesTyped ==
  /\ manifest \in SUBSET Entries /\ IsFiniteSet(manifest)
  /\ IsFiniteSet(wrangler)
  /\ secret \in [Names \union {"gateway"} -> Secrets \union {NoSecret}]

CommandsTyped ==
  /\ proc \in [Processes -> ProcessStates]
  /\ \A p \in Processes : IsFiniteSet(proc[p].entries)

-----------------------------------------------------------------------------
(* The inductive invariant. *)

\* What a sync or a doctor works on is what there is, unless there was an edit.
ReadsManifest(q) ==
  q.pc \in Syncing \union Checking /\ q.current =>
    /\ q.entries = manifest
    /\ q.pc = "copying" => q.secret = secret["gateway"]

\* What a sync has written is still there if no other writes.
Written(q) ==
  q.pc \in Syncing /\ q.alone =>
    /\ q.pc # "wrangler" => wrangler = RenderWrangler(q.entries)
    /\ q.pc \in {"secrets", "copying", "synced"} => generated = RenderGenerated(q.entries)
    /\ q.pc = "copying" => \A n \in q.done : secret[n] = q.secret
    /\ q.pc = "synced" /\ q.current /\ secret["gateway"] # NoSecret =>
         \A n \in Services(q.entries) : secret[n] = secret["gateway"]

WritesAlone(p) ==
  proc[p].pc \in Syncing /\ proc[p].alone =>
    \A r \in Processes \ {p} : proc[r].pc \notin Writing

\* What a doctor has found in order is in order for as long as nobody edits,
WasChecked(q) ==
  q.pc \in Checking /\ q.current /\ q.exit = 0 =>
    /\ q.pc # "drift check" => wrangler = RenderWrangler(manifest)
    /\ q.pc \notin {"drift check", "fresh check"} => generated = RenderGenerated(manifest)
    /\ q.pc \in {"drift check", "fresh check", "secret check"} => q.done = {}
    /\ q.pc \in {"service checks", "other checks", "exited"} =>
         /\ q.secret = secret["gateway"] /\ q.secret # NoSecret
         /\ \A n \in q.done : secret[n] = q.secret
    /\ q.pc \in {"other checks", "exited"} => Services(q.entries) \subseteq q.done

\* because whoever writes meanwhile has read the same manifest.
WritersAgree(p) ==
  proc[p].pc \in Checking /\ proc[p].current =>
    \A r \in Processes : proc[r].pc \in Writing => proc[r].current

\* Until one of them fails, every entry that was deployed is deployed.
DeploysEntries(q) ==
  /\ q.pc \in {"deploying", "gateway"} /\ q.exit = 0 => q.done \subseteq deployed
  /\ q.pc = "gateway" => q.exit = 0 /\ q.done = {e.name : e \in q.entries}

CommandInv(q) == ReadsManifest(q) /\ Written(q) /\ WasChecked(q) /\ DeploysEntries(q)

WorkspaceInv ==
  /\ FilesTyped /\ CommandsTyped
  /\ \A p \in Processes : CommandInv(proc[p]) /\ WritesAlone(p) /\ WritersAgree(p)

-----------------------------------------------------------------------------
(* Finite files. *)

\* The bindings of finitely many entries are finitely many.
LEMMA RenderFinite ==
  ASSUME NEW entries, IsFiniteSet(entries)
  PROVE  IsFiniteSet(RenderWrangler(entries))
<1> DEFINE render == [e \in entries |-> [binding |-> Binding[e.name], worker |-> e.name]]
<1>1. render \in Surjection(entries, RenderWrangler(entries))
  BY DEF RenderWrangler, Surjection
<1> QED
  BY <1>1, FS_Surjection

\* A command that has ended, or has not begun, is of the type of one.
LEMMA IdleTyped ==
  /\ Idle \in ProcessStates /\ IsFiniteSet(Idle.entries)
  /\ Idle.pc = "idle" /\ Idle.done = {} /\ Idle.exit = 0
  /\ ~Idle.alone /\ ~Idle.current
  BY FS_EmptySet DEF Idle, ProcessStates

\* The invariant says nothing of a command that has no file in hand.
LEMMA Elsewhere ==
  ASSUME NEW q, q.pc \in {"idle", "registering", "appending", "registered"}
  PROVE  CommandInv(q)
  BY DEF CommandInv, ReadsManifest, Written, WasChecked, DeploysEntries, Syncing, Writing,
         Checking

LEMMA WorkspaceStart == WorkspaceInit => WorkspaceInv
<1> SUFFICES ASSUME WorkspaceInit PROVE WorkspaceInv
  OBVIOUS
<1>1. \A p \in Processes : proc[p] = Idle
  BY DEF WorkspaceInit
<1>2. FilesTyped /\ CommandsTyped
  BY <1>1, IdleTyped, FS_EmptySet DEF WorkspaceInit, FilesTyped, CommandsTyped
<1>3. ASSUME NEW p \in Processes
      PROVE  CommandInv(proc[p]) /\ WritesAlone(p) /\ WritersAgree(p)
  <2>1. proc[p].pc = "idle"
    BY <1>1, IdleTyped
  <2>2. CommandInv(proc[p])
    BY <2>1, Elsewhere
  <2> QED
    BY <2>1, <2>2 DEF WritesAlone, WritersAgree, Syncing, Writing, Checking
<1> QED
  BY <1>2, <1>3 DEF WorkspaceInv

LEMMA ExitCodes == 1 # 0
  OBVIOUS

-----------------------------------------------------------------------------
(* Steps of one command. *)

\* A step that changes one command keeps the invariant if it leaves the files
\* as the others know them, the new state of the command is one that the
\* invariant allows, and the command does not begin to write.
LEMMA OneCommand ==
  ASSUME WorkspaceInv, FilesTyped', NEW p \in Processes, NEW q \in ProcessStates,
         IsFiniteSet(q.entries), proc' = [proc EXCEPT ![p] = q],
         \A r \in Processes \ {p} : CommandInv(proc[r]) => CommandInv(proc[r])',
         CommandInv(q)',
         q.pc \in Writing => proc[p].pc \in Writing /\ (proc[p].current => q.current),
         q.pc \in Syncing /\ q.alone => proc[p].pc \in Syncing /\ proc[p].alone,
         q.pc \in Checking /\ q.current =>
           \A r \in Processes \ {p} : proc[r].pc \in Writing => proc[r].current
  PROVE  WorkspaceInv'
<1>1. CommandsTyped'
  BY DEF WorkspaceInv, CommandsTyped
<1>2. \A r \in Processes : proc'[r] = IF r = p THEN q ELSE proc[r]
  BY DEF WorkspaceInv, CommandsTyped
<1>3. ASSUME NEW r \in Processes PROVE CommandInv(proc[r])'
  <2>1. CASE r = p
    <3>1. proc'[r] = q
      BY <1>2, <2>1
    <3>2. ReadsManifest(q)' /\ Written(q)' /\ WasChecked(q)' /\ DeploysEntries(q)'
      BY DEF CommandInv
    <3>3. ReadsManifest(proc[r])'
      BY <3>1, <3>2 DEF ReadsManifest
    <3>4. Written(proc[r])'
      BY <3>1, <3>2 DEF Written
    <3>5. WasChecked(proc[r])'
      BY <3>1, <3>2 DEF WasChecked
    <3>6. DeploysEntries(proc[r])'
      BY <3>1, <3>2 DEF DeploysEntries
    <3> QED
      BY <3>3, <3>4, <3>5, <3>6 DEF CommandInv
  <2>2. CASE r # p
    BY <2>2 DEF WorkspaceInv
  <2> QED
    BY <2>1, <2>2
<1>4. ASSUME NEW r \in Processes PROVE WritesAlone(r)'
  BY <1>2 DEF WorkspaceInv, WritesAlone, Syncing, Writing
<1>5. ASSUME NEW r \in Processes PROVE WritersAgree(r)'
  <2>1. CASE r = p
    BY <1>2, <2>1 DEF WritersAgree, Writing, Checking
  <2>2. CASE r # p
    BY <1>2, <2>2 DEF WorkspaceInv, WritersAgree
  <2> QED
    BY <2>1, <2>2
<1> QED
  BY <1>1, <1>3, <1>4, <1>5 DEF WorkspaceInv

\* A command that does not write, or ends, leaves the files alone.
LEMMA QuietCommand ==
  ASSUME WorkspaceInv, NEW p \in Processes, NEW q \in ProcessStates,
         IsFiniteSet(q.entries), proc' = [proc EXCEPT ![p] = q],
         q.pc \notin Syncing, CommandInv(q)',
         q.pc \in Checking /\ q.current =>
           \A r \in Processes \ {p} : proc[r].pc \in Writing => proc[r].current,
         deployed \subseteq deployed',
         UNCHANGED <<manifest, wrangler, generated, secret>>
  PROVE  WorkspaceInv'
<1>1. FilesTyped'
  BY DEF WorkspaceInv, FilesTyped
<1>2. \A r \in Processes \ {p} : proc'[r] = proc[r]
  BY DEF WorkspaceInv, CommandsTyped
<1>3. ASSUME NEW r \in Processes \ {p}, CommandInv(proc[r]) PROVE CommandInv(proc[r])'
  <2>1. proc'[r] = proc[r]
    BY <1>2
  <2>2. ReadsManifest(proc[r]) /\ Written(proc[r]) /\ WasChecked(proc[r]) /\ DeploysEntries(proc[r])
    BY <1>3 DEF CommandInv
  <2>3. ReadsManifest(proc[r])'
    BY <2>1, <2>2 DEF ReadsManifest
  <2>4. Written(proc[r])'
    BY <2>1, <2>2 DEF Written, RenderWrangler, RenderGenerated, Services
  <2>5. WasChecked(proc[r])'
    BY <2>1, <2>2 DEF WasChecked, RenderWrangler, RenderGenerated, Services
  <2>6. DeploysEntries(proc[r])'
    BY <2>1, <2>2 DEF DeploysEntries
  <2> QED
    BY <2>3, <2>4, <2>5, <2>6 DEF CommandInv
<1>4. q.pc \notin Writing
  BY DEF Syncing
<1> QED
  BY <1>1, <1>3, <1>4, OneCommand

\* A command ends, or is killed, between two files.
LEMMA Ending ==
  ASSUME WorkspaceInv, NEW p \in Processes, End(p), deployed \subseteq deployed',
         UNCHANGED <<manifest, wrangler, generated, secret>>
  PROVE  WorkspaceInv'
<1>1. PICK q : q = Idle
  OBVIOUS
<1>2. proc' = [proc EXCEPT ![p] = q]
  BY <1>1 DEF End
<1>3. q \in ProcessStates /\ IsFiniteSet(q.entries) /\ q.pc = "idle"
  BY <1>1, IdleTyped
<1>4. CommandInv(q)'
  BY <1>3 DEF CommandInv, ReadsManifest, Written, WasChecked, DeploysEntries, Syncing,
              Writing, Checking
<1>5. q.pc \notin Syncing /\ q.pc \notin Checking
  BY <1>3 DEF Syncing, Writing, Checking
<1> QED
  BY <1>2, <1>3, <1>4, <1>5, QuietCommand

\* A sync that begins has the manifest of that moment, and is alone if no other
\* writes; the others are not alone any more (loadManifest in runSync).
LEMMA LoadManifestStep ==
  ASSUME WorkspaceInv, NEW p \in Processes, NEW command \in {"sync", "deploy"},
         LoadManifest(p, command, manifest), UNCHANGED <<files, account, edits>>
  PROVE  WorkspaceInv'
<1> USE DEF files, account
<1>0. FilesTyped /\ FilesTyped' /\ CommandsTyped
  BY DEF WorkspaceInv, FilesTyped
<1>1. CASE Loads(manifest)
  <2> DEFINE started ==
        [Idle EXCEPT !.pc = "wrangler", !.command = command, !.entries = manifest,
                     !.current = TRUE,
                     !.alone = \A r \in Processes \ {p} : proc[r].pc \notin Writing]
  <2>1. proc' = [q \in Processes |->
                   IF q # p THEN [proc[q] EXCEPT !.alone = FALSE] ELSE started]
    BY <1>1 DEF LoadManifest
  <2>2. /\ started \in ProcessStates /\ started.pc = "wrangler"
        /\ started.entries = manifest /\ started.current
        /\ started.alone => \A r \in Processes \ {p} : proc[r].pc \notin Writing
    BY <1>0 DEF Idle, ProcessStates, Syncing, Writing, FilesTyped
  <2> HIDE DEF started
  <2>3. ASSUME NEW r \in Processes \ {p}
        PROVE  /\ proc'[r] \in ProcessStates /\ ~proc'[r].alone
               /\ proc'[r].pc = proc[r].pc /\ proc'[r].entries = proc[r].entries
               /\ proc'[r].current = proc[r].current /\ proc'[r].exit = proc[r].exit
               /\ proc'[r].done = proc[r].done /\ proc'[r].secret = proc[r].secret
    BY <1>0, <2>1 DEF CommandsTyped, ProcessStates
  <2>4. CommandsTyped'
    <3>1. \A r \in Processes : proc'[r] \in ProcessStates /\ IsFiniteSet(proc'[r].entries)
      BY <1>0, <2>1, <2>2, <2>3 DEF CommandsTyped, FilesTyped
    <3>2. DOMAIN proc' = Processes
      BY <2>1
    <3> QED
      BY <2>1, <3>1, <3>2 DEF CommandsTyped
  <2>5. ASSUME NEW r \in Processes \ {p} PROVE CommandInv(proc[r])'
    <3>1. CommandInv(proc[r])
      BY DEF WorkspaceInv
    <3>2. ReadsManifest(proc[r])' /\ Written(proc[r])'
      BY <2>3, <3>1 DEF CommandInv, ReadsManifest, Written
    <3>3. WasChecked(proc[r])'
      BY <2>3, <3>1 DEF CommandInv, WasChecked
    <3>4. DeploysEntries(proc[r])'
      BY <2>3, <3>1 DEF CommandInv, DeploysEntries
    <3> QED
      BY <3>2, <3>3, <3>4 DEF CommandInv
  <2>6. proc'[p] = started
    BY <2>1
  <2>7. CommandInv(proc[p])'
    <3>1. ReadsManifest(proc[p])' /\ Written(proc[p])'
      BY <2>2, <2>6 DEF ReadsManifest, Written
    <3>2. WasChecked(proc[p])' /\ DeploysEntries(proc[p])'
      BY <2>2, <2>6 DEF WasChecked, DeploysEntries, Checking
    <3> QED
      BY <3>1, <3>2 DEF CommandInv
  <2>8. ASSUME NEW r \in Processes PROVE WritesAlone(r)'
    BY <2>2, <2>3, <2>6 DEF WritesAlone, Writing
  <2>9. ASSUME NEW r \in Processes PROVE WritersAgree(r)'
    BY <2>2, <2>3, <2>6 DEF WorkspaceInv, WritersAgree, Checking
  <2> QED
    BY <1>0, <2>4, <2>5, <2>7, <2>8, <2>9 DEF WorkspaceInv
<1>2. CASE ~Loads(manifest)
  BY <1>2, Ending DEF LoadManifest
<1> QED
  BY <1>1, <1>2

\* Only what a sync writes itself changes, so what an earlier sync wrote survives
\* only if that one is not alone any more, and what a doctor has found in order
\* stays if the sync has read the same manifest and secret.
LEMMA SyncStep ==
  ASSUME WorkspaceInv, NEW p \in Processes, NEW q \in ProcessStates,
         FilesTyped', UNCHANGED <<manifest, deployed>>, secret'["gateway"] = secret["gateway"],
         proc[p].pc \in Writing, proc' = [proc EXCEPT ![p] = q],
         q.entries = proc[p].entries, q.alone = proc[p].alone, q.current = proc[p].current,
         q.pc \notin Checking, CommandInv(q)',
         proc[p].current =>
           /\ wrangler = RenderWrangler(manifest) => wrangler' = wrangler
           /\ generated = RenderGenerated(manifest) => generated' = generated
           /\ \A n \in Names : secret[n] = secret["gateway"] => secret'[n] = secret[n]
  PROVE  WorkspaceInv'
<1>0. FilesTyped /\ CommandsTyped /\ IsFiniteSet(q.entries)
  BY DEF WorkspaceInv, CommandsTyped
<1>1. \A r \in Processes \ {p} : proc'[r] = proc[r]
  BY <1>0 DEF CommandsTyped
<1>2. ASSUME NEW r \in Processes \ {p}, CommandInv(proc[r]) PROVE CommandInv(proc[r])'
  <2>1. proc'[r] = proc[r] /\ proc[r].done \subseteq Names
    BY <1>0, <1>1 DEF CommandsTyped, ProcessStates
  <2>2. ~(proc[r].pc \in Syncing /\ proc[r].alone)
    BY DEF WorkspaceInv, WritesAlone
  <2>3. proc[r].pc \in Checking /\ proc[r].current => proc[p].current
    BY DEF WorkspaceInv, WritersAgree
  <2>4. ReadsManifest(proc[r])' /\ Written(proc[r])' /\ DeploysEntries(proc[r])'
    BY <1>2, <2>1, <2>2 DEF CommandInv, ReadsManifest, Written, DeploysEntries
  <2>5. WasChecked(proc[r])'
    <3> SUFFICES ASSUME proc[r].pc \in Checking, proc[r].current, proc[r].exit = 0
                 PROVE  WasChecked(proc[r])'
      BY <2>1 DEF WasChecked
    <3>1. WasChecked(proc[r]) /\ proc[p].current
      BY <1>2, <2>3 DEF CommandInv
    <3>2. RenderWrangler(manifest)' = RenderWrangler(manifest)
          /\ RenderGenerated(manifest)' = RenderGenerated(manifest)
          /\ Services(proc[r].entries)' = Services(proc[r].entries)
      BY <2>1 DEF RenderWrangler, RenderGenerated, Services
    <3> QED
      BY <2>1, <3>1, <3>2 DEF WasChecked
  <2> QED
    BY <2>4, <2>5 DEF CommandInv
<1> QED
  BY <1>0, <1>2, OneCommand DEF Syncing

\* The bindings, of the manifest that the sync has read.
LEMMA WriteWranglerStep ==
  ASSUME WorkspaceInv, NEW p \in Processes, WriteWrangler(p)
  PROVE  WorkspaceInv'
<1>0. /\ FilesTyped /\ proc[p] \in ProcessStates /\ IsFiniteSet(proc[p].entries)
      /\ CommandInv(proc[p]) /\ proc[p].pc = "wrangler"
      /\ wrangler' = RenderWrangler(proc[p].entries)
      /\ UNCHANGED <<manifest, generated, secret, deployed>>
  BY DEF WorkspaceInv, CommandsTyped, WriteWrangler, account
<1>1. FilesTyped'
  BY <1>0, RenderFinite DEF FilesTyped
<1>2. PICK q : q = [proc[p] EXCEPT !.pc = "generated"]
  OBVIOUS
<1>3. proc' = [proc EXCEPT ![p] = q]
  BY <1>2 DEF WriteWrangler, Proceed
<1>4. /\ q \in ProcessStates /\ q.pc = "generated" /\ q.entries = proc[p].entries
      /\ q.alone = proc[p].alone /\ q.current = proc[p].current
  BY <1>0, <1>2 DEF ProcessStates, Syncing, Writing
<1>5. CommandInv(q)'
  <2>1. ReadsManifest(q)'
    BY <1>0, <1>4 DEF CommandInv, ReadsManifest, Syncing, Writing
  <2>2. Written(q)'
    BY <1>0, <1>4 DEF Written, RenderWrangler
  <2> QED
    BY <1>4, <2>1, <2>2 DEF CommandInv, WasChecked, DeploysEntries, Checking
<1>6. proc[p].current => proc[p].entries = manifest
  BY <1>0 DEF CommandInv, ReadsManifest, Syncing, Writing
<1>7. proc[p].pc \in Writing /\ q.pc \notin Checking
  BY <1>0, <1>4 DEF Writing, Checking
<1> QED
  BY <1>0, <1>1, <1>3, <1>4, <1>5, <1>6, <1>7, SyncStep

\* The registrations, of the same manifest.
LEMMA WriteGeneratedStep ==
  ASSUME WorkspaceInv, NEW p \in Processes, WriteGenerated(p)
  PROVE  WorkspaceInv'
<1>0. /\ FilesTyped /\ proc[p] \in ProcessStates /\ CommandInv(proc[p])
      /\ proc[p].pc = "generated"
      /\ generated' = RenderGenerated(proc[p].entries)
      /\ UNCHANGED <<manifest, wrangler, secret, deployed>>
  BY DEF WorkspaceInv, CommandsTyped, WriteGenerated, account
<1>1. FilesTyped'
  BY <1>0 DEF FilesTyped
<1>2. PICK q : q = [proc[p] EXCEPT !.pc = "secrets"]
  OBVIOUS
<1>3. proc' = [proc EXCEPT ![p] = q]
  BY <1>2 DEF WriteGenerated, Proceed
<1>4. /\ q \in ProcessStates /\ q.pc = "secrets" /\ q.entries = proc[p].entries
      /\ q.alone = proc[p].alone /\ q.current = proc[p].current
  BY <1>0, <1>2 DEF ProcessStates, Syncing, Writing
<1>5. CommandInv(q)'
  <2>1. ReadsManifest(q)'
    BY <1>0, <1>4 DEF CommandInv, ReadsManifest, Syncing, Writing
  <2>2. q.alone => wrangler = RenderWrangler(q.entries)
    BY <1>0, <1>4 DEF CommandInv, Written, Syncing, Writing
  <2>3. Written(q)'
    BY <1>0, <1>4, <2>2 DEF Written, RenderWrangler, RenderGenerated
  <2> QED
    BY <1>4, <2>1, <2>3 DEF CommandInv, WasChecked, DeploysEntries, Checking
<1>6. proc[p].current => proc[p].entries = manifest
  BY <1>0 DEF CommandInv, ReadsManifest, Syncing, Writing
<1>7. proc[p].pc \in Writing /\ q.pc \notin Checking
  BY <1>0, <1>4 DEF Writing, Checking
<1> QED
  BY <1>0, <1>1, <1>3, <1>4, <1>5, <1>6, <1>7, SyncStep

\* A step of propagateContextSecret() leaves the command at the next service,
\* or behind the last.
Propagated(p, q, value, done) ==
  /\ proc' = [proc EXCEPT ![p] = q]
  /\ q.entries = proc[p].entries /\ q.alone = proc[p].alone
  /\ q.current = proc[p].current /\ q.exit = proc[p].exit
  /\ \/ /\ value = NoSecret \/ Services(q.entries) \subseteq done
        /\ q.pc \in {"synced", "deploying"} /\ q.done = {}
     \/ /\ q.pc = "copying" /\ q.done = done /\ q.secret = value

LEMMA PropagateTyped ==
  ASSUME NEW p \in Processes, proc[p] \in ProcessStates, NEW value \in Secrets \union {NoSecret},
         NEW done \in SUBSET Names, PropagateFrom(p, value, done)
  PROVE  \E q \in ProcessStates : Propagated(p, q, value, done)
<1>1. CASE value = NoSecret \/ Services(proc[p].entries) \subseteq done
  <2>1. PICK q : q = [proc[p] EXCEPT !.pc = AfterSync(proc[p].command), !.done = {},
                                     !.secret = NoSecret]
    OBVIOUS
  <2>2. proc' = [proc EXCEPT ![p] = q]
    BY <1>1, <2>1 DEF PropagateFrom
  <2>3. AfterSync(proc[p].command) \in {"synced", "deploying"}
    BY DEF AfterSync
  <2>4. /\ q \in ProcessStates /\ q.pc \in {"synced", "deploying"} /\ q.done = {}
        /\ q.entries = proc[p].entries /\ q.alone = proc[p].alone
        /\ q.current = proc[p].current /\ q.exit = proc[p].exit
    BY <2>1, <2>3 DEF ProcessStates, Syncing, Writing
  <2> QED
    BY <1>1, <2>2, <2>4 DEF Propagated
<1>2. CASE ~(value = NoSecret \/ Services(proc[p].entries) \subseteq done)
  <2>1. PICK q : q = [proc[p] EXCEPT !.pc = "copying", !.done = done, !.secret = value]
    OBVIOUS
  <2>2. proc' = [proc EXCEPT ![p] = q]
    BY <1>2, <2>1 DEF PropagateFrom
  <2>3. /\ q \in ProcessStates /\ q.pc = "copying" /\ q.done = done /\ q.secret = value
        /\ q.entries = proc[p].entries /\ q.alone = proc[p].alone
        /\ q.current = proc[p].current /\ q.exit = proc[p].exit
    BY <2>1 DEF ProcessStates, Syncing, Writing
  <2> QED
    BY <2>2, <2>3 DEF Propagated
<1> QED
  BY <1>1, <1>2

\* The secret, of the gateway as it is when the copying begins, one service after
\* the other.
LEMMA PropagateStep ==
  ASSUME WorkspaceInv, NEW p \in Processes,
         ReadSecret(p) \/ \E n \in Names : CopySecret(p, n)
  PROVE  WorkspaceInv'
<1>0. /\ FilesTyped /\ proc[p] \in ProcessStates /\ CommandInv(proc[p])
      /\ proc[p].pc \in {"secrets", "copying"}
      /\ UNCHANGED <<manifest, wrangler, generated, deployed>>
  BY DEF WorkspaceInv, CommandsTyped, ReadSecret, CopySecret, account, files
<1> DEFINE Copied(value, done) ==
      /\ PropagateFrom(p, value, done)
      /\ FilesTyped' /\ secret'["gateway"] = secret["gateway"]
      /\ proc[p].current => value = secret["gateway"]
      /\ proc[p].alone => \A n \in done : secret'[n] = value
      /\ \A n \in Names : secret'[n] # secret[n] => secret'[n] = value
<1>1. \E value \in Secrets \union {NoSecret}, done \in SUBSET Names : Copied(value, done)
  <2>1. ASSUME ReadSecret(p)
        PROVE  secret["gateway"] \in Secrets \union {NoSecret} /\ Copied(secret["gateway"], {})
    <3>1. PropagateFrom(p, secret["gateway"], {}) /\ secret' = secret
      BY <2>1 DEF ReadSecret, files
    <3>2. secret["gateway"] \in Secrets \union {NoSecret} /\ FilesTyped'
      BY <1>0, <3>1 DEF FilesTyped
    <3> QED
      BY <3>1, <3>2
  <2>2. ASSUME NEW n \in Names, CopySecret(p, n)
        PROVE  Copied(proc[p].secret, proc[p].done \union {n})
    <3>1. /\ PropagateFrom(p, proc[p].secret, proc[p].done \union {n})
          /\ secret' = [secret EXCEPT ![n] = proc[p].secret] /\ proc[p].pc = "copying"
      BY <2>2 DEF CopySecret
    <3>2. /\ proc[p].secret \in Secrets \union {NoSecret}
          /\ proc[p].done \union {n} \in SUBSET Names
      BY <1>0 DEF ProcessStates
    <3>3. /\ \A k \in Names : secret'[k] = IF k = n THEN proc[p].secret ELSE secret[k]
          /\ secret'["gateway"] = secret["gateway"]
      BY <1>0, <3>1, NamesAssumption DEF FilesTyped
    <3>4. FilesTyped'
      BY <1>0, <3>1, <3>2 DEF FilesTyped
    <3>5. proc[p].current => proc[p].secret = secret["gateway"]
      BY <1>0, <3>1 DEF CommandInv, ReadsManifest, Syncing, Writing
    <3>6. proc[p].alone => \A k \in proc[p].done : secret[k] = proc[p].secret
      BY <1>0, <3>1 DEF CommandInv, Written, Syncing, Writing
    <3>7. proc[p].alone => \A k \in proc[p].done \union {n} : secret'[k] = proc[p].secret
      BY <3>2, <3>3, <3>6
    <3> QED
      BY <3>1, <3>3, <3>4, <3>5, <3>7
  <2>3. /\ proc[p].secret \in Secrets \union {NoSecret}
        /\ \A n \in Names : proc[p].done \union {n} \in SUBSET Names
    BY <1>0 DEF ProcessStates
  <2> HIDE DEF Copied
  <2> QED
    BY <1>0, <2>1, <2>2, <2>3
<1>2. PICK value \in Secrets \union {NoSecret}, done \in SUBSET Names : Copied(value, done)
  BY <1>1
<1>3. PropagateFrom(p, value, done)
  BY <1>2
<1>4. PICK q \in ProcessStates : Propagated(p, q, value, done)
  BY <1>0, <1>3, PropagateTyped
<1>5. CommandInv(q)'
  <2>1. ReadsManifest(q)'
    BY <1>0, <1>2, <1>4 DEF Propagated, CommandInv, ReadsManifest, Syncing, Writing
  <2>2. q.alone => wrangler = RenderWrangler(q.entries) /\ generated = RenderGenerated(q.entries)
    BY <1>0, <1>4 DEF Propagated, CommandInv, Written, Syncing, Writing
  <2>3. Written(q)'
    BY <1>0, <1>2, <1>4, <2>2 DEF Propagated, Written, RenderWrangler, RenderGenerated, Services
  <2>4. WasChecked(q)' /\ DeploysEntries(q)'
    BY <1>4 DEF Propagated, WasChecked, DeploysEntries, Checking
  <2> QED
    BY <2>1, <2>3, <2>4 DEF CommandInv
<1>6. proc[p].pc \in Writing /\ q.pc \notin Checking
  BY <1>0, <1>4 DEF Propagated, Writing, Checking
<1> QED
  BY <1>0, <1>2, <1>4, <1>5, <1>6, SyncStep DEF Propagated

\* gmode new: until its sync begins it writes no file that a sync writes.
LEMMA NewStep ==
  ASSUME WorkspaceInv, NEW p \in Processes,
         (\E n \in Names, m \in Mounts : Scaffold(p, n, m)) \/ ReadManifest(p)
  PROVE  WorkspaceInv'
<1>0. /\ UNCHANGED <<manifest, wrangler, generated, secret>>
      /\ deployed' = deployed
  BY DEF Scaffold, ReadManifest, account, files
<1>1. /\ proc[p] \in ProcessStates /\ IsFiniteSet(proc[p].entries)
      /\ proc \in [Processes -> ProcessStates] /\ FilesTyped
  BY DEF WorkspaceInv, CommandsTyped
<1>2. ASSUME NEW n \in Names, NEW m \in Mounts, Scaffold(p, n, m), ~End(p)
      PROVE  \E q \in ProcessStates :
               /\ proc' = [proc EXCEPT ![p] = q] /\ IsFiniteSet(q.entries)
               /\ q.pc \in {"registering", "appending"}
  <2> DEFINE entries == {[name |-> n, mount |-> m]}
  <2>1. PICK q : q = [proc[p] EXCEPT !.pc = "registering", !.command = "new",
                                     !.entries = entries]
    OBVIOUS
  <2>2. IsFiniteSet(entries) /\ entries \in SUBSET Entries
    <3>1. [name |-> n, mount |-> m] \in Entries
      BY DEF Entries
    <3> QED
      BY <3>1, FS_Singleton
  <2>3. proc' = [proc EXCEPT ![p].pc = "registering", ![p].command = "new",
                             ![p].entries = entries]
    BY <1>2 DEF Scaffold
  <2> HIDE DEF entries
  <2>4. proc' \in [Processes -> ProcessStates]
    BY <1>1, <2>2, <2>3 DEF ProcessStates
  <2>5. \A r \in Processes : proc'[r] = IF r = p THEN q ELSE proc[r]
    BY <1>1, <2>1, <2>3 DEF ProcessStates
  <2>6. proc' = [proc EXCEPT ![p] = q]
    BY <1>1, <2>4, <2>5
  <2>7. q \in ProcessStates /\ q.pc = "registering" /\ q.entries = entries
    BY <1>1, <2>1, <2>2 DEF ProcessStates
  <2> QED
    BY <2>2, <2>6, <2>7
<1>3. ASSUME ReadManifest(p)
      PROVE  \E q \in ProcessStates :
               /\ proc' = [proc EXCEPT ![p] = q] /\ IsFiniteSet(q.entries)
               /\ q.pc \in {"registering", "appending"}
  <2> DEFINE entries == manifest \union proc[p].entries
  <2>1. PICK q : q = [proc[p] EXCEPT !.pc = "appending", !.entries = entries]
    OBVIOUS
  <2>2. IsFiniteSet(entries) /\ entries \in SUBSET Entries
    BY <1>1, FS_Union DEF FilesTyped, ProcessStates
  <2>3. proc' = [proc EXCEPT ![p].pc = "appending", ![p].entries = entries]
    BY <1>3 DEF ReadManifest
  <2> HIDE DEF entries
  <2>4. proc' \in [Processes -> ProcessStates]
    BY <1>1, <2>2, <2>3 DEF ProcessStates
  <2>5. \A r \in Processes : proc'[r] = IF r = p THEN q ELSE proc[r]
    BY <1>1, <2>1, <2>3 DEF ProcessStates
  <2>6. proc' = [proc EXCEPT ![p] = q]
    BY <1>1, <2>4, <2>5
  <2>7. q \in ProcessStates /\ q.pc = "appending" /\ q.entries = entries
    BY <1>1, <2>1, <2>2 DEF ProcessStates
  <2> QED
    BY <2>2, <2>6, <2>7
<1>4. ASSUME NEW q \in ProcessStates, proc' = [proc EXCEPT ![p] = q], IsFiniteSet(q.entries),
             q.pc \in {"registering", "appending"}
      PROVE  WorkspaceInv'
  <2>1. CommandInv(q)'
    BY <1>4 DEF CommandInv, ReadsManifest, Written, WasChecked, DeploysEntries, Syncing,
                Writing, Checking
  <2>2. q.pc \notin Syncing /\ q.pc \notin Checking
    BY <1>4 DEF Syncing, Writing, Checking
  <2> QED
    BY <1>0, <1>4, <2>1, <2>2, QuietCommand
<1>5. CASE End(p)
  BY <1>0, <1>5, Ending
<1> QED
  BY <1>2, <1>3, <1>4, <1>5

\* An edit, by the developer or by gmode new: who is under way has not seen it.
LEMMA EditStep ==
  ASSUME WorkspaceInv, FilesTyped', \A n \in Names : secret'[n] = secret[n],
         UNCHANGED <<wrangler, generated, deployed>>, DOMAIN proc' = Processes,
         proc' = [p \in Processes |-> proc'[p]],
         \A p \in Processes :
           /\ proc'[p] \in ProcessStates /\ IsFiniteSet(proc'[p].entries)
           /\ ~proc'[p].current
           /\ \/ proc'[p].pc = "registered"
              \/ /\ proc'[p].pc = proc[p].pc /\ proc'[p].entries = proc[p].entries
                 /\ proc'[p].done = proc[p].done /\ proc'[p].secret = proc[p].secret
                 /\ proc'[p].alone = proc[p].alone /\ proc'[p].exit = proc[p].exit
  PROVE  WorkspaceInv'
<1>1. CommandsTyped' /\ CommandsTyped
  BY DEF WorkspaceInv, CommandsTyped
<1>2. ASSUME NEW p \in Processes PROVE CommandInv(proc[p])'
  <2>1. ReadsManifest(proc[p])' /\ WasChecked(proc[p])'
    BY DEF ReadsManifest, WasChecked
  <2>2. CASE proc'[p].pc = "registered"
    BY <2>1, <2>2 DEF CommandInv, Written, DeploysEntries, Syncing, Writing
  <2>3. CASE proc'[p].pc # "registered"
    <3>1. /\ proc'[p].pc = proc[p].pc /\ proc'[p].entries = proc[p].entries
          /\ proc'[p].done = proc[p].done /\ proc'[p].secret = proc[p].secret
          /\ proc'[p].alone = proc[p].alone /\ proc'[p].exit = proc[p].exit
      BY <2>3
    <3>2. proc[p].done \subseteq Names /\ Written(proc[p]) /\ DeploysEntries(proc[p])
      BY <1>1 DEF WorkspaceInv, CommandInv, CommandsTyped, ProcessStates
    <3>3. Written(proc[p])'
      BY <3>1, <3>2 DEF Written, RenderWrangler, RenderGenerated
    <3>4. DeploysEntries(proc[p])'
      BY <3>1, <3>2 DEF DeploysEntries
    <3> QED
      BY <2>1, <3>3, <3>4 DEF CommandInv
  <2> QED
    BY <2>2, <2>3
<1>3. ASSUME NEW p \in Processes PROVE WritesAlone(p)'
  BY DEF WorkspaceInv, WritesAlone, Syncing, Writing
<1>4. ASSUME NEW p \in Processes PROVE WritersAgree(p)'
  BY DEF WritersAgree
<1> QED
  BY <1>1, <1>2, <1>3, <1>4 DEF WorkspaceInv

\* The developer's edits.
LEMMA EditedStep ==
  ASSUME WorkspaceInv, FilesTyped', \A n \in Names : secret'[n] = secret[n],
         UNCHANGED <<wrangler, generated, deployed>>, proc' = Edited(proc)
  PROVE  WorkspaceInv'
<1>1. ASSUME NEW p \in Processes
      PROVE  /\ proc'[p] \in ProcessStates /\ IsFiniteSet(proc'[p].entries)
             /\ ~proc'[p].current
             /\ proc'[p].pc = proc[p].pc /\ proc'[p].entries = proc[p].entries
             /\ proc'[p].done = proc[p].done /\ proc'[p].secret = proc[p].secret
             /\ proc'[p].alone = proc[p].alone /\ proc'[p].exit = proc[p].exit
  <2>1. proc'[p] = [proc[p] EXCEPT !.current = FALSE]
    BY DEF Edited
  <2>2. proc[p] \in ProcessStates /\ IsFiniteSet(proc[p].entries)
    BY DEF WorkspaceInv, CommandsTyped
  <2> QED
    BY <2>1, <2>2 DEF ProcessStates
<1>2. DOMAIN proc' = Processes /\ proc' = [p \in Processes |-> proc'[p]]
  BY DEF Edited
<1> QED
  BY <1>1, <1>2, EditStep

\* gmode new registers its entry: an edit like the developer's, then a step.
LEMMA RegisterStep ==
  ASSUME WorkspaceInv, NEW p \in Processes, Register(p)
  PROVE  WorkspaceInv'
<1>0. /\ UNCHANGED <<wrangler, generated, secret, deployed>>
      /\ manifest' = proc[p].entries
      /\ proc' = Edited([proc EXCEPT ![p].pc = "registered", ![p].entries = {}])
  BY DEF Register, account
<1>1. FilesTyped /\ CommandsTyped /\ proc[p] \in ProcessStates
  BY DEF WorkspaceInv, CommandsTyped
<1>2. FilesTyped'
  BY <1>0, <1>1 DEF FilesTyped, CommandsTyped, ProcessStates
<1>3. ASSUME NEW r \in Processes
      PROVE  /\ proc'[r] \in ProcessStates /\ IsFiniteSet(proc'[r].entries)
             /\ ~proc'[r].current
             /\ \/ proc'[r].pc = "registered"
                \/ /\ proc'[r].pc = proc[r].pc /\ proc'[r].entries = proc[r].entries
                   /\ proc'[r].done = proc[r].done /\ proc'[r].secret = proc[r].secret
                   /\ proc'[r].alone = proc[r].alone /\ proc'[r].exit = proc[r].exit
  <2>1. CASE r = p
    <3>1. proc'[r] = [proc[p] EXCEPT !.pc = "registered", !.entries = {}, !.current = FALSE]
      BY <1>0, <1>1, <2>1 DEF Edited, CommandsTyped, ProcessStates
    <3> QED
      BY <1>1, <3>1, FS_EmptySet DEF ProcessStates
  <2>2. CASE r # p
    <3>1. proc'[r] = [proc[r] EXCEPT !.current = FALSE]
      BY <1>0, <1>1, <2>2 DEF Edited, CommandsTyped
    <3>2. proc[r] \in ProcessStates /\ IsFiniteSet(proc[r].entries)
      BY <1>1 DEF CommandsTyped
    <3> QED
      BY <3>1, <3>2 DEF ProcessStates
  <2> QED
    BY <2>1, <2>2
<1>4. DOMAIN proc' = Processes /\ proc' = [r \in Processes |-> proc'[r]]
  BY <1>0 DEF Edited
<1> QED
  BY <1>0, <1>2, <1>3, <1>4, EditStep

\* gmode deploy: it counts an entry as deployed only when it is, and goes on to
\* the gateway only when all of them are.
LEMMA DeployStep ==
  ASSUME WorkspaceInv, NEW p \in Processes,
         \/ \E n \in Names, ok \in BOOLEAN : DeployEntry(p, n, ok)
         \/ EntriesDeployed(p)
         \/ \E ok \in BOOLEAN : DeployGateway(p, ok)
         \/ Synced(p)
  PROVE  WorkspaceInv'
<1>0. /\ proc[p] \in ProcessStates /\ IsFiniteSet(proc[p].entries)
      /\ DeploysEntries(proc[p]) /\ proc \in [Processes -> ProcessStates]
  BY DEF WorkspaceInv, CommandInv, CommandsTyped
<1>1. ASSUME NEW n \in Names, NEW ok \in BOOLEAN, DeployEntry(p, n, ok)
      PROVE  WorkspaceInv'
  <2>1. PICK q : q = [proc[p] EXCEPT !.done = @ \union {n},
                                     !.exit = IF ok THEN @ ELSE 1]
    OBVIOUS
  <2>2. proc' = [proc EXCEPT ![p] = q]
    BY <1>1, <2>1 DEF DeployEntry
  <2>3. /\ q \in ProcessStates /\ q.pc = "deploying" /\ q.entries = proc[p].entries
        /\ q.done = proc[p].done \union {n}
        /\ q.exit = IF ok THEN proc[p].exit ELSE 1
    BY <1>0, <1>1, <2>1 DEF ProcessStates, DeployEntry
  <2>4. /\ deployed' = IF ok THEN deployed \union {n} ELSE deployed
        /\ UNCHANGED <<manifest, wrangler, generated, secret>>
    BY <1>1 DEF DeployEntry, files
  <2>5. DeploysEntries(q)'
    <3>1. CASE ok
      <4>1. q.exit = proc[p].exit /\ deployed' = deployed \union {n}
        BY <2>3, <2>4, <3>1, Zenon
      <4> QED
        BY <1>0, <1>1, <2>3, <4>1 DEF DeploysEntries, DeployEntry
    <3>2. CASE ~ok
      <4>1. q.exit # 0
        BY <2>3, <3>2, ExitCodes, Zenon
      <4> QED
        BY <2>3, <4>1 DEF DeploysEntries
    <3> QED
      BY <3>1, <3>2
  <2>6. q.pc \notin Syncing /\ q.pc \notin Checking
    BY <2>3 DEF Syncing, Writing, Checking
  <2>7. CommandInv(q)'
    BY <2>5, <2>6 DEF CommandInv, ReadsManifest, Written, WasChecked
  <2> QED
    BY <1>0, <2>2, <2>3, <2>4, <2>6, <2>7, QuietCommand
<1>2. CASE EntriesDeployed(p)
  <2>1. UNCHANGED <<manifest, wrangler, generated, secret, deployed>>
    BY <1>2 DEF EntriesDeployed, files, account
  <2>2. CASE proc[p].exit # 0
    BY <1>2, <2>1, <2>2, Ending DEF EntriesDeployed
  <2>3. CASE proc[p].exit = 0
    <3>1. PICK q : q = [proc[p] EXCEPT !.pc = "gateway"]
      OBVIOUS
    <3>2. proc' = [proc EXCEPT ![p] = q]
      BY <1>2, <2>3, <3>1 DEF EntriesDeployed, Proceed
    <3>3. /\ q \in ProcessStates /\ q.pc = "gateway" /\ q.entries = proc[p].entries
          /\ q.done = proc[p].done /\ q.exit = proc[p].exit
      BY <1>0, <3>1 DEF ProcessStates
    <3>4. DeploysEntries(q)'
      BY <1>0, <1>2, <2>1, <2>3, <3>3 DEF DeploysEntries, EntriesDeployed
    <3>5. q.pc \notin Syncing /\ q.pc \notin Checking
      BY <3>3 DEF Syncing, Writing, Checking
    <3>6. CommandInv(q)'
      BY <3>4, <3>5 DEF CommandInv, ReadsManifest, Written, WasChecked
    <3> QED
      BY <1>0, <2>1, <3>2, <3>3, <3>5, <3>6, QuietCommand
  <2> QED
    BY <2>2, <2>3
<1>3. ASSUME NEW ok \in BOOLEAN, DeployGateway(p, ok) PROVE WorkspaceInv'
  BY <1>3, Ending DEF DeployGateway, files
<1>4. CASE Synced(p)
  BY <1>4, Ending DEF Synced, files, account
<1> QED
  BY <1>1, <1>2, <1>3, <1>4

\* gmode doctor: each check is of the files as they are when it is made.
LEMMA DoctorStep ==
  ASSUME WorkspaceInv, NEW p \in Processes,
         \/ StartDoctor(p) \/ DriftCheck(p) \/ FreshCheck(p)
         \/ GatewaySecretCheck(p) \/ ServicesChecked(p)
         \/ \E n \in Names : ServiceSecretCheck(p, n)
         \/ \E ok \in BOOLEAN : OtherChecks(p, ok)
  PROVE  WorkspaceInv'
<1>0. /\ proc[p] \in ProcessStates /\ IsFiniteSet(proc[p].entries) /\ FilesTyped
      /\ CommandInv(proc[p]) /\ proc \in [Processes -> ProcessStates]
  BY DEF WorkspaceInv, CommandsTyped
<1>1. UNCHANGED <<manifest, wrangler, generated, secret, deployed>>
  BY DEF StartDoctor, DriftCheck, FreshCheck, GatewaySecretCheck, ServicesChecked,
         ServiceSecretCheck, OtherChecks, Checked, files, account
<1>2. ASSUME NEW q \in ProcessStates, proc' = [proc EXCEPT ![p] = q],
             q.entries = proc[p].entries, q.current = proc[p].current,
             proc[p].pc \in Checking, q.pc \in Checking,
             q.exit = 0 => proc[p].exit = 0, WasChecked(q)
      PROVE  WorkspaceInv'
  <2>1. CommandInv(q)'
    <3>1. ReadsManifest(q)'
      BY <1>0, <1>1, <1>2 DEF CommandInv, ReadsManifest, Checking
    <3>2. WasChecked(q)'
      BY <1>1, <1>2 DEF WasChecked, RenderWrangler, RenderGenerated, Services
    <3> QED
      BY <1>2, <3>1, <3>2 DEF CommandInv, Written, DeploysEntries, Checking, Syncing, Writing
  <2>2. q.pc \notin Syncing
    BY <1>2 DEF Checking, Syncing, Writing
  <2>3. q.current => \A r \in Processes \ {p} : proc[r].pc \in Writing => proc[r].current
    BY <1>2 DEF WorkspaceInv, WritersAgree
  <2> QED
    BY <1>0, <1>1, <1>2, <2>1, <2>2, <2>3, QuietCommand
<1>3. ASSUME NEW ok \in BOOLEAN,
             NEW pc \in {"fresh check", "secret check", "other checks", "exited"},
             Checked(p, ok, pc), proc[p].pc \in Checking,
             ASSUME NEW q, q.pc = pc, q.exit = 0, q.current, ok, q.entries = manifest,
                    q.entries = proc[p].entries,
                    q.done = proc[p].done, q.secret = proc[p].secret,
                    proc[p].exit = 0, proc[p].current, WasChecked(proc[p])
             PROVE  WasChecked(q)
      PROVE  WorkspaceInv'
  <2>1. PICK q : q = [proc[p] EXCEPT !.pc = pc, !.exit = IF ok THEN @ ELSE 1]
    OBVIOUS
  <2>2. proc' = [proc EXCEPT ![p] = q]
    BY <1>3, <2>1 DEF Checked
  <2>3. /\ q \in ProcessStates /\ q.pc = pc /\ q.entries = proc[p].entries
        /\ q.current = proc[p].current /\ q.done = proc[p].done
        /\ q.secret = proc[p].secret
        /\ q.exit = 0 => ok /\ proc[p].exit = 0
    <3>1. CASE ok
      BY <1>0, <2>1, <3>1 DEF ProcessStates, Checking
    <3>2. CASE ~ok
      <4>1. q = [proc[p] EXCEPT !.pc = pc, !.exit = 1]
        BY <2>1, <3>2, Zenon
      <4>2. /\ q \in ProcessStates /\ q.pc = pc /\ q.entries = proc[p].entries
            /\ q.current = proc[p].current /\ q.done = proc[p].done
            /\ q.secret = proc[p].secret /\ q.exit = 1
        BY <1>0, <4>1 DEF ProcessStates, Checking
      <4> QED
        BY <4>2, ExitCodes, Zenon
    <3> QED
      BY <3>1, <3>2
  <2>4. q.current => q.entries = manifest
    BY <1>0, <1>3, <2>3 DEF CommandInv, ReadsManifest
  <2>5. WasChecked(q)
    <3> SUFFICES ASSUME q.current, q.exit = 0 PROVE WasChecked(q)
      BY DEF WasChecked
    <3>1. ok /\ proc[p].exit = 0
      BY <2>3
    <3>2. proc[p].current /\ WasChecked(proc[p])
      BY <1>0, <2>3 DEF CommandInv
    <3> QED
      BY <1>3, <2>3, <2>4, <3>1, <3>2
  <2>6. q.pc \in Checking /\ (q.exit = 0 => proc[p].exit = 0)
    BY <2>3 DEF Checking
  <2> QED
    BY <1>2, <1>3, <2>2, <2>3, <2>5, <2>6
<1>4. CASE StartDoctor(p)
  <2>1. CASE Loads(manifest)
    <3>1. PICK q :
            q = [Idle EXCEPT !.pc = "drift check", !.command = "doctor", !.entries = manifest,
                             !.current = \A r \in Processes :
                                           proc[r].pc \in Writing => proc[r].current]
      OBVIOUS
    <3>2. proc' = [proc EXCEPT ![p] = q]
      BY <1>4, <2>1, <3>1 DEF StartDoctor
    <3>3. /\ q \in ProcessStates /\ q.pc = "drift check" /\ q.entries = manifest
          /\ q.done = {}
          /\ q.current => \A r \in Processes : proc[r].pc \in Writing => proc[r].current
      BY <1>0, <3>1 DEF Idle, ProcessStates, Checking, FilesTyped
    <3>4. CommandInv(q)'
      BY <1>1, <3>3 DEF CommandInv, ReadsManifest, Written, WasChecked, DeploysEntries,
                        Syncing, Writing, Checking
    <3>5. q.pc \notin Syncing /\ IsFiniteSet(q.entries)
      BY <1>0, <3>3 DEF Syncing, Writing, FilesTyped
    <3> QED
      BY <1>1, <3>2, <3>3, <3>4, <3>5, QuietCommand
  <2>2. CASE ~Loads(manifest)
    BY <1>1, <1>4, <2>2, Ending DEF StartDoctor
  <2> QED
    BY <2>1, <2>2
<1>5. CASE DriftCheck(p)
  <2> DEFINE ok == /\ Cardinality(wrangler) = Cardinality(RenderWrangler(proc[p].entries))
                   /\ RenderWrangler(proc[p].entries) \subseteq wrangler
  <2>1. Checked(p, ok, "fresh check") /\ proc[p].pc = "drift check"
    BY <1>5 DEF DriftCheck
  <2>2. ok => wrangler = RenderWrangler(proc[p].entries)
    BY <1>0, FS_Subset DEF FilesTyped
  <2> HIDE DEF ok
  <2>3. PICK good \in BOOLEAN : good = (ok = TRUE)
    OBVIOUS
  <2>4. Checked(p, good, "fresh check") /\ (good => wrangler = RenderWrangler(proc[p].entries))
    BY <2>1, <2>2, <2>3 DEF Checked
  <2>5. ASSUME NEW q, q.pc = "fresh check", q.done = proc[p].done,
               q.entries = manifest, q.entries = proc[p].entries,
               good, proc[p].exit = 0, proc[p].current, WasChecked(proc[p])
        PROVE  WasChecked(q)
    BY <2>1, <2>4, <2>5 DEF WasChecked, Checking
  <2> QED
    BY <1>3, <2>1, <2>4, <2>5 DEF Checking
<1>6. CASE FreshCheck(p)
  <2>1. /\ Checked(p, generated = RenderGenerated(proc[p].entries), "secret check")
        /\ proc[p].pc = "fresh check"
    BY <1>6 DEF FreshCheck
  <2>2. ASSUME NEW q, q.pc = "secret check", q.done = proc[p].done,
               q.entries = manifest, q.entries = proc[p].entries,
               generated = RenderGenerated(proc[p].entries),
               proc[p].exit = 0, proc[p].current, WasChecked(proc[p])
        PROVE  WasChecked(q)
    BY <2>1, <2>2 DEF WasChecked, Checking
  <2> QED
    BY <1>3, <2>1, <2>2 DEF Checking
<1>7. CASE GatewaySecretCheck(p)
  <2> DEFINE value == secret["gateway"]
  <2>1. PICK q : q = [proc[p] EXCEPT !.secret = value,
                        !.pc = IF value = NoSecret THEN "other checks" ELSE "service checks",
                        !.exit = IF value = NoSecret THEN 1 ELSE @]
    OBVIOUS
  <2>2. value \in Secrets \union {NoSecret} /\ proc[p].pc = "secret check"
    BY <1>0, <1>7 DEF FilesTyped, GatewaySecretCheck
  <2>3. /\ q \in ProcessStates /\ q.entries = proc[p].entries /\ q.secret = value
        /\ q.current = proc[p].current /\ q.done = proc[p].done
        /\ q.pc = IF value = NoSecret THEN "other checks" ELSE "service checks"
        /\ q.exit = IF value = NoSecret THEN 1 ELSE proc[p].exit
    BY <1>0, <2>1, <2>2 DEF ProcessStates, Checking
  <2>4. proc' = [proc EXCEPT ![p] = q]
    <3>1. proc' = [proc EXCEPT ![p].secret = value,
                     ![p].pc = IF value = NoSecret THEN "other checks" ELSE "service checks",
                     ![p].exit = IF value = NoSecret THEN 1 ELSE @]
      BY <1>7 DEF GatewaySecretCheck
    <3> HIDE DEF value
    <3>2. proc' \in [Processes -> ProcessStates]
      BY <1>0, <2>2, <3>1 DEF ProcessStates, Checking
    <3>3. \A r \in Processes : proc'[r] = IF r = p THEN q ELSE proc[r]
      BY <1>0, <2>1, <3>1 DEF ProcessStates
    <3> QED
      BY <1>0, <3>2, <3>3
  <2>5. WasChecked(q)
    <3> SUFFICES ASSUME q.current, q.exit = 0 PROVE WasChecked(q)
      BY DEF WasChecked
    <3>1. value # NoSecret /\ q.pc = "service checks" /\ proc[p].exit = 0
      BY <2>3, ExitCodes, Zenon
    <3>2. /\ wrangler = RenderWrangler(manifest) /\ generated = RenderGenerated(manifest)
          /\ proc[p].done = {}
      BY <1>0, <2>2, <2>3, <3>1 DEF CommandInv, WasChecked, Checking
    <3> QED
      BY <2>3, <3>1, <3>2 DEF WasChecked
  <2>6. proc[p].pc \in Checking /\ q.pc \in Checking
    BY <2>2, <2>3 DEF Checking
  <2>7. q.exit = 0 => proc[p].exit = 0
    BY <2>3, ExitCodes, Zenon
  <2> QED
    BY <1>2, <2>3, <2>4, <2>5, <2>6, <2>7
<1>8. ASSUME NEW n \in Names, ServiceSecretCheck(p, n) PROVE WorkspaceInv'
  <2>1. PICK q : q = [proc[p] EXCEPT !.done = @ \union {n},
                                     !.exit = IF secret[n] = proc[p].secret THEN @ ELSE 1]
    OBVIOUS
  <2>2. proc' = [proc EXCEPT ![p] = q] /\ proc[p].pc = "service checks"
    BY <1>8, <2>1 DEF ServiceSecretCheck
  <2>3. /\ q \in ProcessStates /\ q.entries = proc[p].entries /\ q.secret = proc[p].secret
        /\ q.current = proc[p].current /\ q.done = proc[p].done \union {n}
        /\ q.pc = "service checks"
        /\ q.exit = IF secret[n] = proc[p].secret THEN proc[p].exit ELSE 1
    BY <1>0, <2>1, <2>2 DEF ProcessStates
  <2>4. WasChecked(q)
    <3> SUFFICES ASSUME q.current, q.exit = 0 PROVE WasChecked(q)
      BY DEF WasChecked
    <3>1. secret[n] = proc[p].secret /\ proc[p].exit = 0
      BY <2>3, ExitCodes, Zenon
    <3>2. WasChecked(proc[p]) /\ proc[p].current /\ proc[p].pc \in Checking
      BY <1>0, <2>2, <2>3 DEF CommandInv, Checking
    <3> QED
      BY <2>2, <2>3, <3>1, <3>2 DEF WasChecked
  <2>5. proc[p].pc \in Checking /\ q.pc \in Checking
    BY <2>2, <2>3 DEF Checking
  <2>6. q.exit = 0 => proc[p].exit = 0
    BY <2>3, ExitCodes, Zenon
  <2> QED
    BY <1>2, <2>2, <2>3, <2>4, <2>5, <2>6
<1>9. CASE ServicesChecked(p)
  <2>1. /\ Checked(p, TRUE, "other checks") /\ proc[p].pc = "service checks"
        /\ Services(proc[p].entries) \subseteq proc[p].done
    BY <1>9 DEF ServicesChecked
  <2>2. ASSUME NEW q, q.pc = "other checks", q.done = proc[p].done, q.secret = proc[p].secret,
               q.entries = proc[p].entries,
               proc[p].exit = 0, proc[p].current, WasChecked(proc[p])
        PROVE  WasChecked(q)
    BY <2>1, <2>2 DEF WasChecked, Checking
  <2> QED
    BY <1>3, <2>1, <2>2 DEF Checking
<1>10. ASSUME NEW ok \in BOOLEAN, OtherChecks(p, ok) PROVE WorkspaceInv'
  <2>1. Checked(p, ok, "exited") /\ proc[p].pc = "other checks"
    BY <1>10 DEF OtherChecks
  <2>2. ASSUME NEW q, q.pc = "exited", q.done = proc[p].done, q.secret = proc[p].secret,
               q.entries = proc[p].entries,
               proc[p].exit = 0, proc[p].current, WasChecked(proc[p])
        PROVE  WasChecked(q)
    BY <2>1, <2>2 DEF WasChecked, Checking
  <2> QED
    BY <1>3, <2>1, <2>2 DEF Checking
<1> QED
  BY <1>4, <1>5, <1>6, <1>7, <1>8, <1>9, <1>10

-----------------------------------------------------------------------------
(* Theorems about a workspace. *)

LEMMA WorkspaceStep == WorkspaceInv /\ [WorkspaceNext]_workspaceVars => WorkspaceInv'
<1> SUFFICES ASSUME WorkspaceInv, [WorkspaceNext]_workspaceVars PROVE WorkspaceInv'
  OBVIOUS
<1>0. FilesTyped
  BY DEF WorkspaceInv
<1>1. ASSUME NEW p \in Processes, StartSync(p) \/ StartDeploy(p) \/ SyncNew(p)
      PROVE  WorkspaceInv'
  BY <1>1, LoadManifestStep DEF StartSync, StartDeploy, SyncNew
<1>2. ASSUME NEW p \in Processes, Finish(p) PROVE WorkspaceInv'
  BY <1>2, Ending DEF Finish, End, files, account
<1>3. ASSUME NEW entries \in SUBSET Entries, IsFiniteSet(entries), EditManifest(entries)
      PROVE  WorkspaceInv'
  <2>1. FilesTyped'
    BY <1>0, <1>3 DEF EditManifest, FilesTyped
  <2> QED
    BY <1>3, <2>1, EditedStep DEF EditManifest, account
<1>4. ASSUME NEW n \in Names, NEW k \in Names,
             \/ EditManifest({e \in manifest : e.name # n})
             \/ \E m \in Mounts :
                  EditManifest({e \in manifest : e.name \notin {n, k}}
                                 \union {[name |-> k, mount |-> m]})
      PROVE  WorkspaceInv'
  <2>1. CASE EditManifest({e \in manifest : e.name # n})
    <3>1. IsFiniteSet({e \in manifest : e.name # n})
      BY <1>0, FS_Subset DEF FilesTyped
    <3> QED
      BY <1>0, <1>3, <2>1, <3>1 DEF FilesTyped
  <2>2. ASSUME NEW m \in Mounts,
               EditManifest({e \in manifest : e.name \notin {n, k}}
                              \union {[name |-> k, mount |-> m]})
        PROVE  WorkspaceInv'
    <3>1. IsFiniteSet({e \in manifest : e.name \notin {n, k}})
      BY <1>0, FS_Subset DEF FilesTyped
    <3>2. IsFiniteSet({e \in manifest : e.name \notin {n, k}}
                        \union {[name |-> k, mount |-> m]})
      BY <3>1, FS_AddElement
    <3> QED
      BY <1>0, <1>3, <2>2, <3>2 DEF FilesTyped, Entries
  <2> QED
    BY <1>4, <2>1, <2>2
<1>5. ASSUME NEW s \in Secrets, EditSecret(s) PROVE WorkspaceInv'
  <2>1. secret' = [secret EXCEPT !["gateway"] = s]
    BY <1>5 DEF EditSecret
  <2>2. FilesTyped' /\ \A n \in Names : secret'[n] = secret[n]
    BY <1>0, <1>5, <2>1, NamesAssumption DEF EditSecret, FilesTyped
  <2> QED
    BY <1>5, <2>2, EditedStep DEF EditSecret, account
<1>6. CASE UNCHANGED workspaceVars
  <2>1. UNCHANGED <<manifest, wrangler, generated, secret, proc, deployed>>
    BY <1>6 DEF workspaceVars
  <2>2. FilesTyped' /\ CommandsTyped'
    BY <2>1 DEF WorkspaceInv, FilesTyped, CommandsTyped
  <2>3. ASSUME NEW p \in Processes
        PROVE  (CommandInv(proc[p]) /\ WritesAlone(p) /\ WritersAgree(p))'
    <3>1. /\ ReadsManifest(proc[p]) /\ Written(proc[p]) /\ WasChecked(proc[p])
          /\ DeploysEntries(proc[p]) /\ WritesAlone(p) /\ WritersAgree(p)
      BY DEF WorkspaceInv, CommandInv
    <3>2. ReadsManifest(proc[p])'
      BY <2>1, <3>1 DEF ReadsManifest
    <3>3. Written(proc[p])'
      BY <2>1, <3>1 DEF Written, RenderWrangler, RenderGenerated, Services
    <3>4. WasChecked(proc[p])'
      BY <2>1, <3>1 DEF WasChecked, RenderWrangler, RenderGenerated, Services
    <3>5. DeploysEntries(proc[p])'
      BY <2>1, <3>1 DEF DeploysEntries
    <3>6. WritesAlone(p)' /\ WritersAgree(p)'
      BY <2>1, <3>1 DEF WritesAlone, WritersAgree
    <3> QED
      BY <3>2, <3>3, <3>4, <3>5, <3>6 DEF CommandInv
  <2> QED
    BY <2>2, <2>3 DEF WorkspaceInv
<1> QED
  BY <1>1, <1>2, <1>4, <1>5, <1>6, WriteWranglerStep, WriteGeneratedStep, PropagateStep, NewStep,
     RegisterStep, DeployStep, DoctorStep
  DEF WorkspaceNext

\* The inductive invariant of a workspace under concurrent commands, edits and
\* kills: a sync works on the manifest it read, what it wrote is there for as long
\* as no other command begins to sync, and what a doctor has found in order stays
\* in order for as long as every command that writes has read the same manifest.
THEOREM WorkspaceInvariant == WorkspaceSpec => []WorkspaceInv
<1> QED
  BY WorkspaceStart, WorkspaceStep, PTL DEF WorkspaceSpec

\* When gmode doctor, which reads one file after the other while other commands
\* write them, has found nothing, the gateway forwards every mount of the manifest
\* to the Worker of its entry and to nothing else, and every service verifies what
\* the gateway signs; whatever was killed half-way before.
THEOREM DoctorIsSound == WorkspaceSpec => []DoctorSound
<1>1. WorkspaceInv => DoctorSound
  <2> SUFFICES ASSUME WorkspaceInv, NEW p \in Processes,
                      proc[p].pc = "exited", proc[p].exit = 0, proc[p].current, DistinctBindings
               PROVE  /\ \A r \in generated :
                           {b.worker : b \in {x \in wrangler : x.binding = r.binding}}
                             = {r.name}
                      /\ {[name |-> r.name, mount |-> r.mount] : r \in generated} = manifest
                      /\ secret["gateway"] # NoSecret /\ SecretsShared
    BY DEF DoctorSound
  <2>1. FilesTyped /\ WasChecked(proc[p]) /\ ReadsManifest(proc[p])
    BY DEF WorkspaceInv, CommandInv
  <2>2. wrangler = RenderWrangler(manifest)
    BY <2>1 DEF WasChecked, Checking
  <2>3. generated = RenderGenerated(manifest)
    BY <2>1 DEF WasChecked, Checking
  <2>4. ASSUME NEW r \in generated
        PROVE  {b.worker : b \in {x \in wrangler : x.binding = r.binding}} = {r.name}
    <3>1. PICK e \in manifest :
            r = [name |-> e.name, mount |-> e.mount, binding |-> Binding[e.name]]
      BY <2>3 DEF RenderGenerated
    <3>2. [binding |-> Binding[e.name], worker |-> e.name] \in wrangler
      BY <2>2 DEF RenderWrangler
    <3>3. \A b \in wrangler : b.binding = r.binding => b.worker = r.name
      BY <2>2, <3>1 DEF RenderWrangler, DistinctBindings
    <3> QED
      BY <3>1, <3>2, <3>3
  <2>5. {[name |-> r.name, mount |-> r.mount] : r \in generated} = manifest
    <3>1. \A e \in manifest : e = [name |-> e.name, mount |-> e.mount]
      BY <2>1 DEF FilesTyped, Entries
    <3>2. \A r \in generated : \E e \in manifest : r.name = e.name /\ r.mount = e.mount
      BY <2>3 DEF RenderGenerated
    <3>3. \A e \in manifest : \E r \in generated : r.name = e.name /\ r.mount = e.mount
      <4> SUFFICES ASSUME NEW e \in manifest
                   PROVE  \E r \in generated : r.name = e.name /\ r.mount = e.mount
        OBVIOUS
      <4>1. [name |-> e.name, mount |-> e.mount, binding |-> Binding[e.name]] \in generated
        BY <2>3 DEF RenderGenerated
      <4> QED
        BY <4>1
    <3>4. {[name |-> r.name, mount |-> r.mount] : r \in generated} \subseteq manifest
      BY <3>1, <3>2
    <3>5. manifest \subseteq {[name |-> r.name, mount |-> r.mount] : r \in generated}
      BY <3>1, <3>3
    <3> QED
      BY <3>4, <3>5
  <2>6. /\ proc[p].secret = secret["gateway"] /\ proc[p].secret # NoSecret
        /\ \A n \in proc[p].done : secret[n] = proc[p].secret
        /\ Services(proc[p].entries) \subseteq proc[p].done /\ proc[p].entries = manifest
    BY <2>1 DEF WasChecked, ReadsManifest, Checking
  <2>7. secret["gateway"] # NoSecret /\ SecretsShared
    BY <2>6 DEF SecretsShared
  <2> QED
    BY <2>4, <2>5, <2>7
<1> QED
  BY <1>1, WorkspaceInvariant, PTL

\* A sync that ran alone and was not overtaken by an edit leaves nothing that
\* an earlier command left half done.
THEOREM SyncAloneSettles == WorkspaceSpec => []AloneSyncSettles
<1>1. WorkspaceInv => AloneSyncSettles
  <2> SUFFICES ASSUME WorkspaceInv, NEW p \in Processes,
                      proc[p].pc = "synced", proc[p].alone, proc[p].current
               PROVE  InStep /\ (secret["gateway"] # NoSecret => SecretsShared)
    BY DEF AloneSyncSettles
  <2>1. ReadsManifest(proc[p]) /\ Written(proc[p])
    BY DEF WorkspaceInv, CommandInv
  <2>2. proc[p].entries = manifest
    BY <2>1 DEF ReadsManifest, Syncing
  <2> QED
    BY <2>1, <2>2 DEF Written, Syncing, InStep, SecretsShared
<1> QED
  BY <1>1, WorkspaceInvariant, PTL

\* The gateway is deployed last, and only when the Worker of every entry exists.
THEOREM GatewayBindingsResolve == WorkspaceSpec => []BindingsResolve
<1>1. WorkspaceInv => BindingsResolve
  <2> SUFFICES ASSUME WorkspaceInv, NEW p \in Processes, proc[p].pc = "gateway",
                      NEW b \in RenderWrangler(proc[p].entries)
               PROVE  b.worker \in deployed
    BY DEF BindingsResolve
  <2>1. DeploysEntries(proc[p])
    BY DEF WorkspaceInv, CommandInv
  <2> QED
    BY <2>1 DEF DeploysEntries, RenderWrangler
<1> QED
  BY <1>1, WorkspaceInvariant, PTL

-----------------------------------------------------------------------------
(* A zone: types. *)

ActionRules == UNION {ToSet(LoadActionRules(a)) :
                        a \in {b \in Arguments : b.command = "sync-schema-actions"}}
PostedRules == UNION {ToSet(a.file) : a \in {b \in Arguments : b.command = "sync-sequences"}}

Actions == {rule.action : rule \in ActionRules}
Items(a) == IF a.command = "sync-sequences" THEN PostedRules ELSE [id : Ids, action : Actions]

CommandStates(a) ==
  [pc : {"start", "loading", "listing", "applying", "reporting", "uploading", "exited"},
   attempt : Nat \ {0}, listed : SUBSET (Keys \X Ids), todo : Seq(Items(a)),
   applied : Seq(Items(a)), failed : Nat, exit : {NoExit, 0, 1, 2, 3}]

SentRules == {Posted(rule) : rule \in PostedRules}

Uploads == [by : Commands, attempt : Nat \ {0}, keys : SUBSET UNION {a.spec : a \in Arguments},
            enabled : BOOLEAN]

ZoneTyped ==
  /\ zone \in [discovered : SUBSET (Keys \X Ids), validation : [Ids -> Actions \union {"none"}],
               schemas : Seq(Uploads), rules : Seq(SentRules)]
  /\ writer \in [Ids -> Commands \union {"nobody"}]
  /\ args \in [Commands -> Arguments]

-----------------------------------------------------------------------------
(* The inductive invariant. *)

Running(q) == q.pc # "exited" => q.exit = NoExit

\* j is the last of the steps that set the action of an operation.
LastFor(steps, j, id) ==
  /\ j \in DOMAIN steps /\ steps[j].id = id
  /\ \A k \in DOMAIN steps : steps[k].id = id => k <= j

\* What a command has set is set, unless another command has set it since.
Settles(c, steps) ==
  \A k \in DOMAIN steps : \E j \in DOMAIN steps :
    /\ LastFor(steps, j, steps[k].id)
    /\ writer[steps[k].id] = c => zone.validation[steps[k].id] = steps[j].action

\* sync-schema-actions goes through all its rules until it fails.
Enforces(c, q) ==
  args[c].command = "sync-schema-actions" =>
    /\ q.pc \in {"start", "loading", "listing", "reporting"} => q.applied = <<>>
    /\ q.pc = "applying" =>
         Len(q.applied) + Len(q.todo) = Len(LoadActionRules(args[c]))
    /\ q.pc = "reporting" => args[c].mode # "apply"
    /\ q.exit = 0 /\ args[c].mode = "apply" =>
         Len(q.applied) = Len(LoadActionRules(args[c]))
    /\ q.pc = "applying" \/ q.exit = 0 =>
         Settles(c, q.applied)

\* sync-sequences goes through all its rules, whether they fail or not.
Ran(c, q) == q.pc = "exited" /\ args[c].mode = "apply" /\ Token(args[c]) # ""

Sent(rules) == {Posted(rule) : rule \in ToSet(rules)}

Posts(c, q) ==
  args[c].command = "sync-sequences" =>
    /\ q.pc \in {"start", "applying", "exited"}
    /\ q.pc = "start" => q.applied = <<>> /\ q.failed = 0
    /\ q.pc = "applying" \/ Ran(c, q) =>
         /\ Len(q.applied) + q.failed + Len(q.todo) = Len(args[c].file)
         /\ Sent(q.applied) \subseteq ToSet(zone.rules)
         /\ q.failed = 0 => ToSet(args[c].file) = ToSet(q.applied) \union ToSet(q.todo)
    /\ Ran(c, q) => q.todo = <<>> /\ (q.exit = 0 => q.failed = 0)

\* bootstrap and push-schema upload once in a run, at its end.
Uploaded(c) == {zone.schemas[i] : i \in {j \in DOMAIN zone.schemas : zone.schemas[j].by = c}}

Ended(q) == q.pc = "exited" /\ q.exit \in {0, 3}

Bootstraps(c, q) ==
  args[c].command = "bootstrap" =>
    /\ q.pc # "applying"
    /\ q.pc = "reporting" => args[c].mode # "apply"
    /\ Ended(q) => q.exit = Drift(args[c], q.listed)
    /\ \A u \in Uploaded(c) :
         /\ u.keys \subseteq args[c].spec /\ u.attempt <= q.attempt
         /\ u.attempt = q.attempt =>
              /\ q.pc = "exited" /\ u.enabled
              /\ u.keys = args[c].spec \intersect Discovered(q.listed)
    /\ Ended(q) /\ args[c].mode = "apply" => \E u \in Uploaded(c) : u.attempt = q.attempt

Pushes(c, q) ==
  args[c].command = "push-schema" =>
    /\ q.pc \in {"start", "loading", "uploading", "exited"}
    /\ \A u \in Uploaded(c) : u.keys = args[c].spec /\ (u.enabled <=> ~args[c].disable)
    /\ Ended(q) => \E u \in Uploaded(c) : u.attempt = q.attempt

Faithful(c, q) ==
  Running(q) /\ Enforces(c, q) /\ Posts(c, q) /\ Bootstraps(c, q) /\ Pushes(c, q)

ShieldInv ==
  /\ ZoneTyped
  /\ cmd \in [Commands -> {cmd[c] : c \in Commands}]
  /\ \A c \in Commands : cmd[c] \in CommandStates(args[c]) /\ Faithful(c, cmd[c])

-----------------------------------------------------------------------------
(* Sequences of rules. *)

LEMMA ToSetAppend ==
  ASSUME NEW S, NEW s \in Seq(S), NEW x \in S
  PROVE  ToSet(Append(s, x)) = ToSet(s) \union {x}
<1> DEFINE t == Append(s, x)
<1>1. /\ DOMAIN s = 1..Len(s) /\ DOMAIN t = 1..(Len(s) + 1) /\ Len(s) \in Nat
      /\ \A i \in 1..Len(s) : t[i] = s[i]
      /\ t[Len(s) + 1] = x
  OBVIOUS
<1> HIDE DEF t
<1>2. ToSet(t) \subseteq ToSet(s) \union {x}
  <2> SUFFICES ASSUME NEW i \in DOMAIN t PROVE t[i] \in ToSet(s) \union {x}
    BY DEF ToSet
  <2> QED
    BY <1>1 DEF ToSet
<1>3. ToSet(s) \union {x} \subseteq ToSet(t)
  <2>1. \A i \in DOMAIN s : i \in DOMAIN t /\ t[i] = s[i]
    BY <1>1
  <2>2. Len(s) + 1 \in DOMAIN t
    BY <1>1
  <2> QED
    BY <1>1, <2>1, <2>2 DEF ToSet
<1> QED
  BY <1>2, <1>3 DEF t

LEMMA ToSetHeadTail ==
  ASSUME NEW S, NEW s \in Seq(S), s # <<>>
  PROVE  /\ ToSet(s) = {Head(s)} \union ToSet(Tail(s))
         /\ Head(s) \in S /\ Tail(s) \in Seq(S) /\ Len(Tail(s)) = Len(s) - 1
         /\ Len(s) \in Nat \ {0}
<1> DEFINE t == Tail(s)
<1>1. /\ Len(s) \in Nat \ {0} /\ DOMAIN s = 1..Len(s) /\ DOMAIN t = 1..(Len(s) - 1)
      /\ Head(s) = s[1] /\ Head(s) \in S /\ t \in Seq(S) /\ Len(t) = Len(s) - 1
      /\ \A i \in 1..(Len(s) - 1) : t[i] = s[i + 1]
  BY EmptySeq
<1> HIDE DEF t
<1>2. ToSet(s) \subseteq {Head(s)} \union ToSet(t)
  <2> SUFFICES ASSUME NEW i \in DOMAIN s, i # 1 PROVE s[i] \in ToSet(t)
    BY <1>1 DEF ToSet
  <2>1. i - 1 \in DOMAIN t /\ t[i - 1] = s[i]
    BY <1>1
  <2> QED
    BY <2>1 DEF ToSet
<1>3. {Head(s)} \union ToSet(t) \subseteq ToSet(s)
  <2>1. \A i \in DOMAIN t : i + 1 \in DOMAIN s /\ t[i] = s[i + 1]
    BY <1>1
  <2>2. 1 \in DOMAIN s
    BY <1>1
  <2> QED
    BY <1>1, <2>1, <2>2 DEF ToSet
<1> QED
  BY <1>1, <1>2, <1>3 DEF t

LEMMA ToSetEmpty == ToSet(<<>>) = {}
<1>1. DOMAIN <<>> = {}
  OBVIOUS
<1> QED
  BY <1>1 DEF ToSet

LEMMA NothingLeft == \A applied, failed \in Nat : applied + failed + 0 = applied + failed
  OBVIOUS

\* The last of the steps for an operation is the one that Decided() picks.
LEMMA DecidedIsLast ==
  ASSUME NEW S, NEW steps \in Seq(S), NEW id, NEW j, LastFor(steps, j, id)
  PROVE  (CHOOSE i \in DOMAIN steps :
            /\ steps[i].id = id
            /\ \A k \in DOMAIN steps : steps[k].id = id => k <= i) = j
<1> DEFINE last == CHOOSE i \in DOMAIN steps :
                     /\ steps[i].id = id
                     /\ \A k \in DOMAIN steps : steps[k].id = id => k <= i
<1>1. LastFor(steps, last, id)
  BY DEF LastFor
<1>2. DOMAIN steps \subseteq Nat
  BY LenProperties
<1> HIDE DEF last
<1>3. last <= j /\ j <= last /\ last \in Nat /\ j \in Nat
  BY <1>1, <1>2 DEF LastFor
<1>4. last = j
  BY <1>3
<1> QED
  BY <1>4 DEF last

\* A step that is applied decides for its operation, and the others stay decided.
LEMMA SettlesStep ==
  ASSUME NEW S, NEW steps \in Seq(S), NEW step \in S, NEW c, Settles(c, steps),
         ZoneTyped, step.id \in Ids, SetAction(c, step)
  PROVE  Settles(c, Append(steps, step))'
<1> DEFINE t == Append(steps, step)
<1>1. /\ DOMAIN steps = 1..Len(steps) /\ DOMAIN t = 1..(Len(steps) + 1) /\ Len(steps) \in Nat
      /\ \A i \in 1..Len(steps) : t[i] = steps[i]
      /\ t[Len(steps) + 1] = step
  OBVIOUS
<1>2. /\ zone'.validation[step.id] = step.action
      /\ \A i \in Ids \ {step.id} :
           zone'.validation[i] = zone.validation[i] /\ writer'[i] = writer[i]
  BY DEF ZoneTyped, SetAction
<1>3. \A i \in DOMAIN zone.validation : i \in Ids
  BY DEF ZoneTyped
<1> HIDE DEF t
<1>4. ASSUME NEW k \in DOMAIN t
      PROVE  \E j \in DOMAIN t :
               /\ LastFor(t, j, t[k].id)
               /\ writer'[t[k].id] = c => zone'.validation[t[k].id] = t[j].action
  <2>1. CASE t[k].id = step.id
    BY <1>1, <1>2, <2>1 DEF LastFor
  <2>2. CASE t[k].id # step.id
    <3>1. k \in DOMAIN steps /\ t[k] = steps[k]
      BY <1>1, <2>2
    <3>2. PICK j \in DOMAIN steps :
            /\ LastFor(steps, j, steps[k].id)
            /\ writer[steps[k].id] = c => zone.validation[steps[k].id] = steps[j].action
      BY <3>1 DEF Settles
    <3>3. j \in DOMAIN t /\ t[j] = steps[j]
      BY <1>1
    <3>4. LastFor(t, j, t[k].id)
      BY <1>1, <2>2, <3>1, <3>2, <3>3 DEF LastFor
    <3>5. zone'.validation[t[k].id] = zone.validation[t[k].id] /\ writer'[t[k].id] = writer[t[k].id]
      BY <2>2 DEF SetAction, ZoneTyped
    <3> QED
      BY <3>1, <3>2, <3>3, <3>4, <3>5
  <2> QED
    BY <2>1, <2>2
<1> QED
  BY <1>4 DEF Settles, t, LastFor

-----------------------------------------------------------------------------
(* Steps of a command against the zone. *)

LEMMA UploadedTyped ==
  ASSUME ZoneTyped, NEW c, NEW u \in Uploaded(c)
  PROVE  u \in Uploads /\ u.by = c
BY ElementOfSeq, LenProperties DEF ZoneTyped, Uploaded

\* What other commands do to the zone takes nothing from a command: an action
\* that another sets is not the command's any more, rules are only added, and a
\* schema is the command's that uploaded it.
LEMMA OthersKeep ==
  ASSUME ShieldInv, NEW c \in Commands, NEW r \in Commands \ {c}, ZoneTyped',
         cmd'[r] = cmd[r], args' = args,
         \A i \in Ids : writer'[i] = r =>
           writer[i] = r /\ zone'.validation[i] = zone.validation[i],
         ToSet(zone.rules) \subseteq ToSet(zone'.rules),
         Uploaded(r)' = Uploaded(r)
  PROVE  Faithful(r, cmd[r])'
<1>1. Faithful(r, cmd[r]) /\ cmd[r] \in CommandStates(args[r])
  BY DEF ShieldInv
<1>2. Running(cmd[r])' /\ Posts(r, cmd[r])' /\ Bootstraps(r, cmd[r])' /\ Pushes(r, cmd[r])'
  <2>1. Running(cmd[r]) /\ Posts(r, cmd[r]) /\ Bootstraps(r, cmd[r]) /\ Pushes(r, cmd[r])
    BY <1>1 DEF Faithful
  <2>2. Running(cmd[r])'
    BY <2>1 DEF Running
  <2>3. Posts(r, cmd[r])'
    BY <2>1 DEF Posts, Ran
  <2>4. Bootstraps(r, cmd[r])'
    BY <2>1 DEF Bootstraps, Ended
  <2>5. Pushes(r, cmd[r])'
    BY <2>1 DEF Pushes, Ended
  <2> QED
    BY <2>2, <2>3, <2>4, <2>5
<1>3. Enforces(r, cmd[r])'
  <2> SUFFICES ASSUME args[r].command = "sync-schema-actions", Settles(r, cmd[r].applied)
               PROVE  Settles(r, cmd[r].applied)'
    BY <1>1 DEF Faithful, Enforces
  <2>1. cmd[r].applied \in Seq([id : Ids, action : Actions])
    BY <1>1 DEF CommandStates, Items
  <2>2. \A k \in DOMAIN cmd[r].applied : cmd[r].applied[k].id \in Ids
    <3>1. \A k \in DOMAIN cmd[r].applied : cmd[r].applied[k] \in [id : Ids, action : Actions]
      BY <2>1, ElementOfSeq, LenProperties
    <3> QED
      BY <3>1
  <2> QED
    BY <2>2 DEF Settles, LastFor
<1> QED
  BY <1>2, <1>3 DEF Faithful

\* One command goes on: it is enough that its own state is one of the invariant.
LEMMA ShieldCommand ==
  ASSUME ShieldInv, ZoneTyped', NEW c \in Commands, NEW q \in CommandStates(args[c]),
         cmd' = [cmd EXCEPT ![c] = q], args' = args, Faithful(c, q)',
         \A r \in Commands \ {c} :
           /\ \A i \in Ids : writer'[i] = r =>
                writer[i] = r /\ zone'.validation[i] = zone.validation[i]
           /\ Uploaded(r)' = Uploaded(r),
         ToSet(zone.rules) \subseteq ToSet(zone'.rules)
  PROVE  ShieldInv'
<1>1. \A r \in Commands : cmd'[r] = IF r = c THEN q ELSE cmd[r]
  BY DEF ShieldInv
<1>2. cmd' \in [Commands -> {cmd'[r] : r \in Commands}]
  BY <1>1 DEF ShieldInv
<1>3. ASSUME NEW r \in Commands PROVE cmd'[r] \in CommandStates(args'[r]) /\ Faithful(r, cmd[r])'
  <2>1. CASE r = c
    BY <1>1, <2>1
  <2>2. CASE r # c
    BY <1>1, <2>2, OthersKeep DEF ShieldInv
  <2> QED
    BY <2>1, <2>2
<1> QED
  BY <1>2, <1>3 DEF ShieldInv

\* A step that leaves the zone alone.
LEMMA ZoneQuiet ==
  ASSUME ShieldInv, NEW c \in Commands, NEW q \in CommandStates(args[c]),
         cmd' = [cmd EXCEPT ![c] = q], args' = args, ZoneUnchanged, Faithful(c, q)
  PROVE  ShieldInv'
<1> USE DEF ZoneUnchanged
<1>1. ZoneTyped' /\ ToSet(zone.rules) \subseteq ToSet(zone'.rules)
  BY DEF ShieldInv, ZoneTyped
<1>2. Faithful(c, q)'
  <2>1. Settles(c, q.applied)' <=> Settles(c, q.applied)
    BY DEF Settles, LastFor
  <2>2. Enforces(c, q)'
    BY <2>1 DEF Faithful, Enforces
  <2>3. Posts(c, q)'
    BY DEF Faithful, Posts, Ran
  <2>4. Uploaded(c)' = Uploaded(c)
    BY DEF Uploaded
  <2>5. Bootstraps(c, q)' /\ Pushes(c, q)' /\ Running(q)'
    BY <2>4, Zenon DEF Faithful, Running, Bootstraps, Pushes, Ended
  <2> QED
    BY <2>2, <2>3, <2>5 DEF Faithful
<1>3. \A r \in Commands : Uploaded(r)' = Uploaded(r)
  BY DEF Uploaded
<1> QED
  BY <1>1, <1>2, <1>3, ShieldCommand

LEMMA FailureCodes == \A code \in {1, 2} : code # 0 /\ code # 3
  OBVIOUS

\* A command that fails promises nothing, if it is not one that has posted rules.
LEMMA Fails ==
  ASSUME ShieldInv, NEW c \in Commands, NEW code \in {1, 2}, Exit(c, code),
         args' = args, ZoneUnchanged,
         args[c].command = "sync-sequences" => Token(args[c]) = ""
  PROVE  ShieldInv'
<1>1. cmd[c] \in CommandStates(args[c]) /\ Faithful(c, cmd[c])
  BY DEF ShieldInv
<1>2. PICK q : q = [cmd[c] EXCEPT !.pc = "exited", !.exit = code]
  OBVIOUS
<1>3. cmd' = [cmd EXCEPT ![c] = q]
  BY <1>2 DEF Exit
<1>4. /\ q \in CommandStates(args[c]) /\ q.pc = "exited" /\ q.exit = code
      /\ q.attempt = cmd[c].attempt /\ q.listed = cmd[c].listed
  BY <1>1, <1>2 DEF CommandStates
<1>5. Faithful(c, q)
  <2>0. q.exit # 0
    <3>1. q.exit = code
      BY <1>4
    <3> QED
      BY <3>1, FailureCodes, Zenon
  <2>1. Running(q) /\ Enforces(c, q)
    BY <1>4, <2>0, Zenon DEF Running, Enforces
  <2>2. Posts(c, q)
    BY <1>4 DEF Posts, Ran
  <2>3. Bootstraps(c, q) /\ Pushes(c, q)
    <3>1. ~Ended(q)
      BY <1>4, FailureCodes, Zenon DEF Ended
    <3> QED
      BY <1>1, <1>4, <3>1 DEF Faithful, Bootstraps, Pushes
  <2> QED
    BY <2>1, <2>2, <2>3 DEF Faithful
<1> QED
  BY <1>3, <1>4, <1>5, ZoneQuiet

\* loadConfig(), loadShieldSpec() and the end of a dry run.
LEMMA PrepareStep ==
  ASSUME ShieldInv, NEW c \in Commands,
         \/ LoadConfig(c) \/ Report(c) \/ RunAgain(c)
         \/ \E loaded \in BOOLEAN : LoadSpec(c, loaded)
  PROVE  ShieldInv'
<1>0. /\ cmd[c] \in CommandStates(args[c]) /\ Faithful(c, cmd[c])
      /\ args' = args /\ ZoneUnchanged /\ args[c] \in Arguments
  BY DEF ShieldInv, ZoneTyped, LoadConfig, Report, RunAgain, LoadSpec
<1>1. CASE LoadConfig(c)
  <2>1. CASE Offline(args[c])
    <3>1. PICK q : q = [cmd[c] EXCEPT !.pc = "exited", !.exit = 0]
      OBVIOUS
    <3>2. cmd' = [cmd EXCEPT ![c] = q]
      BY <1>1, <2>1, <3>1 DEF LoadConfig, Exit
    <3>3. q \in CommandStates(args[c]) /\ q.pc = "exited"
      BY <1>0, <3>1 DEF CommandStates
    <3>4. args[c].command = "sync-sequences" /\ args[c].mode # "apply"
      BY <2>1 DEF Offline
    <3>5. Faithful(c, q)
      BY <3>3, <3>4 DEF Faithful, Running, Enforces, Posts, Ran, Bootstraps, Pushes, Ended
    <3> QED
      BY <1>0, <3>2, <3>3, <3>5, ZoneQuiet
  <2>2. CASE ~Offline(args[c]) /\ Token(args[c]) = ""
    <3>1. Exit(c, 2)
      BY <1>1, <2>2 DEF LoadConfig
    <3> QED
      BY <1>0, <2>2, <3>1, Fails
  <2>3. CASE ~Offline(args[c]) /\ Token(args[c]) # "" /\ args[c].command = "sync-sequences"
    <3>1. PICK q : q = [cmd[c] EXCEPT !.pc = "applying", !.todo = args[c].file]
      OBVIOUS
    <3>2. cmd' = [cmd EXCEPT ![c] = [cmd[c] EXCEPT !.pc = "applying", !.todo = args[c].file]]
      <4>1. cmd' = [cmd EXCEPT ![c].pc = "applying", ![c].todo = args[c].file]
        BY <1>1, <2>3 DEF LoadConfig
      <4> QED
        BY <4>1
    <3>3. args[c].file \in Seq(PostedRules)
      <4>1. ToSet(args[c].file) \subseteq PostedRules
        BY <1>0, <2>3 DEF PostedRules
      <4>2. args[c].file \in Seq(ToSet(args[c].file))
        BY <1>0, <2>3, ArgumentsAssumption
      <4> QED
        BY <4>1, <4>2, SeqMonotonic
    <3>4. /\ q \in CommandStates(args[c]) /\ q.pc = "applying" /\ q.todo = args[c].file
          /\ q.applied = cmd[c].applied /\ q.failed = cmd[c].failed /\ q.exit = cmd[c].exit
      BY <1>0, <2>3, <3>1, <3>3 DEF CommandStates, Items
    <3>5. q.applied = <<>> /\ q.failed = 0 /\ q.exit = NoExit
      BY <1>0, <1>1, <2>3, <3>4 DEF Faithful, Posts, Running, LoadConfig
    <3>6. Len(q.applied) + q.failed + Len(q.todo) = Len(args[c].file) /\ ToSet(q.applied) = {} /\ Sent(q.applied) = {}
      BY <3>3, <3>4, <3>5, ToSetEmpty, LenProperties DEF Sent
    <3>7. Faithful(c, q)
      BY <2>3, <3>4, <3>5, <3>6 DEF Faithful, Running, Enforces, Posts, Ran, Bootstraps, Pushes, Ended
    <3> QED
      BY <1>0, <3>1, <3>2, <3>4, <3>7, ZoneQuiet
  <2>4. CASE ~Offline(args[c]) /\ Token(args[c]) # "" /\ args[c].command # "sync-sequences"
    <3>1. PICK q : q = [cmd[c] EXCEPT !.pc = "loading"]
      OBVIOUS
    <3>2. cmd' = [cmd EXCEPT ![c] = q]
      BY <1>1, <2>4, <3>1 DEF LoadConfig, Goto
    <3>3. /\ q \in CommandStates(args[c]) /\ q.pc = "loading" /\ q.applied = cmd[c].applied
          /\ q.listed = cmd[c].listed /\ q.attempt = cmd[c].attempt /\ q.exit = cmd[c].exit
          /\ cmd[c].pc = "start"
      BY <1>0, <1>1, <3>1 DEF CommandStates, LoadConfig
    <3>4. q.exit = NoExit
      BY <1>0, <3>3 DEF Faithful, Running
    <3>5. Faithful(c, q)
      BY <1>0, <2>4, <3>3, <3>4
      DEF Faithful, Running, Enforces, Posts, Bootstraps, Pushes, Ended, NoExit
    <3> QED
      BY <1>0, <3>2, <3>3, <3>5, ZoneQuiet
  <2> QED
    BY <2>1, <2>2, <2>3, <2>4
<1>2. ASSUME NEW loaded \in BOOLEAN, LoadSpec(c, loaded) PROVE ShieldInv'
  <2>0. args[c].command # "sync-sequences" /\ cmd[c].pc = "loading"
    BY <1>0, <1>2 DEF Faithful, Posts, LoadSpec
  <2>1. CASE Exit(c, 1) \/ Exit(c, 2)
    BY <1>0, <2>0, <2>1, Fails
  <2>2. ASSUME NEW pc \in {"uploading", "listing"}, Goto(c, pc),
               args[c].command = "push-schema" => pc = "uploading"
        PROVE  ShieldInv'
    <3>1. PICK q : q = [cmd[c] EXCEPT !.pc = pc]
      OBVIOUS
    <3>2. cmd' = [cmd EXCEPT ![c] = q]
      BY <2>2, <3>1 DEF Goto
    <3>3. /\ q \in CommandStates(args[c]) /\ q.pc = pc /\ q.applied = cmd[c].applied
          /\ q.listed = cmd[c].listed /\ q.attempt = cmd[c].attempt /\ q.exit = cmd[c].exit
      BY <1>0, <3>1 DEF CommandStates
    <3>4. q.exit = NoExit
      BY <1>0, <2>0, <3>3 DEF Faithful, Running
    <3>5. Faithful(c, q)
      <4>1. q.pc # "exited" /\ ~Ended(q)
        BY <3>3, Zenon DEF Ended
      <4> QED
        <5>1. Running(q) /\ Enforces(c, q)
          BY <1>0, <2>0, <3>3, <3>4, <4>1 DEF Faithful, Running, Enforces, NoExit
        <5>2. Posts(c, q)
          BY <1>0, <2>0 DEF Posts
        <5>3. Bootstraps(c, q)
          BY <1>0, <2>0, <3>3, <4>1 DEF Faithful, Bootstraps
        <5>4. Pushes(c, q)
          BY <1>0, <2>0, <2>2, <3>3, <4>1 DEF Faithful, Pushes
        <5> QED
          BY <5>1, <5>2, <5>3, <5>4 DEF Faithful
    <3> QED
      BY <1>0, <3>2, <3>3, <3>5, ZoneQuiet
  <2> QED
    BY <1>2, <2>1, <2>2 DEF LoadSpec
<1>3. CASE Report(c)
  <2>1. PICK code : /\ code = IF args[c].command = "bootstrap"
                              THEN Drift(args[c], cmd[c].listed) ELSE 0
                    /\ code \in {0, 3}
    BY DEF Drift
  <2>2. PICK q : q = [cmd[c] EXCEPT !.pc = "exited", !.exit = code]
    OBVIOUS
  <2>3. cmd' = [cmd EXCEPT ![c] = q]
    BY <1>3, <2>1, <2>2 DEF Report, Exit
  <2>4. /\ q \in CommandStates(args[c]) /\ q.pc = "exited" /\ q.applied = cmd[c].applied
        /\ q.listed = cmd[c].listed /\ q.attempt = cmd[c].attempt /\ q.exit = code
        /\ cmd[c].pc = "reporting"
    BY <1>0, <1>3, <2>1, <2>2 DEF CommandStates, Report
  <2>5. Posts(c, q) /\ Running(q)
    BY <1>0, <2>4 DEF Faithful, Posts, Running
  <2>6. Enforces(c, q)
    <3>1. Settles(c, <<>>)
      <4>1. DOMAIN <<>> = {}
        OBVIOUS
      <4> QED
        BY <4>1 DEF Settles
    <3> QED
      BY <1>0, <2>4, <3>1 DEF Faithful, Enforces
  <2>7. Bootstraps(c, q) /\ Pushes(c, q)
    BY <1>0, <2>1, <2>4 DEF Faithful, Bootstraps, Pushes, Ended
  <2> QED
    BY <1>0, <2>3, <2>4, <2>5, <2>6, <2>7, ZoneQuiet DEF Faithful
<1>4. CASE RunAgain(c)
  <2>1. PICK q : q = NewCommand(cmd[c].attempt + 1)
    OBVIOUS
  <2>2. cmd' = [cmd EXCEPT ![c] = q]
    BY <1>4, <2>1 DEF RunAgain
  <2>3. /\ q \in CommandStates(args[c]) /\ q.pc = "start" /\ q.applied = <<>> /\ q.failed = 0
        /\ q.exit = NoExit /\ q.attempt = cmd[c].attempt + 1 /\ q.attempt # 1
    BY <1>0, <2>1, EmptySeq DEF CommandStates, NewCommand, Items
  <2>4. Running(q) /\ Enforces(c, q) /\ Posts(c, q)
    BY <2>3 DEF Running, Enforces, Posts, Ran, NoExit
  <2>5. Bootstraps(c, q) /\ Pushes(c, q)
    <3>1. ASSUME NEW u \in Uploaded(c), u.attempt <= cmd[c].attempt
          PROVE  u.attempt <= q.attempt /\ u.attempt # q.attempt
      <4>1. u.attempt \in Nat /\ cmd[c].attempt \in Nat
        BY <1>0, UploadedTyped DEF Uploads, CommandStates, ShieldInv
      <4>2. \A m, n \in Nat : m <= n => m <= n + 1 /\ m # n + 1
        OBVIOUS
      <4> QED
        BY <2>3, <3>1, <4>1, <4>2
    <3> QED
      BY <1>0, <2>3, <3>1 DEF Faithful, Bootstraps, Pushes, Ended, NoExit
  <2> QED
    BY <1>0, <2>2, <2>3, <2>4, <2>5, ZoneQuiet DEF Faithful
<1> QED
  BY <1>1, <1>2, <1>3, <1>4

\* listDiscoveredOperations(): what each command makes of the answer, or of none.
LEMMA ListStep ==
  ASSUME ShieldInv, NEW c \in Commands, List(c) \/ ListFails(c)
  PROVE  ShieldInv'
<1>0. /\ cmd[c] \in CommandStates(args[c]) /\ Faithful(c, cmd[c]) /\ cmd[c].pc = "listing"
      /\ args' = args /\ ZoneUnchanged /\ args[c] \in Arguments
      /\ zone.discovered \in SUBSET (Keys \X Ids)
  BY DEF ShieldInv, ZoneTyped, List, ListFails
<1>1. args[c].command # "sync-sequences" /\ cmd[c].exit = NoExit
  BY <1>0 DEF Faithful, Posts, Running
<1>2. CASE Exit(c, 1)
  BY <1>0, <1>1, <1>2, Fails
<1>3. CASE args[c].command = "diff-discovered" /\ Exit(c, Drift(args[c], zone.discovered))
  <2>1. PICK code \in {0, 3} : code = Drift(args[c], zone.discovered)
    BY DEF Drift
  <2>2. PICK q : q = [cmd[c] EXCEPT !.pc = "exited", !.exit = code]
    OBVIOUS
  <2>3. cmd' = [cmd EXCEPT ![c] = q]
    BY <1>3, <2>1, <2>2 DEF Exit
  <2>4. q \in CommandStates(args[c]) /\ q.pc = "exited"
    BY <1>0, <2>1, <2>2 DEF CommandStates
  <2>5. Faithful(c, q)
    BY <1>3, <2>4 DEF Faithful, Running, Enforces, Posts, Bootstraps, Pushes, Ended
  <2> QED
    BY <1>0, <2>3, <2>4, <2>5, ZoneQuiet
<1>4. CASE args[c].command = "bootstrap" /\ Bootstrap(c, zone.discovered)
  <2>1. PICK pc \in {"uploading", "reporting"} :
          pc = IF args[c].mode = "apply" THEN "uploading" ELSE "reporting"
    OBVIOUS
  <2>2. PICK q : q = [cmd[c] EXCEPT !.listed = zone.discovered, !.pc = pc]
    OBVIOUS
  <2>3. cmd' = [cmd EXCEPT ![c] = q]
    <3>1. cmd' = [cmd EXCEPT ![c].listed = zone.discovered, ![c].pc = pc]
      BY <1>4, <2>1 DEF Bootstrap
    <3> QED
      BY <2>2, <3>1
  <2>4. /\ q \in CommandStates(args[c]) /\ q.pc = pc /\ q.exit = NoExit
        /\ q.attempt = cmd[c].attempt
    BY <1>0, <1>1, <2>1, <2>2 DEF CommandStates
  <2>5. Faithful(c, q)
    <3>1. q.pc # "exited" /\ ~Ended(q)
      BY <2>4, Zenon DEF Ended
    <3> QED
      BY <1>0, <1>4, <2>1, <2>4, <3>1
      DEF Faithful, Running, Enforces, Posts, Bootstraps, Pushes
  <2> QED
    BY <1>0, <2>3, <2>4, <2>5, ZoneQuiet
<1>5. CASE /\ args[c].command = "sync-schema-actions" /\ Resolvable(args[c], zone.discovered)
           /\ StartApplying(c, zone.discovered) /\ ~Exit(c, 1)
  <2> DEFINE rules == LoadActionRules(args[c])
  <2>1. PICK choice \in [Discovered(zone.discovered) -> Ids], pc \in {"applying", "reporting"} :
          /\ pc = IF args[c].mode = "apply" THEN "applying" ELSE "reporting"
          /\ cmd' = [cmd EXCEPT ![c].pc = pc, ![c].listed = zone.discovered,
                                ![c].todo = [i \in DOMAIN rules |->
                                               [id |-> choice[rules[i].target],
                                                action |-> rules[i].action]]]
    BY <1>5 DEF StartApplying
  <2>2. PICK todo : todo = [i \in DOMAIN rules |-> [id |-> choice[rules[i].target],
                                                   action |-> rules[i].action]]
    OBVIOUS
  <2>3. PICK q : q = [cmd[c] EXCEPT !.pc = pc, !.listed = zone.discovered, !.todo = todo]
    OBVIOUS
  <2>4. cmd' = [cmd EXCEPT ![c] = q]
    <3> HIDE DEF rules
    <3> QED
      BY <2>1, <2>2, <2>3
  <2>5. rules \in Seq(ToSet(rules)) /\ ToSet(rules) \subseteq ActionRules
    BY <1>0, <1>5, ArgumentsAssumption DEF ActionRules
  <2>6. \A rule \in ToSet(rules) : choice[rule.target] \in Ids /\ rule.action \in Actions
    <3> SUFFICES ASSUME NEW rule \in ToSet(rules)
                 PROVE  choice[rule.target] \in Ids /\ rule.action \in Actions
      OBVIOUS
    <3>1. rule.action \in Actions
      BY <2>5 DEF Actions
    <3>2. Resolutions(rule, zone.discovered) # {}
      BY <1>5 DEF Resolvable
    <3>3. rule.target \in Discovered(zone.discovered)
      BY <3>2 DEF Resolutions, Discovered
    <3> QED
      BY <3>1, <3>3
  <2>7. todo \in Seq([id : Ids, action : Actions]) /\ Len(todo) = Len(rules)
    <3>1. DOMAIN rules = 1..Len(rules) /\ Len(rules) \in Nat
      BY <2>5, LenProperties
    <3>2. \A i \in DOMAIN rules : rules[i] \in ToSet(rules)
      BY DEF ToSet
    <3> HIDE DEF rules
    <3>3. todo \in [1..Len(rules) -> [id : Ids, action : Actions]]
      BY <2>2, <2>6, <3>1, <3>2
    <3>4. todo \in Seq([id : Ids, action : Actions])
      <4> DEFINE steps == [id : Ids, action : Actions]
      <4> HIDE DEF steps
      <4> SUFFICES todo \in Seq(steps)
        BY DEF steps
      <4>1. todo \in [1..Len(rules) -> steps]
        BY <3>3 DEF steps
      <4> QED
        BY <3>1, <4>1
    <3>5. DOMAIN todo = 1..Len(todo) /\ Len(todo) \in Nat
      BY <3>4, LenProperties
    <3> QED
      BY <3>1, <3>3, <3>4, <3>5
  <2>8. /\ q \in CommandStates(args[c]) /\ q.pc = pc /\ q.exit = NoExit /\ q.todo = todo
        /\ q.applied = cmd[c].applied
    BY <1>0, <1>1, <1>5, <2>3, <2>7 DEF CommandStates, Items
  <2>9. q.applied = <<>> /\ Settles(c, <<>>)
    <3>1. DOMAIN <<>> = {}
      OBVIOUS
    <3> QED
      BY <1>0, <1>5, <2>8, <3>1 DEF Faithful, Enforces, Settles
  <2>10. Len(q.applied) + Len(q.todo) = Len(rules)
    <3>1. Len(rules) \in Nat
      BY <2>5, LenProperties
    <3> HIDE DEF rules
    <3> QED
      BY <2>7, <2>8, <2>9, <3>1
  <2>11. Enforces(c, q)
    BY <2>1, <2>8, <2>9, <2>10 DEF Enforces, NoExit
  <2>12. Faithful(c, q)
    BY <1>5, <2>8, <2>11 DEF Faithful, Running, Posts, Bootstraps, Pushes, Ended
  <2> QED
    BY <1>0, <2>4, <2>8, <2>12, ZoneQuiet
<1> QED
  BY <1>2, <1>3, <1>4, <1>5
  DEF List, ListFails, ListDiscoveredOperations, StartApplying

\* setOperationSchemaValidation() of the next rule: the zone then has the action
\* of the last rule that was sent, or the command ends in a failure.
LEMMA ApplyStep ==
  ASSUME ShieldInv, NEW c \in Commands, NEW effect \in BOOLEAN, NEW ok \in BOOLEAN,
         ApplyAction(c, effect, ok)
  PROVE  ShieldInv'
<1> DEFINE step == Head(cmd[c].todo)
<1>0. /\ cmd[c] \in CommandStates(args[c]) /\ Faithful(c, cmd[c]) /\ ZoneTyped
      /\ args' = args /\ cmd[c].pc = "applying" /\ cmd[c].todo # <<>>
      /\ args[c].command = "sync-schema-actions" /\ (ok => effect)
  BY DEF ShieldInv, ApplyAction, Request
<1>1. /\ cmd[c].todo \in Seq([id : Ids, action : Actions])
      /\ cmd[c].applied \in Seq([id : Ids, action : Actions])
  BY <1>0 DEF CommandStates, Items
<1>2. step \in [id : Ids, action : Actions]
  BY <1>0, <1>1, ToSetHeadTail
<1>3. IF effect THEN SetAction(c, step) ELSE ZoneUnchanged
  BY DEF ApplyAction
<1>4. /\ zone'.discovered = zone.discovered /\ zone'.schemas = zone.schemas
      /\ zone'.rules = zone.rules
  BY <1>0, <1>3 DEF SetAction, ZoneUnchanged, ZoneTyped
<1>5. ZoneTyped'
  <2>1. zone'.validation \in [Ids -> Actions \union {"none"}]
    BY <1>0, <1>2, <1>3 DEF SetAction, ZoneUnchanged, ZoneTyped
  <2>2. writer' \in [Ids -> Commands \union {"nobody"}]
    BY <1>0, <1>2, <1>3 DEF SetAction, ZoneUnchanged, ZoneTyped
  <2>3. zone' \in [discovered : SUBSET (Keys \X Ids), validation : [Ids -> Actions \union {"none"}],
                   schemas : Seq(Uploads), rules : Seq(SentRules)]
    <3>1. CASE effect
      BY <1>0, <1>3, <2>1, <3>1 DEF SetAction, ZoneTyped
    <3>2. CASE ~effect
      BY <1>0, <1>3, <3>2 DEF ZoneUnchanged, ZoneTyped
    <3> QED
      BY <3>1, <3>2
  <2> QED
    BY <1>0, <2>2, <2>3 DEF ZoneTyped
<1>6. \A r \in Commands \ {c} :
        /\ \A i \in Ids : writer'[i] = r =>
             writer[i] = r /\ zone'.validation[i] = zone.validation[i]
        /\ Uploaded(r)' = Uploaded(r)
  <2>1. ASSUME NEW r \in Commands \ {c}, NEW i \in Ids, writer'[i] = r
        PROVE  writer[i] = r /\ zone'.validation[i] = zone.validation[i]
    BY <1>0, <1>3, <2>1 DEF SetAction, ZoneUnchanged, ZoneTyped
  <2>2. \A r \in Commands : Uploaded(r)' = Uploaded(r)
    BY <1>4 DEF Uploaded
  <2> QED
    BY <2>1, <2>2
<1> HIDE DEF step
<1>7. CASE ok
  <2>1. PICK q : q = [cmd[c] EXCEPT !.todo = Tail(@), !.applied = Append(@, step)]
    OBVIOUS
  <2>2. cmd' = [cmd EXCEPT ![c] = q]
    <3>1. cmd' = [cmd EXCEPT ![c].todo = Tail(@), ![c].applied = Append(@, step)]
      BY <1>7 DEF ApplyAction, step
    <3> QED
      BY <2>1, <3>1
  <2>3. /\ q.pc = "applying" /\ q.exit = cmd[c].exit /\ q.todo = Tail(cmd[c].todo)
        /\ q.applied = Append(cmd[c].applied, step) /\ q \in CommandStates(args[c])
    <3>1. /\ Tail(cmd[c].todo) \in Seq([id : Ids, action : Actions])
          /\ Append(cmd[c].applied, step) \in Seq([id : Ids, action : Actions])
      BY <1>0, <1>1, <1>2, ToSetHeadTail, AppendProperties
    <3>2. Items(args[c]) = [id : Ids, action : Actions]
      BY <1>0 DEF Items
    <3> QED
      BY <1>0, <2>1, <3>1, <3>2 DEF CommandStates
  <2>4. Settles(c, q.applied)'
    BY <1>0, <1>1, <1>2, <1>3, <1>7, <2>3, SettlesStep DEF Faithful, Enforces
  <2>5. Len(q.applied) + Len(q.todo) = Len(LoadActionRules(args[c]))
    <3>1. Len(cmd[c].applied) + Len(cmd[c].todo) = Len(LoadActionRules(args[c]))
      BY <1>0 DEF Faithful, Enforces
    <3>2. /\ Len(q.applied) = Len(cmd[c].applied) + 1 /\ Len(cmd[c].applied) \in Nat
          /\ Len(q.todo) = Len(cmd[c].todo) - 1 /\ Len(cmd[c].todo) \in Nat
      BY <1>0, <1>1, <1>2, <2>3, AppendProperties, ToSetHeadTail
    <3>3. \A a, t \in Nat : (a + 1) + (t - 1) = a + t
      OBVIOUS
    <3> QED
      BY <3>1, <3>2, <3>3, Zenon
  <2>6. q.exit = NoExit
    BY <1>0, <2>3 DEF Faithful, Running
  <2>7. Enforces(c, q)'
    <3>1. q.exit # 0
      BY <2>6 DEF NoExit
    <3>2. q.pc \notin {"start", "loading", "listing", "reporting"} /\ q.pc # "reporting"
      BY <2>3
    <3> QED
      BY <1>0, <2>4, <2>5, <3>1, <3>2, Zenon DEF Enforces
  <2>8. Faithful(c, q)'
    BY <1>0, <2>6, <2>7 DEF Faithful, Running, Posts, Bootstraps, Pushes, Ended
  <2> QED
    BY <1>0, <1>4, <1>5, <1>6, <2>2, <2>3, <2>8, ShieldCommand
<1>8. CASE ~ok
  <2>1. PICK q : q = [cmd[c] EXCEPT !.pc = "exited", !.exit = 1]
    OBVIOUS
  <2>2. cmd' = [cmd EXCEPT ![c] = q]
    BY <1>8, <2>1 DEF ApplyAction, Exit
  <2>3. q.pc = "exited" /\ q.exit = 1 /\ q \in CommandStates(args[c])
    BY <1>0, <2>1 DEF CommandStates
  <2>4. Faithful(c, q)'
    BY <1>0, <2>3 DEF Faithful, Running, Enforces, Posts, Bootstraps, Pushes, Ended
  <2> QED
    BY <1>0, <1>4, <1>5, <1>6, <2>2, <2>3, <2>4, ShieldCommand
<1> QED
  BY <1>7, <1>8

\* putSequenceRule() of the next rule: it is in the zone, or counted as failed.
LEMMA PostStep ==
  ASSUME ShieldInv, NEW c \in Commands, NEW effect \in BOOLEAN, NEW ok \in BOOLEAN,
         PostRule(c, effect, ok)
  PROVE  ShieldInv'
<1> DEFINE rule == Head(cmd[c].todo)
<1>0. /\ cmd[c] \in CommandStates(args[c]) /\ Faithful(c, cmd[c]) /\ ZoneTyped
      /\ args' = args /\ writer' = writer /\ cmd[c].pc = "applying" /\ cmd[c].todo # <<>>
      /\ args[c].command = "sync-sequences" /\ (ok => effect)
      /\ IF effect THEN PutSequenceRule(rule) ELSE UNCHANGED zone
  BY DEF ShieldInv, PostRule, Request
<1>1. /\ cmd[c].todo \in Seq(PostedRules) /\ cmd[c].applied \in Seq(PostedRules)
      /\ cmd[c].failed \in Nat /\ zone.rules \in Seq(SentRules)
  BY <1>0 DEF CommandStates, Items, ZoneTyped
<1>2. /\ rule \in PostedRules /\ Tail(cmd[c].todo) \in Seq(PostedRules)
      /\ ToSet(cmd[c].todo) = {rule} \union ToSet(Tail(cmd[c].todo))
      /\ Len(Tail(cmd[c].todo)) = Len(cmd[c].todo) - 1 /\ Len(cmd[c].todo) \in Nat
  BY <1>0, <1>1, ToSetHeadTail
<1> HIDE DEF rule
<1>3. /\ zone'.discovered = zone.discovered /\ zone'.schemas = zone.schemas
      /\ zone'.validation = zone.validation
      /\ zone'.rules = IF effect THEN Append(zone.rules, Posted(rule)) ELSE zone.rules
      /\ DOMAIN zone' = DOMAIN zone
  BY <1>0 DEF PutSequenceRule, ZoneTyped
<1>4. ZoneTyped'
  <2>1. Append(zone.rules, Posted(rule)) \in Seq(SentRules)
    BY <1>1, <1>2, AppendProperties DEF SentRules
  <2> QED
    BY <1>0, <2>1 DEF ZoneTyped, PutSequenceRule
<1>5. ToSet(zone'.rules) = ToSet(zone.rules) \union (IF effect THEN {Posted(rule)} ELSE {})
  <2>1. Posted(rule) \in SentRules
    BY <1>2 DEF SentRules
  <2> QED
    BY <1>1, <1>3, <2>1, ToSetAppend
<1>6. \A r \in Commands : Uploaded(r)' = Uploaded(r)
  BY <1>3 DEF Uploaded
<1>7. PICK q : q = [cmd[c] EXCEPT !.todo = Tail(@),
                                  !.applied = IF ok THEN Append(@, rule) ELSE @,
                                  !.failed = IF ok THEN @ ELSE @ + 1]
  OBVIOUS
<1>8. cmd' = [cmd EXCEPT ![c] = q]
  <2>1. cmd' = [cmd EXCEPT ![c].todo = Tail(@),
                           ![c].applied = IF ok THEN Append(@, rule) ELSE @,
                           ![c].failed = IF ok THEN @ ELSE @ + 1]
    BY DEF PostRule, rule
  <2> QED
    BY <1>7, <2>1
<1>9. /\ q.pc = "applying" /\ q.exit = cmd[c].exit /\ q.todo = Tail(cmd[c].todo)
      /\ q.applied = IF ok THEN Append(cmd[c].applied, rule) ELSE cmd[c].applied
      /\ q.failed = IF ok THEN cmd[c].failed ELSE cmd[c].failed + 1
      /\ q \in CommandStates(args[c])
  <2>1. Append(cmd[c].applied, rule) \in Seq(PostedRules)
    BY <1>1, <1>2, AppendProperties
  <2>2. Items(args[c]) = PostedRules
    BY <1>0 DEF Items
  <2>3. CASE ok
    BY <1>0, <1>1, <1>2, <1>7, <2>1, <2>2, <2>3 DEF CommandStates
  <2>4. CASE ~ok
    <3>1. q = [cmd[c] EXCEPT !.todo = Tail(@), !.failed = cmd[c].failed + 1]
      BY <1>0, <1>7, <2>4 DEF CommandStates
    <3>2. cmd[c].failed + 1 \in Nat
      BY <1>1
    <3> QED
      BY <1>0, <1>1, <1>2, <2>2, <2>4, <3>1, <3>2 DEF CommandStates
  <2> QED
    BY <2>3, <2>4
<1>10. /\ Len(cmd[c].applied) + cmd[c].failed + Len(cmd[c].todo) = Len(args[c].file)
       /\ Sent(cmd[c].applied) \subseteq ToSet(zone.rules)
       /\ cmd[c].failed = 0 =>
            ToSet(args[c].file) = ToSet(cmd[c].applied) \union ToSet(cmd[c].todo)
  BY <1>0 DEF Faithful, Posts
<1>11. Len(q.applied) + q.failed + Len(q.todo) = Len(args[c].file)
  <2>1. /\ Len(cmd[c].applied) \in Nat
        /\ Len(q.applied) = IF ok THEN Len(cmd[c].applied) + 1 ELSE Len(cmd[c].applied)
        /\ Len(q.todo) = Len(cmd[c].todo) - 1
    BY <1>1, <1>2, <1>9, AppendProperties, LenProperties
  <2>2. \A a, f, t \in Nat : /\ (a + 1) + f + (t - 1) = a + f + t
                             /\ a + (f + 1) + (t - 1) = a + f + t
    OBVIOUS
  <2>3. CASE ok
    <3>1. /\ Len(q.applied) = Len(cmd[c].applied) + 1 /\ q.failed = cmd[c].failed
          /\ Len(q.todo) = Len(cmd[c].todo) - 1
      BY <1>9, <2>1, <2>3
    <3>2. (Len(cmd[c].applied) + 1) + cmd[c].failed + (Len(cmd[c].todo) - 1)
            = Len(cmd[c].applied) + cmd[c].failed + Len(cmd[c].todo)
      BY <1>1, <1>2, <2>1, <2>2, Zenon
    <3> QED
      BY <1>10, <3>1, <3>2
  <2>4. CASE ~ok
    <3>1. /\ Len(q.applied) = Len(cmd[c].applied) /\ q.failed = cmd[c].failed + 1
          /\ Len(q.todo) = Len(cmd[c].todo) - 1
      BY <1>9, <2>1, <2>4
    <3>2. Len(cmd[c].applied) + (cmd[c].failed + 1) + (Len(cmd[c].todo) - 1)
            = Len(cmd[c].applied) + cmd[c].failed + Len(cmd[c].todo)
      BY <1>1, <1>2, <2>1, <2>2, Zenon
    <3> QED
      BY <1>10, <3>1, <3>2
  <2> QED
    BY <2>3, <2>4
<1>12. ToSet(q.applied) = ToSet(cmd[c].applied) \union (IF ok THEN {rule} ELSE {})
  BY <1>1, <1>2, <1>9, ToSetAppend
<1>13. q.failed = 0 => ToSet(args[c].file) = ToSet(q.applied) \union ToSet(q.todo)
  BY <1>1, <1>2, <1>9, <1>10, <1>12
<1>14. Sent(q.applied) \subseteq ToSet(zone'.rules)
  BY <1>0, <1>5, <1>10, <1>12 DEF Sent
<1>15. Posts(c, q)'
  BY <1>0, <1>9, <1>11, <1>13, <1>14 DEF Posts, Ran
<1>16. Faithful(c, q)'
  BY <1>0, <1>9, <1>15 DEF Faithful, Running, Enforces, Bootstraps, Pushes, Ended
<1> QED
  BY <1>0, <1>3, <1>4, <1>5, <1>6, <1>8, <1>9, <1>16, ShieldCommand

\* The end of the rules: 1 if one of the sequences failed, else 0.
LEMMA AppliedStep ==
  ASSUME ShieldInv, NEW c \in Commands, AllApplied(c)
  PROVE  ShieldInv'
<1>0. /\ cmd[c] \in CommandStates(args[c]) /\ Faithful(c, cmd[c])
      /\ args' = args /\ ZoneUnchanged /\ cmd[c].pc = "applying" /\ cmd[c].todo = <<>>
  BY DEF ShieldInv, AllApplied
<1>1. PICK code \in {0, 1} : code = IF cmd[c].failed > 0 THEN 1 ELSE 0
  OBVIOUS
<1>2. PICK q : q = [cmd[c] EXCEPT !.pc = "exited", !.exit = code]
  OBVIOUS
<1>3. cmd' = [cmd EXCEPT ![c] = q]
  BY <1>1, <1>2 DEF AllApplied, Exit
<1>4. /\ q \in CommandStates(args[c]) /\ q.pc = "exited" /\ q.exit = code
      /\ q.applied = cmd[c].applied /\ q.todo = <<>> /\ q.failed = cmd[c].failed
      /\ cmd[c].failed \in Nat
  BY <1>0, <1>1, <1>2 DEF CommandStates
<1>5. Len(<<>>) = 0
  OBVIOUS
<1>6. Enforces(c, q)
  <2> SUFFICES ASSUME args[c].command = "sync-schema-actions" PROVE Enforces(c, q)
    BY DEF Enforces
  <2>1. cmd[c].applied \in Seq([id : Ids, action : Actions])
    BY <1>0 DEF CommandStates, Items
  <2>2. Len(cmd[c].applied) = Len(LoadActionRules(args[c]))
    <3>1. Len(cmd[c].applied) + 0 = Len(LoadActionRules(args[c]))
      BY <1>0, <1>5 DEF Faithful, Enforces
    <3> QED
      BY <2>1, <3>1, LenProperties
  <2> QED
    BY <1>0, <1>4, <2>2 DEF Faithful, Enforces
<1>7. Posts(c, q)
  <2>1. q.exit = 0 => q.failed = 0
    BY <1>1, <1>4
  <2> QED
    BY <1>0, <1>4, <2>1 DEF Faithful, Posts, Ran
<1>8. Bootstraps(c, q) /\ Pushes(c, q) /\ Running(q)
  BY <1>0, <1>4 DEF Faithful, Bootstraps, Pushes, Ended, Running
<1> QED
  BY <1>0, <1>3, <1>4, <1>6, <1>7, <1>8, ZoneQuiet DEF Faithful

\* uploadUserSchema() by push-schema or bootstrap: bootstrap's run is over with it.
LEMMA UploadStep ==
  ASSUME ShieldInv, NEW c \in Commands, NEW effect \in BOOLEAN, NEW ok \in BOOLEAN,
         PushSchema(c, effect, ok) \/ UploadPruned(c, effect, ok)
  PROVE  ShieldInv'
<1> DEFINE upload == Upload(c)
<1>0. /\ cmd[c] \in CommandStates(args[c]) /\ Faithful(c, cmd[c]) /\ ZoneTyped
      /\ args' = args /\ writer' = writer /\ cmd[c].pc = "uploading"
      /\ zone' = (IF effect THEN [zone EXCEPT !.schemas = Append(@, upload)] ELSE zone)
      /\ args[c] \in Arguments
  BY DEF ShieldInv, ZoneTyped, PushSchema, UploadPruned, UploadUserSchema
<1>1. zone.schemas \in Seq(Uploads) /\ upload \in Uploads
  <2>1. UploadedKeys(c) \in SUBSET UNION {a.spec : a \in Arguments}
    BY <1>0 DEF UploadedKeys
  <2>2. Enabled(args[c]) \in BOOLEAN
    BY DEF Enabled
  <2> HIDE DEF Enabled
  <2>3. upload \in Uploads
    BY <1>0, <2>1, <2>2 DEF Upload, Uploads, CommandStates
  <2> QED
    BY <1>0, <2>3 DEF ZoneTyped
<1>2. Append(zone.schemas, upload) \in Seq(Uploads)
  BY <1>1, AppendProperties
<1> HIDE DEF upload
<1>3. /\ zone'.discovered = zone.discovered /\ zone'.validation = zone.validation
      /\ zone'.rules = zone.rules
      /\ zone'.schemas = IF effect THEN Append(zone.schemas, upload) ELSE zone.schemas
      /\ ZoneTyped'
  BY <1>0, <1>2 DEF ZoneTyped
<1>4. ASSUME NEW i \in DOMAIN zone'.schemas, i \notin DOMAIN zone.schemas
      PROVE  effect /\ zone'.schemas[i] = upload
  <2>1. CASE effect
    BY <1>1, <1>3, <1>4, <2>1, AppendProperties, LenProperties
  <2> QED
    BY <1>3, <1>4, <2>1
<1>5. \A i \in DOMAIN zone.schemas :
        i \in DOMAIN zone'.schemas /\ zone'.schemas[i] = zone.schemas[i]
  <2>1. CASE effect
    BY <1>1, <1>3, <2>1, AppendProperties, LenProperties
  <2> QED
    BY <1>3, <2>1
<1>6. /\ upload.by = c /\ upload.keys = UploadedKeys(c) /\ upload.attempt = cmd[c].attempt
      /\ upload.enabled <=> Enabled(args[c])
  BY DEF upload, Upload
<1>7. \A r \in Commands \ {c} : Uploaded(r)' = Uploaded(r)
  <2> SUFFICES ASSUME NEW r \in Commands \ {c} PROVE Uploaded(r)' = Uploaded(r)
    OBVIOUS
  <2>1. {j \in DOMAIN zone'.schemas : zone'.schemas[j].by = r}
          = {j \in DOMAIN zone.schemas : zone.schemas[j].by = r}
    BY <1>4, <1>5, <1>6
  <2> QED
    BY <1>5, <2>1 DEF Uploaded
<1>8. /\ Uploaded(c)' \subseteq Uploaded(c) \union {upload}
      /\ effect => upload \in Uploaded(c)'
  <2>1. Uploaded(c)' \subseteq Uploaded(c) \union {upload}
    BY <1>4, <1>5, <1>6 DEF Uploaded
  <2>2. CASE effect
    <3>1. Len(zone.schemas) + 1 \in DOMAIN zone'.schemas /\ zone'.schemas[Len(zone.schemas) + 1] = upload
      BY <1>1, <1>3, <2>2, AppendProperties, LenProperties
    <3> QED
      BY <2>1, <3>1, <1>6 DEF Uploaded
  <2> QED
    BY <2>1, <2>2
<1>9. PICK code \in {0, 1, 3} :
        /\ Exit(c, code)
        /\ args[c].command \in {"push-schema", "bootstrap"}
        /\ args[c].command = "bootstrap" /\ code # 1 => code = Drift(args[c], cmd[c].listed)
        /\ code # 1 => effect
  BY DEF PushSchema, UploadPruned, UploadUserSchema, Request, Drift
<1>10. PICK q : q = [cmd[c] EXCEPT !.pc = "exited", !.exit = code]
  OBVIOUS
<1>11. cmd' = [cmd EXCEPT ![c] = q]
  BY <1>9, <1>10 DEF Exit
<1>12. /\ q \in CommandStates(args[c]) /\ q.pc = "exited" /\ q.exit = code
       /\ q.listed = cmd[c].listed /\ q.attempt = cmd[c].attempt
  BY <1>0, <1>10 DEF CommandStates
<1>13. Ended(q) => code # 1 /\ effect
  BY <1>9, <1>12 DEF Ended
<1>14. ASSUME args[c].command = "bootstrap" PROVE Bootstraps(c, q)'
  <2>1. UploadedKeys(c) = args[c].spec \intersect Discovered(q.listed) /\ Enabled(args[c])
    BY <1>12, <1>14 DEF UploadedKeys, Enabled
  <2>2. cmd[c].attempt \in Nat
    BY <1>0 DEF CommandStates
  <2>3. \A u \in Uploaded(c)' :
          /\ u.keys \subseteq args[c].spec /\ u.attempt <= q.attempt
          /\ u.attempt = q.attempt =>
               u.enabled /\ u.keys = args[c].spec \intersect Discovered(q.listed)
    <3>1. \A u \in Uploaded(c) : u.keys \subseteq args[c].spec /\ u.attempt <= q.attempt /\ u.attempt # q.attempt
      BY <1>0, <1>12, <1>14 DEF Faithful, Bootstraps
    <3>2. upload.keys \subseteq args[c].spec /\ upload.attempt <= q.attempt
      BY <1>6, <1>12, <2>1, <2>2
    <3>3. upload.enabled /\ upload.keys = args[c].spec \intersect Discovered(q.listed)
      BY <1>6, <2>1
    <3> QED
      BY <1>8, <3>1, <3>2, <3>3
  <2>4. Ended(q) => q.exit = Drift(args[c], q.listed) /\ \E u \in Uploaded(c)' : u.attempt = q.attempt
    BY <1>6, <1>8, <1>9, <1>12, <1>13, <1>14
  <2> QED
    BY <1>0, <1>12, <2>3, <2>4 DEF Bootstraps
<1>15. ASSUME args[c].command = "push-schema" PROVE Pushes(c, q)'
  <2>1. upload.keys = args[c].spec /\ (upload.enabled <=> ~args[c].disable)
    BY <1>6, <1>15 DEF UploadedKeys, Enabled
  <2>2. \A u \in Uploaded(c)' : u.keys = args[c].spec /\ (u.enabled <=> ~args[c].disable)
    BY <1>0, <1>8, <1>15, <2>1 DEF Faithful, Pushes
  <2>3. Ended(q) => \E u \in Uploaded(c)' : u.attempt = q.attempt
    BY <1>6, <1>8, <1>12, <1>13
  <2> QED
    BY <1>0, <1>12, <2>2, <2>3 DEF Pushes
<1>16. Faithful(c, q)'
  <2>1. Bootstraps(c, q)' /\ Pushes(c, q)'
    BY <1>0, <1>14, <1>15 DEF Bootstraps, Pushes
  <2> QED
    BY <1>0, <1>9, <1>12, <2>1 DEF Faithful, Running, Enforces, Posts
<1> QED
  BY <1>0, <1>3, <1>7, <1>11, <1>12, <1>16, ShieldCommand

\* Shield discovers and forgets operations: no command has promised anything of that.
LEMMA DiscoveryStep ==
  ASSUME ShieldInv, NEW discovered \in SUBSET (Keys \X Ids), ShieldChanges(discovered)
  PROVE  ShieldInv'
<1>0. ZoneTyped /\ UNCHANGED <<args, cmd, writer>>
      /\ zone' = [zone EXCEPT !.discovered = discovered]
  BY DEF ShieldInv, ShieldChanges
<1>1. /\ zone'.validation = zone.validation /\ zone'.schemas = zone.schemas
      /\ zone'.rules = zone.rules /\ ZoneTyped'
  BY <1>0 DEF ZoneTyped
<1>2. ASSUME NEW c \in Commands PROVE Faithful(c, cmd[c])'
  <2>1. Faithful(c, cmd[c])
    BY DEF ShieldInv
  <2>2. Settles(c, cmd[c].applied)' <=> Settles(c, cmd[c].applied)
    BY <1>0, <1>1 DEF Settles, LastFor
  <2>3. Enforces(c, cmd[c])'
    BY <1>0, <2>1, <2>2 DEF Faithful, Enforces
  <2>4. Uploaded(c)' = Uploaded(c)
    BY <1>1 DEF Uploaded
  <2>5. Bootstraps(c, cmd[c])' /\ Pushes(c, cmd[c])' /\ Running(cmd[c])'
    BY <1>0, <2>1, <2>4 DEF Faithful, Running, Bootstraps, Pushes, Ended
  <2>6. Posts(c, cmd[c])'
    BY <1>0, <1>1, <2>1 DEF Faithful, Posts, Ran
  <2> QED
    BY <2>3, <2>5, <2>6 DEF Faithful
<1>3. cmd' \in [Commands -> {cmd'[c] : c \in Commands}]
  BY <1>0 DEF ShieldInv
<1> QED
  BY <1>0, <1>1, <1>2, <1>3 DEF ShieldInv

\* What is posted has the name of the rule, and its action if it has one.
LEMMA PostedAsAsked ==
  ASSUME NEW rule
  PROVE  /\ Posted(rule).name = rule.name
         /\ "action" \in DOMAIN rule => Posted(rule).action = rule.action
<1>1. PICK action : action = IF "action" \in DOMAIN rule THEN rule.action ELSE "log"
  OBVIOUS
<1>2. Posted(rule) = [name |-> rule.name, action |-> action]
  BY <1>1, Zenon DEF Posted
<1>3. Posted(rule).name = rule.name /\ Posted(rule).action = action
  BY <1>2
<1> QED
  BY <1>1, <1>3, Zenon

-----------------------------------------------------------------------------
(* Theorems about a zone. *)

LEMMA ShieldStart == Init => ShieldInv
<1> SUFFICES ASSUME Init PROVE ShieldInv
  OBVIOUS
<1>1. ZoneTyped
  <2>1. zone.schemas = <<>> /\ zone.rules = <<>>
    BY DEF Init
  <2>2. <<>> \in Seq(Uploads) /\ <<>> \in Seq(SentRules)
    BY EmptySeq
  <2>3. zone.discovered \in SUBSET (Keys \X Ids) /\ zone.validation = [i \in Ids |-> "none"]
    BY DEF Init
  <2>4. zone \in [discovered : SUBSET (Keys \X Ids), validation : [Ids -> Actions \union {"none"}],
                  schemas : Seq(Uploads), rules : Seq(SentRules)]
    BY <2>1, <2>2, <2>3 DEF Init
  <2> QED
    BY <2>4 DEF Init, ZoneTyped
<1>2. \A c \in Commands : Uploaded(c) = {}
  <2>1. zone.schemas = <<>>
    BY DEF Init
  <2>2. DOMAIN <<>> = {}
    OBVIOUS
  <2> QED
    BY <2>1, <2>2 DEF Uploaded
<1>3. ASSUME NEW c \in Commands
      PROVE  cmd[c] \in CommandStates(args[c]) /\ Faithful(c, cmd[c])
  <2>1. PICK q : q = NewCommand(1)
    OBVIOUS
  <2>2. cmd[c] = q
    BY <2>1 DEF Init
  <2>3. /\ q \in CommandStates(args[c]) /\ q.pc = "start" /\ q.applied = <<>> /\ q.failed = 0
        /\ q.exit = NoExit
    BY <2>1, EmptySeq DEF CommandStates, NewCommand, Items
  <2>4. Running(q) /\ Enforces(c, q) /\ Posts(c, q)
    BY <2>3 DEF Running, Enforces, Posts, Ran, NoExit
  <2>5. Bootstraps(c, q) /\ Pushes(c, q)
    BY <1>2, <2>3 DEF Bootstraps, Pushes, Ended, NoExit
  <2> QED
    BY <2>2, <2>3, <2>4, <2>5 DEF Faithful
<1>4. cmd \in [Commands -> {cmd[c] : c \in Commands}]
  BY DEF Init
<1> QED
  BY <1>1, <1>3, <1>4 DEF ShieldInv

LEMMA ShieldStep == ShieldInv /\ [Next]_vars => ShieldInv'
<1> SUFFICES ASSUME ShieldInv, [Next]_vars PROVE ShieldInv'
  OBVIOUS
<1>1. CASE UNCHANGED vars
  <2>1. \A c \in Commands : Settles(c, cmd[c].applied)' <=> Settles(c, cmd[c].applied)
    BY <1>1 DEF vars, Settles, LastFor
  <2>2. \A c \in Commands : Enforces(c, cmd[c])' <=> Enforces(c, cmd[c])
    BY <1>1, <2>1 DEF vars, Enforces
  <2>3. \A c \in Commands : /\ Posts(c, cmd[c])' <=> Posts(c, cmd[c])
                            /\ Bootstraps(c, cmd[c])' <=> Bootstraps(c, cmd[c])
                            /\ Pushes(c, cmd[c])' <=> Pushes(c, cmd[c])
                            /\ Running(cmd[c])' <=> Running(cmd[c])
    BY <1>1 DEF vars, Posts, Ran, Bootstraps, Pushes, Ended, Uploaded, Running
  <2> QED
    BY <1>1, <2>2, <2>3 DEF vars, ShieldInv, Faithful, ZoneTyped
<1>2. ASSUME NEW p \in Keys \X Ids,
             \/ ShieldChanges(zone.discovered \union {p})
             \/ ShieldChanges(zone.discovered \ {p})
      PROVE  ShieldInv'
  <2>1. zone.discovered \in SUBSET (Keys \X Ids)
    BY DEF ShieldInv, ZoneTyped
  <2> QED
    BY <1>2, <2>1, DiscoveryStep
<1> QED
  BY <1>1, <1>2, PrepareStep, ListStep, ApplyStep, PostStep, AppliedStep, UploadStep DEF Next

\* The inductive invariant of the shield:* commands against a zone that other
\* commands write and Shield changes: what each stage has sent and not sent adds
\* up to what the command was given.
THEOREM ShieldInvariant == Spec => []ShieldInv
<1> QED
  BY ShieldStart, ShieldStep, PTL DEF Spec

\* Exit code 0 holds what it says: every action that the rules decide is set unless
\* another command changed it, every sequence is in the zone, without its window,
\* push-schema has uploaded its document, and bootstrap, with 3 as well, what is in
\* its document of the operations that Shield listed.
THEOREM ExitCodeZeroHolds == Spec => []ExitZeroHolds
<1>1. ShieldInv => ExitZeroHolds
  <2> SUFFICES ASSUME ShieldInv PROVE ExitZeroHolds
    OBVIOUS
  <2>1. ExitZeroMeansEnforced
    <3> SUFFICES ASSUME NEW c \in Commands, cmd[c].exit = 0, args[c].mode = "apply",
                        args[c].command = "sync-schema-actions"
                 PROVE  /\ Len(cmd[c].applied) = Len(LoadActionRules(args[c]))
                        /\ \A k \in DOMAIN cmd[c].applied :
                             writer[cmd[c].applied[k].id] = c =>
                               zone.validation[cmd[c].applied[k].id]
                                 = Decided(c, cmd[c].applied[k].id)
      BY DEF ExitZeroMeansEnforced
    <3>1. cmd[c] \in CommandStates(args[c]) /\ Faithful(c, cmd[c])
      BY DEF ShieldInv
    <3>2. Settles(c, cmd[c].applied) /\ Len(cmd[c].applied) = Len(LoadActionRules(args[c]))
      BY <3>1 DEF Faithful, Enforces
    <3>3. ASSUME NEW k \in DOMAIN cmd[c].applied, writer[cmd[c].applied[k].id] = c
          PROVE  zone.validation[cmd[c].applied[k].id] = Decided(c, cmd[c].applied[k].id)
      <4>1. PICK j \in DOMAIN cmd[c].applied :
              /\ LastFor(cmd[c].applied, j, cmd[c].applied[k].id)
              /\ zone.validation[cmd[c].applied[k].id] = cmd[c].applied[j].action
        BY <3>2, <3>3 DEF Settles
      <4>2. cmd[c].applied \in Seq(Items(args[c]))
        BY <3>1 DEF CommandStates
      <4>3. Decided(c, cmd[c].applied[k].id) = cmd[c].applied[j].action
        BY <4>1, <4>2, DecidedIsLast DEF Decided
      <4> QED
        BY <4>1, <4>3
    <3> QED
      BY <3>2, <3>3
  <2>2. ExitZeroMeansSynced
    <3> SUFFICES ASSUME NEW c \in Commands, cmd[c].pc = "exited", args[c].mode = "apply",
                        Token(args[c]) # "", args[c].command = "sync-sequences"
                 PROVE  /\ Len(cmd[c].applied) + cmd[c].failed = Len(args[c].file)
                        /\ cmd[c].exit = 0 => \A rule \in ToSet(args[c].file) : IsThere(rule)
      BY DEF ExitZeroMeansSynced
    <3>1. Ran(c, cmd[c]) /\ Posts(c, cmd[c]) /\ cmd[c] \in CommandStates(args[c])
      BY DEF ShieldInv, Faithful, Ran
    <3>2. cmd[c].todo = <<>> /\ (cmd[c].exit = 0 => cmd[c].failed = 0)
      BY <3>1 DEF Posts
    <3>3. /\ Len(cmd[c].applied) + cmd[c].failed + Len(cmd[c].todo) = Len(args[c].file)
          /\ Sent(cmd[c].applied) \subseteq ToSet(zone.rules)
          /\ cmd[c].failed = 0 =>
               ToSet(args[c].file) = ToSet(cmd[c].applied) \union ToSet(cmd[c].todo)
      BY <3>1 DEF Posts
    <3>4. Len(cmd[c].todo) = 0 /\ ToSet(cmd[c].todo) = {}
      BY <3>2, ToSetEmpty
    <3>5. Len(cmd[c].applied) \in Nat /\ cmd[c].failed \in Nat
      BY <3>1, LenProperties DEF CommandStates
    <3>6. Len(cmd[c].applied) + cmd[c].failed + 0 = Len(cmd[c].applied) + cmd[c].failed
      BY <3>5, NothingLeft, Zenon
    <3>7. ASSUME cmd[c].exit = 0, NEW rule \in ToSet(args[c].file) PROVE IsThere(rule)
      <4>1. Posted(rule) \in ToSet(zone.rules)
        BY <3>2, <3>3, <3>4, <3>7 DEF Sent
      <4>2. PICK i \in DOMAIN zone.rules : zone.rules[i] = Posted(rule)
        BY <4>1 DEF ToSet
      <4> QED
        BY <4>2, PostedAsAsked, Zenon DEF IsThere
    <3> QED
      BY <3>3, <3>4, <3>6, <3>7
  <2>3. ASSUME NEW c \in Commands
        PROVE  UploadsOf(c) = {u \in Uploaded(c) : u.attempt = cmd[c].attempt}
    BY DEF UploadsOf, Uploaded
  <2>4. BootstrapCoversTraffic
    <3> SUFFICES ASSUME NEW c \in Commands, args[c].command = "bootstrap", args[c].mode = "apply"
                 PROVE  /\ cmd[c].exit \in {0, 3} =>
                             /\ UploadsOf(c) # {}
                             /\ \A u \in UploadsOf(c) :
                                  /\ u.enabled
                                  /\ u.keys = args[c].spec \intersect Discovered(cmd[c].listed)
                             /\ cmd[c].exit = 0 <=> Discovered(cmd[c].listed) \subseteq args[c].spec
                        /\ \A i \in DOMAIN zone.schemas :
                             zone.schemas[i].by = c => zone.schemas[i].keys \subseteq args[c].spec
      BY DEF BootstrapCoversTraffic
    <3>1. Bootstraps(c, cmd[c]) /\ Running(cmd[c])
      BY DEF ShieldInv, Faithful
    <3>2. \A i \in DOMAIN zone.schemas : zone.schemas[i].by = c => zone.schemas[i] \in Uploaded(c)
      BY DEF Uploaded
    <3>3. cmd[c].exit \in {0, 3} => Ended(cmd[c])
      BY <3>1 DEF Running, Ended, NoExit
    <3>4. Ended(cmd[c]) => (cmd[c].exit = 0 <=> Discovered(cmd[c].listed) \subseteq args[c].spec)
      BY <3>1 DEF Bootstraps, Drift
    <3>5. Ended(cmd[c]) => UploadsOf(c) # {}
      BY <2>3, <3>1 DEF Bootstraps
    <3>6. \A u \in UploadsOf(c) :
            u.enabled /\ u.keys = args[c].spec \intersect Discovered(cmd[c].listed)
      BY <2>3, <3>1 DEF Bootstraps
    <3>7. \A u \in Uploaded(c) : u.keys \subseteq args[c].spec
      BY <3>1 DEF Bootstraps
    <3> QED
      BY <3>2, <3>3, <3>4, <3>5, <3>6, <3>7
  <2>5. ExitZeroMeansPushed
    <3> SUFFICES ASSUME NEW c \in Commands, args[c].command = "push-schema"
                 PROVE  /\ cmd[c].exit = 0 => UploadsOf(c) # {}
                        /\ \A i \in DOMAIN zone.schemas : zone.schemas[i].by = c =>
                             /\ zone.schemas[i].keys = args[c].spec
                             /\ zone.schemas[i].enabled <=> ~args[c].disable
      BY DEF ExitZeroMeansPushed
    <3>1. Pushes(c, cmd[c]) /\ Running(cmd[c])
      BY DEF ShieldInv, Faithful
    <3>2. \A i \in DOMAIN zone.schemas : zone.schemas[i].by = c => zone.schemas[i] \in Uploaded(c)
      BY DEF Uploaded
    <3>3. cmd[c].exit = 0 => Ended(cmd[c])
      BY <3>1 DEF Running, Ended, NoExit
    <3>4. Ended(cmd[c]) => UploadsOf(c) # {}
      BY <2>3, <3>1 DEF Pushes
    <3>5. \A u \in Uploaded(c) : u.keys = args[c].spec /\ (u.enabled <=> ~args[c].disable)
      BY <3>1 DEF Pushes
    <3> QED
      BY <3>2, <3>3, <3>4, <3>5
  <2> QED
    BY <2>1, <2>2, <2>4, <2>5 DEF ExitZeroHolds
<1> QED
  BY <1>1, ShieldInvariant, PTL

=============================================================================
