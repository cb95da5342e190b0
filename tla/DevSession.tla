----------------------------- MODULE DevSession -----------------------------
(***************************************************************************)
(* gmode dev (packages/cli/src/commands/dev.ts): it syncs the manifest,    *)
(* keeps one wrangler session for the gateway and every service, restarts  *)
(* the session when a save of gmode.jsonc changes the bindings, and ends   *)
(* with the session or at an interrupt.                                    *)
(*                                                                         *)
(* The restart is a flag, a SIGINT and a timer of one second.  A session   *)
(* that finds the gateway's port taken exits.  Exits, saves and timers     *)
(* reach the command as events, in any order.                              *)
(***************************************************************************)
EXTENDS Naturals, Sequences

CONSTANTS
  Manifests,  \* contents of gmode.jsonc that load, with distinct bindings
  MaxEdits    \* bound on the saves of gmode.jsonc

VARIABLES
  manifest,   \* gmode.jsonc: in Manifests, or "broken"
  saved,      \* the watcher has an event to deliver
  wrangler,   \* the manifest that wrangler.jsonc was synced from
  resolved,   \* the manifest of the command's last sync
  sessions,   \* the wrangler children, in the order they were spawned
  restarting, \* restartingWrangler
  timers,     \* the number of pending setTimeout(startWrangler, 1000)
  pc,         \* "polling" (steps 1 to 4), "running" (step 5) or "exited"
  edits,      \* the number of saves so far
  calm        \* the conditions the session was written for (below)

devVars == <<manifest, saved, wrangler, resolved, sessions, restarting, timers, pc, edits, calm>>

\* Calm: the developer waits for one restart to end before the next save,
\* wrangler stops within the second, and no session fails before the command
\* is ready.  In a session that is not calm none of this holds.
Quiet == ~saved /\ timers = 0 /\ ~restarting
           /\ \A s \in DOMAIN sessions : sessions[s].state \in {"serving", "reaped"}

PortTaken == \E s \in DOMAIN sessions : sessions[s].state \in {"serving", "stopping"}
Serving   == {s \in DOMAIN sessions : sessions[s].state = "serving"}

\* startWrangler(): the child of the last call is wranglerChild.
StartWrangler(list, config) == Append(list, [state |-> "starting", config |-> config])
Become(s, state) == sessions' = [sessions EXCEPT ![s].state = state]

DevInit ==
  /\ manifest \in Manifests
  /\ wrangler = manifest /\ resolved = manifest
  /\ sessions = StartWrangler(<<>>, manifest)
  /\ saved = FALSE /\ restarting = FALSE /\ timers = 0
  /\ pc = "polling" /\ edits = 0
  /\ calm \in BOOLEAN

-----------------------------------------------------------------------------
(* The command. *)

\* SIGINT of a child that runs; one that is gone is not reached.
Interrupt(list, s) ==
  IF list[s].state = "serving" THEN [list EXCEPT ![s].state = "stopping"]
  ELSE IF list[s].state = "starting" THEN [list EXCEPT ![s].state = "dead"]
  ELSE list

\* The callback of watch(): sync, and restart when wrangler.jsonc was written.
ManifestChanged ==
  /\ pc # "exited" /\ saved
  /\ saved' = FALSE
  /\ IF manifest = "broken"
     THEN UNCHANGED <<wrangler, resolved, sessions, restarting, timers>>
     ELSE /\ resolved' = manifest /\ wrangler' = manifest
          /\ IF wrangler # manifest
             THEN /\ restarting' = TRUE
                  /\ sessions' = Interrupt(sessions, Len(sessions))
                  /\ timers' = timers + 1
             ELSE UNCHANGED <<restarting, sessions, timers>>
  /\ UNCHANGED <<manifest, pc, edits, calm>>

RestartAsFirstSynced ==
  /\ pc # "exited" /\ timers > 0
  /\ calm => \A s \in DOMAIN sessions : sessions[s].state # "stopping"
  /\ timers' = timers - 1
  /\ sessions' = StartWrangler(sessions, sessions[1].config)
  /\ UNCHANGED <<manifest, saved, wrangler, resolved, restarting, pc, edits, calm>>

TimerFires ==
  /\ pc # "exited" /\ timers > 0
  /\ calm => \A s \in DOMAIN sessions : sessions[s].state # "stopping"
  /\ timers' = timers - 1
  /\ sessions' = StartWrangler(sessions, resolved)
  /\ UNCHANGED <<manifest, saved, wrangler, resolved, restarting, pc, edits, calm>>

ShutdownOfLast(list) ==
  /\ sessions' = Interrupt(list, Len(list))
  /\ pc' = "exited" /\ timers' = 0

\* shutdown(): every child that was ever spawned is interrupted, and the
\* process exits, which drops its timers.
Shutdown(list) ==
  /\ sessions' = [s \in DOMAIN list |-> Interrupt(list, s)[s]]
  /\ pc' = "exited" /\ timers' = 0

RestartingForever(s) ==
  /\ pc # "exited" /\ sessions[s].state = "dead"
  /\ LET reaped == [sessions EXCEPT ![s].state = "reaped"] IN
     IF pc = "running" /\ ~restarting THEN Shutdown(reaped)
     ELSE sessions' = reaped /\ UNCHANGED <<pc, timers>>
  /\ UNCHANGED <<manifest, saved, wrangler, resolved, restarting, edits, calm>>

\* The "exit" event of a child.  onWranglerExit is null until step 5.
ExitEvent(s) ==
  /\ pc # "exited" /\ sessions[s].state = "dead"
  /\ LET reaped == [sessions EXCEPT ![s].state = "reaped"] IN
     IF restarting
     THEN restarting' = FALSE /\ sessions' = reaped /\ UNCHANGED <<pc, timers>>
     ELSE /\ UNCHANGED restarting
          /\ IF pc = "running" THEN Shutdown(reaped)
             ELSE sessions' = reaped /\ UNCHANGED <<pc, timers>>
  /\ UNCHANGED <<manifest, saved, wrangler, resolved, edits, calm>>

\* pollHealth() returns: the gateway answers, or a minute has passed.
Ready ==
  /\ pc = "polling"
  /\ calm => Serving # {}
  /\ pc' = "running"
  /\ UNCHANGED <<manifest, saved, wrangler, resolved, sessions, restarting, timers, edits, calm>>

\* SIGINT or SIGTERM; the handlers are installed at step 5.
Interrupted ==
  /\ pc = "running"
  /\ Shutdown(sessions)
  /\ UNCHANGED <<manifest, saved, wrangler, resolved, restarting, edits, calm>>

-----------------------------------------------------------------------------
(* The developer and the wrangler sessions. *)

Save(content) ==
  /\ edits < MaxEdits /\ pc # "exited" /\ content # manifest
  /\ calm => Quiet
  /\ manifest' = content /\ saved' = TRUE /\ edits' = edits + 1
  /\ UNCHANGED <<wrangler, resolved, sessions, restarting, timers, pc, calm>>

\* The session binds the port, or exits because it is taken.
Listen(s) ==
  /\ sessions[s].state = "starting"
  /\ Become(s, IF PortTaken THEN "dead" ELSE "serving")
  /\ UNCHANGED <<manifest, saved, wrangler, resolved, restarting, timers, pc, edits, calm>>

Stopped(s) ==
  /\ sessions[s].state = "stopping"
  /\ Become(s, "dead")
  /\ UNCHANGED <<manifest, saved, wrangler, resolved, restarting, timers, pc, edits, calm>>

Fail(s) ==
  /\ sessions[s].state \in {"starting", "serving"}
  /\ calm => pc = "running"
  /\ Become(s, "dead")
  /\ UNCHANGED <<manifest, saved, wrangler, resolved, restarting, timers, pc, edits, calm>>

DevNext ==
  \/ ManifestChanged \/ TimerFires \/ Ready \/ Interrupted
  \/ \E s \in DOMAIN sessions : ExitEvent(s) \/ Listen(s) \/ Stopped(s) \/ Fail(s)
  \/ \E content \in Manifests \union {"broken"} : Save(content)

\* Node delivers the events it has, timers expire, and a session that was
\* started or interrupted gets there.  Nobody has to save, fail or interrupt.
DevFairness ==
  /\ WF_devVars(ManifestChanged) /\ WF_devVars(TimerFires) /\ WF_devVars(Ready)
  /\ \A s \in 1..(MaxEdits + 1) :
       WF_devVars(s \in DOMAIN sessions /\ (ExitEvent(s) \/ Listen(s) \/ Stopped(s)))

DevSpec == DevInit /\ [][DevNext]_devVars /\ DevFairness

-----------------------------------------------------------------------------
(* Properties. *)

\* Hurried saves and slow sessions included, nothing survives the command:
\* when it has exited, every session it ever spawned is gone or stopping.
NoOrphans ==
  pc = "exited" => \A s \in DOMAIN sessions : sessions[s].state \notin {"starting", "serving"}

\* A save that changes the bindings ends in a session that serves them, in
\* the order of the saves: in a calm session the bindings that are served are
\* those of the file, unless it is saved again, or the command exits.
EditsAreServed ==
  \A content \in Manifests :
    (calm /\ manifest = content) ~>
      (manifest # content \/ pc = "exited"
         \/ (Serving # {} /\ \A s \in Serving : sessions[s].config = content))

\* "Run until interrupted or the wrangler session dies": in a calm session a
\* session that dies is replaced or takes the command with it.
DeathIsNoticed ==
  (calm /\ pc = "running" /\ Serving = {}) ~> (pc = "exited" \/ Serving # {})

=============================================================================
