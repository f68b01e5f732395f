-------------------------------- MODULE Bridge --------------------------------
(***************************************************************************)
(* How the desktop app changes a process it may not open: first on its     *)
(* own, then through the service on a named pipe (cpum-core/src/ipc.rs),   *)
(* then with an elevated script (set_process_priority and                  *)
(* set_process_affinity of src-tauri/src/lib.rs).  The app waits for the   *)
(* pipe without a deadline and for the script with one.                    *)
(*                                                                         *)
(* The service answers each connection on a thread of its own, and makes a *)
(* pipe instance for the next client when it has got one.  What Windows    *)
(* does with a pipe is modelled from the comments and the calls: a client  *)
(* needs an instance; one that connects before ConnectNamedPipe is called  *)
(* makes that call fail; a disconnect discards what was not read.          *)
(***************************************************************************)
EXTENDS ServiceControl, FiniteSetsExt

CONSTANTS
  Pids,
  RulesOn,     \* process -> how many rules match it
  Rights,      \* who may change the processes: functions from processes
  NoPid,
  NoToken,     \* bridge.token is missing or empty
  OldToken,    \* the token of an earlier instance
  Workloads,   \* what users do: app -> the commands they give
  MaxOutstanding  \* commands that run and scripts without an app, together

Changes == {"priority", "affinity"}
ProcessOps == Changes \cup {"ping", "apply"}

\* A command: what it asks for, the token it holds, whether every call of a
\* change has been made or its prompt declined, what an apply has counted, and
\* how far it is.
Commands ==
  [op : ProcessOps \cup ServiceOps, pid : Pids \cup {NoPid},
   token : Apps \cup {NoToken, OldToken}, made : {"no", "yes", "declined"},
   handled : SUBSET Pids, applied : Nat,
   at : {"begun", "queried", "once", "twice", "stopped", "present", "gone",
         "token", "mint", "minting", "connect", "reading", "fallback", "waiting",
         "done", "refused", "timed out", "ok", "failed"}]

Scripts ==
  [op : {"install", "start", "stop", "delete", "change"}, app : Apps \cup {Idle},
   pid : Pids \cup {NoPid}, phase : {"asked", "running"}]

ASSUME BridgeAssumption ==
  /\ RulesOn \in [Pids -> Nat] /\ MaxOutstanding \in Nat
  /\ IsFiniteSet(Pids) /\ Idle \notin Commands
  /\ Rights \subseteq [Pids -> {"open", "denied", "protected"}]
  /\ NoPid \notin Pids /\ {NoToken, OldToken} \cap Apps = {}
  /\ Workloads \subseteq [Apps -> SUBSET (ProcessOps \cup ServiceOps)]

VARIABLES
  workload,          \* the commands users give in this behaviour
  access,            \* process -> who may change it
  listener,          \* the thread that makes pipe instances
  conn,              \* app -> its connection, or the answer that waits in it
  token_file,        \* the app whose token bridge.token holds
  elevation_failed,  \* app -> ELEVATION_FAILED
  mints              \* how often a token was made, up to twice

appVars == <<token_file, elevation_failed, mints>>

bvars == <<scVars, workload, access, listener, conn, appVars>>

Answers == {"ok", "failed", "unauthorized"}

BridgeTypeOK ==
  /\ ServiceTypeOK /\ workload \in Workloads
  /\ command \in [Apps -> Commands \cup {Idle}] /\ scripts \subseteq Scripts
  /\ access \in Rights
  /\ listener \in {"off", "creating", "created", "waiting", "dead"}
  /\ listener = "off" <=> ~Alive(scm)
  /\ conn \in [Apps -> {"none", "raced", "pending", "broken"} \cup Answers]
  /\ \A a \in Apps : conn[a] # "none" <=> \E op \in ProcessOps : At(a, op, {"reading"})
  /\ token_file \in Apps \cup {NoToken, OldToken}
  /\ elevation_failed \in [Apps -> SUBSET Pids] /\ mints \in 0..2

-----------------------------------------------------------------------------
(* The app on its own *)

AppUnchanged ==
  UNCHANGED <<scm, marker, gave_up, overtaken, workload, access>>

\* handled, applied: the processes an apply has accounted for, and the number
\* it reports.
Begin(a) ==
  /\ command[a] = Idle
  /\ Cardinality({s \in scripts : s.app = Idle})
       + Cardinality({b \in Apps : command[b] # Idle}) < MaxOutstanding
  /\ \E op \in workload[a], pid \in Pids \cup {NoPid} :
       /\ pid = NoPid <=> op \notin Changes
       /\ command' = [command EXCEPT
            ![a] = [op |-> op, pid |-> pid, token |-> NoToken, made |-> "no",
                    handled |-> {}, applied |-> 0,
                    at |-> IF op = "ping" THEN "token" ELSE "begun"]]
  /\ AppUnchanged
  /\ UNCHANGED <<scripts, listener, conn, token_file, elevation_failed, mints>>

\* A process command has replied.
Return(a) ==
  /\ \E op \in ProcessOps : At(a, op, {"ok", "failed"})
  /\ Finish(a)
  /\ AppUnchanged
  /\ UNCHANGED <<scripts, listener, conn, token_file, elevation_failed, mints>>

MadeThen(a, at) == command' = [command EXCEPT ![a].made = "yes", ![a].at = at]

\* apply_priorities_locally, set_affinity_by_group_masks
Local(a) ==
  /\ \E op \in Changes : At(a, op, {"begun"})
  /\ LET rights == access[command[a].pid]
     IN  \/ rights = "open" /\ MadeThen(a, "ok")
         \/ rights = "open" /\ Goto(a, "failed")   \* for another reason
         \/ rights # "open" /\ Goto(a, "token")
  /\ AppUnchanged
  /\ UNCHANGED <<scripts, listener, conn, token_file, elevation_failed, mints>>

Matched == {p \in Pids : RulesOn[p] > 0}

\* The pass of apply_affinity_rules itself, which counts every rule a process
\* has; the service is asked when a process could not be opened.
ApplyLocally(a) ==
  /\ At(a, "apply", {"begun"})
  /\ LET mine == {p \in Matched : access[p] = "open"}
     IN  command' = [command EXCEPT
           ![a].handled = mine,
           ![a].applied = MapThenSumSet(LAMBDA p : RulesOn[p], mine),
           ![a].at      = IF mine = Matched THEN "ok" ELSE "token"]
  /\ AppUnchanged
  /\ UNCHANGED <<scripts, listener, conn, token_file, elevation_failed, mints>>

-----------------------------------------------------------------------------
(* The app and the pipe *)

AtPipe(a, at) == \E op \in ProcessOps : At(a, op, {at})

Send(a, t) == command' = [command EXCEPT ![a].at = "connect", ![a].token = t]

ClientUnchanged == AppUnchanged /\ UNCHANGED <<scripts, elevation_failed>>

\* ensure_token: the token that is there, if it can be read ...
ReadToken(a) ==
  /\ AtPipe(a, "token")
  /\ \/ token_file # NoToken /\ Send(a, token_file)
     \/ Goto(a, "mint")
  /\ ClientUnchanged
  /\ UNCHANGED <<listener, conn, token_file, mints>>

\* ... or a new one: the file is emptied, unless it cannot be opened ...
Mint(a) ==
  /\ AtPipe(a, "mint")
  /\ \/ /\ Goto(a, "minting")
        /\ token_file' = NoToken /\ mints' = (IF mints = 0 THEN 1 ELSE 2)
     \/ Goto(a, "fallback") /\ UNCHANGED <<token_file, mints>>
  /\ ClientUnchanged
  /\ UNCHANGED <<listener, conn>>

WriteTokenMut(a) ==
  /\ AtPipe(a, "minting") /\ Send(a, a)
  /\ token_file' = NoToken
  /\ ClientUnchanged
  /\ UNCHANGED <<listener, conn, mints>>

\* ... and written, unless that fails.
WriteToken(a) ==
  /\ AtPipe(a, "minting")
  /\ \/ Send(a, a) /\ token_file' = a
     \/ Goto(a, "fallback") /\ UNCHANGED token_file
  /\ ClientUnchanged
  /\ UNCHANGED <<listener, conn, mints>>

\* request: open the pipe and send.  Without an instance that is free there is
\* no service for the app.
Connect(a) ==
  /\ AtPipe(a, "connect")
  /\ LET early == listener = "created" /\ \A b \in Apps : conn[b] # "raced"
     IN  \/ /\ listener = "waiting" /\ Goto(a, "reading")
            /\ conn' = [conn EXCEPT ![a] = "pending"]
            /\ listener' = "creating"
         \/ /\ early /\ Goto(a, "reading")
            /\ conn' = [conn EXCEPT ![a] = "raced"]
            /\ UNCHANGED listener
         \/ /\ listener # "waiting" /\ ~early /\ Goto(a, "fallback")
            /\ UNCHANGED <<conn, listener>>
  /\ ClientUnchanged
  /\ UNCHANGED <<token_file, mints>>

\* The processes the service has applied rules to.
Theirs(a) == IF conn[a] = "ok" /\ command[a].op = "apply"
             THEN {p \in Matched : access[p] # "protected"} ELSE {}

ReadReplyMut(a) ==
  /\ AtPipe(a, "reading") /\ conn[a] \in Answers \cup {"broken"}
  /\ conn' = [conn EXCEPT ![a] = "none"]
  /\ command' = [command EXCEPT
       ![a].applied = @ + Cardinality(Theirs(a)),
       ![a].at      = IF conn[a] = "ok" THEN "ok" ELSE "fallback"]
  /\ ClientUnchanged
  /\ UNCHANGED <<listener, token_file, mints>>

\* The answer is read, without a deadline.  Processes count when they are new.
ReadReply(a) ==
  /\ AtPipe(a, "reading") /\ conn[a] \in Answers \cup {"broken"}
  /\ conn' = [conn EXCEPT ![a] = "none"]
  /\ command' = [command EXCEPT
       ![a].applied = @ + Cardinality(Theirs(a) \ command[a].handled),
       ![a].at      = IF conn[a] = "ok" THEN "ok" ELSE "fallback"]
  /\ ClientUnchanged
  /\ UNCHANGED <<listener, token_file, mints>>

\* Without the service: a change is put into a script, unless one has failed
\* for this process id.
Fallback(a) ==
  /\ AtPipe(a, "fallback")
  /\ LET c == command[a]
     IN  \/ /\ c.op \in Changes /\ c.pid \notin elevation_failed[a]
            /\ Ask(a, "change")
         \/ /\ c.op = "ping" \/ c.pid \in elevation_failed[a]
            /\ Goto(a, "failed") /\ UNCHANGED scripts
         \/ c.op = "apply" /\ Goto(a, "ok") /\ UNCHANGED scripts
  /\ AppUnchanged
  /\ UNCHANGED <<listener, conn, token_file, elevation_failed, mints>>

ElevatedMut(a) ==
  /\ \E op \in Changes : At(a, op, {"done", "refused", "timed out"})
  /\ Goto(a, "ok")
  /\ AppUnchanged
  /\ UNCHANGED <<scripts, listener, conn, token_file, elevation_failed, mints>>

\* run_elevated_helper has returned.
Elevated(a) ==
  /\ \/ /\ \E op \in Changes : At(a, op, {"done"})
        /\ Goto(a, "ok") /\ UNCHANGED elevation_failed
     \/ /\ \E op \in Changes : At(a, op, {"refused", "timed out"})
        /\ elevation_failed' =
             [elevation_failed EXCEPT ![a] = @ \cup {command[a].pid}]
        /\ Goto(a, "failed")
  /\ AppUnchanged
  /\ UNCHANGED <<scripts, listener, conn, token_file, mints>>

\* one_shot_set_priority, one_shot_set_affinity: the script of a change.
RunChange(s) ==
  /\ s.op = "change" /\ s.phase = "running"
  /\ \/ /\ access[s.pid] # "protected"
        /\ scripts' = scripts \ {s}
        /\ IF s.app = Idle THEN UNCHANGED command ELSE MadeThen(s.app, "done")
     \/ Ends(s, "refused")
  /\ AppUnchanged
  /\ UNCHANGED <<listener, conn, token_file, elevation_failed, mints>>

-----------------------------------------------------------------------------
(* The service *)

ServerUnchanged == AppUnchanged /\ UNCHANGED <<scripts, appVars>>

\* serve: an instance for the next client ...
CreatePipe ==
  /\ listener = "creating"
  /\ \/ listener' = "created"
     \/ listener' = "dead"               \* CreateNamedPipeW failed
  /\ ServerUnchanged /\ UNCHANGED <<command, conn>>

AwaitClientStopMut ==
  /\ listener = "created"
  /\ IF \E a \in Apps : conn[a] = "raced"
     THEN /\ conn' = [a \in Apps |->
                        IF conn[a] = "raced" THEN "broken" ELSE conn[a]]
          /\ listener' = "off"
     ELSE listener' = "waiting" /\ UNCHANGED conn
  /\ ServerUnchanged /\ UNCHANGED command

AwaitClientMut ==
  /\ listener = "created"
  /\ IF \E a \in Apps : conn[a] = "raced"
     THEN listener' = "creating"
     ELSE listener' = "waiting"
  /\ ServerUnchanged /\ UNCHANGED <<command, conn>>

\* ... that waits for one, or is dropped together with one who came early.
AwaitClient ==
  /\ listener = "created"
  /\ IF \E a \in Apps : conn[a] = "raced"
     THEN /\ conn' = [a \in Apps |->
                        IF conn[a] = "raced" THEN "broken" ELSE conn[a]]
          /\ listener' = "creating"
     ELSE listener' = "waiting" /\ UNCHANGED conn
  /\ ServerUnchanged /\ UNCHANGED command

\* handle_connection, dispatch: the token, then the request.  After a second
\* token has been made, the one an app read may be an earlier one.
Dispatch(a) ==
  LET c == command[a]
      authorized == c.token = token_file
      Respond(with) == conn' = [conn EXCEPT ![a] = with]
  IN  /\ conn[a] = "pending"
      /\ \/ /\ ~authorized \/ mints = 2
            /\ Respond("unauthorized") /\ UNCHANGED command
         \/ /\ authorized /\ c.op \notin Changes
            /\ Respond("ok") /\ UNCHANGED command
         \/ /\ authorized /\ c.op \in Changes /\ access[c.pid] # "protected"
            /\ Respond("ok") /\ MadeThen(a, "reading")
         \/ /\ authorized /\ c.op # "ping"
            /\ Respond("failed") /\ UNCHANGED command
      /\ ServerUnchanged /\ UNCHANGED listener

\* The thread of the connection ends with a disconnect.
Disconnect(a) ==
  /\ conn[a] \in Answers /\ Alive(scm)
  /\ conn' = [conn EXCEPT ![a] = "broken"]
  /\ ServerUnchanged /\ UNCHANGED <<command, listener>>

\* A process id passes to another process.
Reuse ==
  /\ access' \in Rights \ {access}
  /\ UNCHANGED <<scVars, workload, listener, conn, appVars>>

-----------------------------------------------------------------------------
\* The listener lives and dies with the service process.
WithService(Step) ==
  /\ Step /\ Overtake
  /\ listener' = IF Alive(scm') = Alive(scm) THEN listener
                 ELSE IF Alive(scm') THEN "creating" ELSE "off"
  /\ conn' = [a \in Apps |->
                IF ~Alive(scm') /\ conn[a] \in {"raced", "pending"}
                THEN "broken" ELSE conn[a]]
  /\ UNCHANGED <<workload, access, appVars>>

BridgeInit ==
  /\ ServiceInit /\ workload \in Workloads
  /\ access \in Rights
  /\ listener = IF Alive(scm) THEN "creating" ELSE "off"
  /\ conn = [a \in Apps |-> "none"]
  /\ token_file \in {NoToken, OldToken}
  /\ elevation_failed = [a \in Apps |-> {}]
  /\ mints = (IF token_file = OldToken THEN 1 ELSE 0)

\* The main thread of an app goes on with its command.
AppStep(a) ==
  \/ WithService(ServiceOp(a)) \/ WithService(TimeOut(a))
  \/ Local(a) \/ ApplyLocally(a) \/ ReadToken(a) \/ Mint(a) \/ WriteToken(a)
  \/ Connect(a) \/ ReadReply(a) \/ Fallback(a) \/ Elevated(a) \/ Return(a)

ListenerStep == CreatePipe \/ AwaitClient

BridgeNext ==
  \/ \E a \in Apps : Begin(a) \/ AppStep(a) \/ Dispatch(a) \/ Disconnect(a)
  \/ ListenerStep
  \/ \E s \in scripts : \/ WithService(UserAnswers(s)) \/ WithService(ServiceScript(s))
                        \/ RunChange(s)
  \/ WithService(ServiceEnds)
  \/ Reuse

\* Threads are scheduled, and deadlines pass.  Nobody has to answer a prompt.
BridgeSpec ==
  /\ BridgeInit /\ [][BridgeNext]_bvars
  /\ WF_bvars(ListenerStep)
  /\ \A a \in Apps : WF_bvars(AppStep(a)) /\ WF_bvars(Dispatch(a))

-----------------------------------------------------------------------------
\* A change that is reported to have worked has been made, every call of it,
\* by whoever got to make it: the app, the service or the script - to the
\* process that had the id then.  Or the user has declined to let it be made.
SuccessMeansWritten ==
  \A a \in Apps, op \in Changes : At(a, op, {"ok"}) => command[a].made # "no"

\* Without that exception (the comment on success in set_process_affinity; the
\* code takes a declined prompt for a script that ended well).
DeclinedIsFailure ==
  \A a \in Apps, op \in Changes : At(a, op, {"ok"}) => command[a].made = "yes"

\* "Rules applied to N processes" counts no process twice when one rule
\* matches it, whether the app, the service or both have handled it.
AppliedCounts ==
  \A a \in Apps :
    At(a, "apply", {"ok"}) => command[a].applied <= Cardinality(Matched)

\* The service refuses no app as long as one token at most has been made: by
\* an earlier instance, or by an app while others read the file it writes.
TokenAccepted ==
  mints <= 1 => \A a \in Apps : conn[a] # "unauthorized"

\* The main thread of an app always comes back: a read without a deadline ends
\* because the service answers, hangs up or dies, a prompt because of its
\* deadline.
CommandsEnd == \A a \in Apps : command[a] # Idle ~> command[a] = Idle

\* While the service lives, a pipe instance without a client comes back again
\* and again, whatever clients do, unless no instance could be made once.
BridgeComesBack ==
  <>[](Alive(scm) /\ listener # "dead") =>
    []<>(/\ listener \in {"created", "waiting"}
         /\ \A a \in Apps : conn[a] # "raced")

\* One response for each request on each connection (the module comment of
\* ipc.rs; the code may disconnect first).
NeverHungUp == \A a \in Apps : conn[a] = "broken" => ~Alive(scm)

\* Only processes that even the service may not touch are remembered (the
\* comment on ELEVATION_FAILED; the code remembers every failure).
OnlyProtectedRemembered ==
  \A a \in Apps : \A p \in elevation_failed[a] : access[p] = "protected"
=============================================================================
