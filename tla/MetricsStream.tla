---------------------------- MODULE MetricsStream -----------------------------
(***************************************************************************)
(* The process table of the GUI and what keeps it up to date: the sampling *)
(* thread that sends one structural diff per round (process/metrics.rs),   *)
(* list_processes for a full refresh (process/enumerate.rs), the baseline  *)
(* both of them replace (process/sampling.rs), and the table that applies  *)
(* the results in the order the webview gets them (useMetricsStream.ts,    *)
(* useProcessManager.ts).                                                  *)
(*                                                                         *)
(* Commands run on the main thread, which also passes the results on: the  *)
(* queue keeps their order.  Of a process only its id is kept.             *)
(***************************************************************************)
EXTENDS Integers, SequencesExt

CONSTANTS
  Pids,
  Threads,   \* sampling threads that may exist at a time: a bound
  MaxQueue,  \* results on their way to the webview: a bound
  Faults

ASSUME StreamAssumption ==
  /\ MaxQueue \in Nat
  /\ Faults \subseteq
       {"scan",     \* an enumeration fails
        "spawn",    \* the thread cannot be created
        "overlap",  \* a full refresh overlaps a round of the stream
        "pause",    \* the stream is stopped inside a round
        "restart",  \* ... and started before its thread has noticed
        "bootstrap"}  \* rows of a cached or light list, and no full list yet

VARIABLES
  alive,     \* the processes of the system
  running,   \* STREAM_RUNNING
  threads,   \* the sampling threads
  baseline,  \* SNAPSHOT_CACHE, the processes of the last sample
  pushed,    \* PREV_STRUCT_PRIORITY, the processes sent before
  listing,   \* the list_processes call in progress
  queue,     \* results not yet applied by the frontend
  table      \* the rows of the frontend

streamVars == <<alive, running, threads, baseline, pushed, listing, queue,
                table>>

Diffs == {d \in [removed : SUBSET Pids, upserts : SUBSET Pids] :
            d.removed \cap d.upserts = {}}
NoDiff == [removed |-> {}, upserts |-> {}]
Thread == [at : {"ended", "resting", "scanning", "scanned", "emitting"},
           prev : SUBSET Pids, snap : SUBSET Pids, diff : Diffs]

Live(t) == threads[t].at # "ended"
InRound(t) == threads[t].at \in {"scanning", "scanned", "emitting"}
\* No list_processes call is in progress.
MainFree == ~listing.busy

\* Unless the fault may happen, commands keep clear of rounds.
Calm(fault) == fault \in Faults \/ \A t \in Threads : ~InRound(t)

-----------------------------------------------------------------------------
\* Variants named ...Mut are plausible mistakes: each breaks a property.

ResetThread(at) == [at |-> at, prev |-> {}, snap |-> {}, diff |-> NoDiff]

\* collect_metrics_tick: new processes, processes never sent, and those whose
\* memory or priorities have changed.
Upserts(prev, snap, changed) == (snap \ prev) \cup (snap \ pushed) \cup changed

\* bootstrap shows the list saved by the last run of the app, then one of ids
\* and names: neither replaces the baseline, as the full list after them does.
FirstRows == IF "bootstrap" \in Faults THEN SUBSET Pids ELSE {{}}

Init ==
  /\ alive \in SUBSET Pids
  /\ running = FALSE
  /\ threads = [t \in Threads |-> ResetThread("ended")]
  /\ baseline = {} /\ pushed = {} /\ table \in FirstRows
  /\ listing = [busy |-> FALSE, got |-> {}]
  /\ queue = <<>>

-----------------------------------------------------------------------------
(* Commands *)

\* start_metrics_stream_in_thread, when the stream is not running: the flag
\* is set before the thread exists.
Start ==
  /\ MainFree /\ ~running
  /\ "restart" \in Faults \/ \A t \in Threads : ~Live(t)
  /\ running' = TRUE
  /\ \/ \E t \in Threads :
          ~Live(t) /\ threads' = [threads EXCEPT ![t] = ResetThread("resting")]
     \/ "spawn" \in Faults /\ UNCHANGED threads
  /\ UNCHANGED <<alive, baseline, pushed, listing, queue, table>>

\* stop_metrics_stream_in_thread: nobody waits for the thread to end.
Stop ==
  /\ MainFree /\ running /\ Calm("pause")
  /\ running' = FALSE
  /\ UNCHANGED <<alive, threads, baseline, pushed, listing, queue, table>>

\* list_processes: sample ...
ListScan ==
  /\ MainFree /\ Calm("overlap")
  /\ listing' = [busy |-> TRUE, got |-> alive]
  /\ UNCHANGED <<alive, running, threads, baseline, pushed, queue, table>>

\* ... replace the baseline, save the cache and reply.
ListReply ==
  /\ listing.busy /\ Len(queue) < MaxQueue
  /\ baseline' = listing.got
  /\ queue' = Append(queue, [kind |-> "list", pids |-> listing.got])
  /\ listing' = [busy |-> FALSE, got |-> {}]
  /\ UNCHANGED <<alive, running, threads, pushed, table>>

-----------------------------------------------------------------------------
(* The sampling thread *)

RestMut(t) ==
  /\ threads[t].at = "resting"
  /\ "overlap" \in Faults \/ MainFree
  /\ threads' = [threads EXCEPT ![t] = [ResetThread("scanning") EXCEPT
                                          !.prev = baseline]]
  /\ UNCHANGED <<alive, running, baseline, pushed, listing, queue, table>>

\* The top of the loop, and the copy of the baseline that a round starts
\* with.  The delay of the first round and the sleep between rounds end at
\* any time.
Rest(t) ==
  /\ threads[t].at = "resting"
  /\ \/ ~running /\ threads' = [threads EXCEPT ![t] = ResetThread("ended")]
     \/ /\ running
        /\ "overlap" \in Faults \/ MainFree
        /\ threads' = [threads EXCEPT ![t] = [ResetThread("scanning") EXCEPT
                                                !.prev = baseline]]
  /\ UNCHANGED <<alive, running, baseline, pushed, listing, queue, table>>

\* enumerate_with_snapshots ...
Scan(t) ==
  /\ threads[t].at = "scanning"
  /\ threads' = [threads EXCEPT ![t].at = "scanned", ![t].snap = alive]
  /\ UNCHANGED <<alive, running, baseline, pushed, listing, queue, table>>

\* ... or a failed one: the round is skipped.
SkipRound(t) ==
  /\ "scan" \in Faults
  /\ threads[t].at = "scanning"
  /\ threads' = [threads EXCEPT ![t] = ResetThread("resting")]
  /\ UNCHANGED <<alive, running, baseline, pushed, listing, queue, table>>

PublishMut(t) ==
  LET prev == threads[t].prev
      snap == threads[t].snap
  IN  /\ threads[t].at = "scanned"
      /\ baseline' = snap
      /\ \E changed \in SUBSET snap :
           LET diff == [removed |-> prev \ snap,
                        upserts |-> (snap \ pushed) \cup changed]
           IN  /\ threads' = [threads EXCEPT ![t].at = "emitting",
                                             ![t].diff = diff]
               /\ pushed' = pushed \cup diff.upserts
      /\ UNCHANGED <<alive, running, listing, queue, table>>

\* The rest of collect_metrics_tick: replace the baseline, compute the diff
\* and remember what was sent, before it is sent.
Publish(t) ==
  LET prev == threads[t].prev
      snap == threads[t].snap
  IN  /\ threads[t].at = "scanned"
      /\ baseline' = snap
      /\ \E changed \in SUBSET snap :
           LET diff == [removed |-> prev \ snap,
                        upserts |-> Upserts(prev, snap, changed)]
           IN  /\ threads' = [threads EXCEPT ![t].at = "emitting",
                                             ![t].diff = diff]
               /\ pushed' = (pushed \cup diff.upserts) \ diff.removed
      /\ UNCHANGED <<alive, running, listing, queue, table>>

EmitMut(t) ==
  /\ threads[t].at = "emitting"
  /\ running => Len(queue) < MaxQueue
  /\ queue' = IF running /\ threads[t].diff.upserts # {}
              THEN Append(queue, [kind |-> "diff", diff |-> threads[t].diff])
              ELSE queue
  /\ threads' = [threads EXCEPT ![t] = ResetThread("resting")]
  /\ UNCHANGED <<alive, running, baseline, pushed, listing, table>>

\* After the four waves the diff is sent, unless the stream was stopped.
Emit(t) ==
  /\ threads[t].at = "emitting"
  /\ running => Len(queue) < MaxQueue
  /\ queue' = IF running
              THEN Append(queue, [kind |-> "diff", diff |-> threads[t].diff])
              ELSE queue
  /\ threads' = [threads EXCEPT ![t] = ResetThread("resting")]
  /\ UNCHANGED <<alive, running, baseline, pushed, listing, table>>

Round(t) == Rest(t) \/ Scan(t) \/ SkipRound(t) \/ Publish(t) \/ Emit(t)

-----------------------------------------------------------------------------
(* The frontend and the system *)

\* applyProcessDiff, or the assignment of a full refresh.
Apply(rows, m) ==
  IF m.kind = "list" THEN m.pids
  ELSE (rows \ m.diff.removed) \cup m.diff.upserts

Deliver ==
  /\ queue # <<>>
  /\ table' = Apply(table, Head(queue))
  /\ queue' = Tail(queue)
  /\ UNCHANGED <<alive, running, threads, baseline, pushed, listing>>

\* A process starts or ends.
Processes ==
  /\ \E p \in Pids : alive' = (alive \cup {p}) \ (alive \cap {p})
  /\ UNCHANGED <<running, threads, baseline, pushed, listing, queue, table>>

Next ==
  \/ Start \/ Stop \/ ListScan \/ ListReply \/ Deliver \/ Processes
  \/ \E t \in Threads : Round(t)

Spec == Init /\ [][Next]_streamVars

\* Threads run, calls return and the webview empties its queue, and an
\* enumeration tried again and again succeeds; nobody has to start, stop or
\* refresh.
FairSpec ==
  /\ Spec
  /\ WF_streamVars(ListReply) /\ WF_streamVars(Deliver)
  /\ \A t \in Threads : WF_streamVars(Round(t)) /\ SF_streamVars(Scan(t))

-----------------------------------------------------------------------------
\* A diff never removes and updates the same process, which the frontend
\* would show or not depending on the order it applies the two in.
TypeOK ==
  /\ alive \subseteq Pids /\ baseline \subseteq Pids
  /\ pushed \subseteq Pids /\ table \subseteq Pids
  /\ running \in BOOLEAN
  /\ threads \in [Threads -> Thread]
  /\ listing \in [busy : BOOLEAN, got : SUBSET Pids]
  /\ \A i \in DOMAIN queue :
       queue[i].kind = "diff" => queue[i].diff \in Diffs

\* The table once all that is computed has arrived.
Expected ==
  LET queued == FoldLeft(Apply, table, queue)
      round  == {t \in Threads : threads[t].at = "emitting"}
  IN  (queued \ UNION {threads[t].diff.removed : t \in round})
        \cup UNION {threads[t].diff.upserts : t \in round}

\* No change of the process list is lost: a row of an ended process is still
\* in the baseline, so that the next round reports it, and a running process
\* without a row is one the next round sends.
DiffsKeepSync ==
  /\ Expected \ alive \subseteq baseline
  /\ (alive \ Expected) \cap baseline \cap pushed = {}

\* Only one thread samples at a time.
OneSampler ==
  \A t, u \in Threads : InRound(t) /\ InRound(u) => t = u

\* While the stream runs, with a thread (the spawn of one may have failed),
\* and processes stop coming and going, the table becomes the list of
\* processes, and stays it.
TableConverges ==
  <>[](running /\ \E t \in Threads : Live(t)) /\ <>[][alive' = alive]_streamVars => <>[](table = alive)

\* A stopped stream ends all of its threads, also those started in a hurry.
ThreadsEnd ==
  <>[](~running) => <>[](\A t \in Threads : ~Live(t))
=============================================================================
