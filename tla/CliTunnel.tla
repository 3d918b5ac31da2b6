------------------------------ MODULE CliTunnel ------------------------------
(***************************************************************************)
(* Delivery to a developer's machine (destination type "cli").  A worker   *)
(* that picks such an event looks for the session key of the source in     *)
(* Redis: without one it defers or discards the event, with one it pushes  *)
(* the id on the dispatch list and acknowledges its copy.  From then on    *)
(* the WebSocket handler owns the event (internal/api/cli/cli.go): each    *)
(* connection pops ids, runs one goroutine per event, sends a frame and    *)
(* waits for the CLI's answer, which its reader routes through a map keyed *)
(* by event id.  Nothing but the reaper brings back what a connection      *)
(* takes down with it.                                                     *)
(*                                                                         *)
(* The queue is LeaseQueue.  A connection id is also its session token and *)
(* serves once.  One source: sources share nothing.                        *)
(***************************************************************************)
EXTENDS LeaseQueue, Sequences

CONSTANTS
    Events,
    Sockets,     \* connections, numbered in the order in which they open
    Slots,       \* maxConcurrentDispatch goroutines of one connection
    None,
    MaxDisturbances  \* bound on manual retries, on reaper claims of an event that
                     \* is still attended, and on faults (failed calls, crashes,
                     \* lost keys, overrun leases), taken together

ASSUME CliItems == Items = [ev: Events, manual: BOOLEAN]
ASSUME CliSockets == Sockets \subseteq Nat
ASSUME CliNone == None \notin Events \cup Sockets \cup Slots \cup Items \cup Leases \cup {"ok", "bad"}
ASSUME CliBound == MaxDisturbances \in Nat

VARIABLES
    status,    \* events.status
    stale,     \* updated_at is past the reaper's window for this status
    old,       \* created_at is past cliWaitTimeout
    session,   \* cli:source:<id>, the token it holds
    list,      \* cli:dispatch:<id>
    stage, hold, \* the worker and its lease
    conn,      \* [Sockets -> {"off", "on", "closing", "done"}]
    popped,    \* what a dispatch loop took from the list and has no slot for yet
    job,       \* [Sockets -> [Slots -> Jobs]]: the goroutines
    chan,      \* pendingMap.chs: whose channel answers for an event go to
    frames,    \* event frames that are not answered yet
    \* history
    doubled,     \* events put into the queue while a copy of them was about
    unheard,     \* events with an answer that missed the goroutine waiting for it
    overwritten, \* open connections whose registration another one replaced
    used         \* the disturbances so far: [faults, extra]

tables == <<status, stale, old>>
worker == <<stage, hold>>
tunnel == <<conn, popped, job, chan, frames>>
history == <<doubled, unheard, overwritten>>
tunnelVars == <<leaseVars, tables, session, list, worker, tunnel, history, used>>

Terminal == {"delivered", "failed", "discarded"}
Results == {"ok", "bad"}
Idle == [pc |-> "idle", ev |-> None, resp |-> None]
Jobs == {Idle} \cup [pc: {"load", "write", "wait"}, ev: Events,
                     resp: Results \cup {None}]

TunnelTypeOK ==
    /\ LeaseTypeOK
    /\ status \in [Events -> Terminal \cup {"absent", "queued", "in_flight"}]
    /\ stale \in [Events -> BOOLEAN] /\ old \in [Events -> BOOLEAN]
    /\ session \in Sockets \cup {None}
    /\ list \in Seq(Events)
    /\ stage \in {"pick", "load", "route", "discard", "reset", "defer", "push", "ack"}
    /\ hold \in Leases \cup {None} /\ (hold = None <=> stage = "pick")
    /\ conn \in [Sockets -> {"off", "on", "closing", "done"}]
    /\ popped \in [Sockets -> Events \cup {None}]
    /\ job \in [Sockets -> [Slots -> Jobs]]
    /\ chan \in [Sockets -> [Events -> Slots \cup {None}]]
    /\ frames \in [Sockets -> [Events -> Nat]]
    /\ doubled \subseteq Events /\ unheard \subseteq Events /\ overwritten \subseteq Sockets
    /\ used \in [faults: 0..MaxDisturbances, extra: 0..MaxDisturbances]

NoJobs == [s \in Slots |-> Idle]
NoChans == [e \in Events |-> None]
NoFrames == [e \in Events |-> 0]

TunnelInit ==
    /\ LeaseInit
    /\ status = [e \in Events |-> "absent"]
    /\ stale = [e \in Events |-> FALSE] /\ old = [e \in Events |-> FALSE]
    /\ session = None /\ list = <<>>
    /\ stage = "pick" /\ hold = None
    /\ conn = [c \in Sockets |-> "off"]
    /\ popped = [c \in Sockets |-> None]
    /\ job = [c \in Sockets |-> NoJobs]
    /\ chan = [c \in Sockets |-> NoChans]
    /\ frames = [c \in Sockets |-> NoFrames]
    /\ doubled = {} /\ unheard = {} /\ overwritten = {}
    /\ used = [faults |-> 0, extra |-> 0]

-----------------------------------------------------------------------------
MayDisturb == used.faults + used.extra < MaxDisturbances
TunnelFault == MayDisturb /\ used' = [used EXCEPT !.faults = @ + 1]
Extra == MayDisturb /\ used' = [used EXCEPT !.extra = @ + 1]

SetStatus(e, s) ==
    /\ status' = [status EXCEPT ![e] = s]
    /\ stale' = [stale EXCEPT ![e] = FALSE]

\* A status write whose error the caller ignores.
TrySetStatus(e, s) ==
    \/ SetStatus(e, s) /\ UNCHANGED used
    \/ TunnelFault /\ UNCHANGED <<status, stale>>

\* A goroutine of an open connection that has e in hand.
Serving(c, e) == conn[c] = "on" /\ \E s \in Slots : job[c][s].ev = e

\* The queue or an open connection will act on e without the reaper.
Attended(e) ==
    \/ \E i \in Items : i.ev = e /\ waiting[i] > 0
    \/ \E m \in leased : m.evt.ev = e
    \/ \E c \in Sockets : \/ Serving(c, e) \/ popped[c] = e
                          \/ conn[c] = "on" /\ \E i \in DOMAIN list : list[i] = e

\* A copy of e is about, be it on the list of a source nobody listens to.
Present(e) == Attended(e) \/ \E i \in DOMAIN list : list[i] = e

\* A producer's Enqueue, which may fail.
PutOrLose(e, manual) ==
    /\ doubled' = IF Present(e) THEN doubled \cup {e} ELSE doubled
    /\ \/ Put([ev |-> e, manual |-> manual]) /\ UNCHANGED used
       \/ TunnelFault /\ UNCHANGED leaseVars

CreateEvent(e) ==
    /\ status[e] = "absent"
    /\ SetStatus(e, "queued")
    /\ PutOrLose(e, FALSE)
    /\ UNCHANGED <<old, session, list, worker, tunnel, unheard, overwritten>>

\* RetryEvent resets the row whatever its status and enqueues a manual copy, or
\* fails to.
RetryEvent(e) ==
    /\ status[e] # "absent" /\ Extra
    /\ SetStatus(e, "queued")
    /\ doubled' = IF Present(e) THEN doubled \cup {e} ELSE doubled
    /\ Put([ev |-> e, manual |-> TRUE]) \/ UNCHANGED leaseVars
    /\ UNCHANGED <<old, session, list, worker, tunnel, unheard, overwritten>>

\* Mutant of ClaimStuck: in_flight rows of CLI destinations are passed over too.
ClaimQueuedOnly(e) ==
    /\ status[e] = "queued" /\ stale[e]
    /\ ~Attended(e)
    /\ SetStatus(e, "queued")
    /\ PutOrLose(e, FALSE)
    /\ UNCHANGED <<old, session, list, worker, tunnel, unheard, overwritten>>

\* ClaimStuckEvents and the enqueue after it: queued rows past the long window
\* and in_flight rows of CLI destinations past the short one.
ClaimStuck(e) ==
    /\ status[e] \in {"queued", "in_flight"} /\ stale[e]
    /\ SetStatus(e, "queued")
    /\ \/ ~Attended(e) /\ PutOrLose(e, FALSE)
       \/ /\ Attended(e) /\ Extra
          /\ doubled' = doubled \cup {e}
          /\ Put([ev |-> e, manual |-> FALSE]) \/ UNCHANGED leaseVars
    /\ UNCHANGED <<old, session, list, worker, tunnel, unheard, overwritten>>

-----------------------------------------------------------------------------
(* The worker: Process up to dispatchToCLI. *)

Ev == hold.evt.ev

\* Tokens are alike.
Pick ==
    LET unused == {t \in Tokens : \A m \in leased : m.tok # t}
    IN  /\ stage = "pick"
        /\ \E i \in Items, t \in unused :
              /\ t = CHOOSE u \in unused : TRUE
              /\ Take(t, i)
              /\ hold' = [tok |-> t, evt |-> i]
        /\ stage' = "load"
        /\ UNCHANGED <<tables, session, list, tunnel, history, used>>

\* GetEventForDelivery: nothing is left to do for an event that is over.
LoadEvent ==
    /\ stage = "load"
    /\ stage' = IF status[Ev] \in Terminal THEN "ack" ELSE "route"
    /\ UNCHANGED <<leaseVars, tables, session, list, hold, tunnel, history, used>>

\* EXISTS on the session key.
Route ==
    /\ stage = "route"
    /\ stage' = CASE session # None -> "push"
                  [] session = None /\ (hold.evt.manual \/ old[Ev]) -> "discard"
                  [] OTHER -> "reset"
    /\ UNCHANGED <<leaseVars, tables, session, list, hold, tunnel, history, used>>

MarkEventDiscarded ==
    /\ stage = "discard"
    /\ TrySetStatus(Ev, "discarded")
    /\ stage' = "ack"
    /\ UNCHANGED <<leaseVars, old, session, list, hold, tunnel, history>>

ResetEventForRetry ==
    /\ stage = "reset"
    /\ TrySetStatus(Ev, "queued")
    /\ stage' = "defer"
    /\ UNCHANGED <<leaseVars, old, session, list, hold, tunnel, history>>

\* defer_: Schedule, then Ack.
Defer ==
    /\ stage = "defer"
    /\ Put(hold.evt)
    /\ stage' = "ack"
    /\ UNCHANGED <<tables, session, list, hold, tunnel, history, used>>

Free == stage' = "pick" /\ hold' = None

\* Mutant of PushDispatch: the copy is not acknowledged after the hand-over.
PushNoAck ==
    /\ stage = "push"
    /\ list' = Append(list, Ev)
    /\ Free
    /\ UNCHANGED <<leaseVars, tables, session, tunnel, history, used>>

PushDispatch ==
    /\ stage = "push"
    /\ list' = Append(list, Ev)
    /\ stage' = "ack"
    /\ UNCHANGED <<leaseVars, tables, session, hold, tunnel, history, used>>

AckStep ==
    /\ stage = "ack"
    /\ Remove(hold)
    /\ Free
    /\ UNCHANGED <<tables, session, list, tunnel, history, used>>

\* A crash, or an error return: the lease stays.
Abandon ==
    /\ stage # "pick"
    /\ TunnelFault
    /\ Free
    /\ UNCHANGED <<leaseVars, tables, session, list, tunnel, history>>

-----------------------------------------------------------------------------
(* The connection. *)

SetKey(c) ==
    /\ session' = c
    /\ overwritten' = overwritten \cup {d \in Sockets \ {c} : conn[d] = "on"}

\* Connect up to the registration: SET with this connection's token.
Connect(c) ==
    /\ conn[c] = "off" /\ \A d \in Sockets : d < c => conn[d] # "off"
    /\ conn' = [conn EXCEPT ![c] = "on"]
    /\ SetKey(c)
    /\ UNCHANGED <<leaseVars, tables, list, worker, popped, job, chan, frames,
                   doubled, unheard, used>>

\* Mutant of Ping: EXPIRE instead of SET.
PingExpire(c) ==
    /\ conn[c] = "on"
    /\ UNCHANGED tunnelVars

\* The ping loop re-establishes the key, over whatever is there.
Ping(c) ==
    /\ conn[c] = "on" /\ session # c
    /\ SetKey(c)
    /\ UNCHANGED <<leaseVars, tables, list, worker, tunnel, doubled, unheard, used>>

\* The session context ends: calls of its goroutines fail from now on, waits end
\* and an event the dispatch loop has no slot for is dropped.
Cancel(c) ==
    /\ job' = [job EXCEPT ![c] = NoJobs]
    /\ chan' = [chan EXCEPT ![c] = NoChans]
    /\ frames' = [frames EXCEPT ![c] = NoFrames]
    /\ popped' = [popped EXCEPT ![c] = None]
    /\ overwritten' = overwritten \ {c}

\* The reader fails, because runTunnel returned or the network did: cancel().
Disconnect(c) ==
    /\ conn[c] = "on"
    /\ conn' = [conn EXCEPT ![c] = "closing"]
    /\ Cancel(c)
    /\ UNCHANGED <<leaseVars, tables, session, list, worker, doubled, unheard, used>>

\* The deferred script deletes the key if it still carries this connection's token.
Release(c) ==
    /\ conn[c] = "closing"
    /\ conn' = [conn EXCEPT ![c] = "done"]
    /\ session' = IF session = c THEN None ELSE session
    /\ UNCHANGED <<leaseVars, tables, list, worker, popped, job, chan, frames, history, used>>

\* The API process dies: nothing is released.
ServerDies(c) ==
    /\ conn[c] = "on"
    /\ TunnelFault
    /\ conn' = [conn EXCEPT ![c] = "done"]
    /\ Cancel(c)
    /\ UNCHANGED <<leaseVars, tables, session, list, worker, doubled, unheard>>

\* cliSessionTTL is three ping intervals: the key outlives every open connection.
KeyLapses ==
    /\ session # None /\ \A c \in Sockets : conn[c] # "on"
    /\ session' = None
    /\ UNCHANGED <<leaseVars, tables, list, worker, tunnel, history, used>>

KeyLost ==
    /\ session # None /\ \E c \in Sockets : conn[c] = "on"
    /\ TunnelFault
    /\ session' = None
    /\ UNCHANGED <<leaseVars, tables, list, worker, tunnel, history>>

\* BLPOP.
Pop(c) ==
    /\ conn[c] = "on" /\ popped[c] = None /\ list # <<>>
    /\ popped' = [popped EXCEPT ![c] = Head(list)]
    /\ list' = Tail(list)
    /\ UNCHANGED <<leaseVars, tables, session, worker, conn, job, chan, frames,
                   history, used>>

\* sem has room: a goroutine for the event.  Slots are alike.
Spawn(c) ==
    LET free == {s \in Slots : job[c][s] = Idle}
    IN  /\ conn[c] = "on" /\ popped[c] # None /\ free # {}
        /\ job' = [job EXCEPT ![c][CHOOSE s \in free : TRUE] =
                      [Idle EXCEPT !.pc = "load", !.ev = popped[c]]]
        /\ popped' = [popped EXCEPT ![c] = None]
        /\ UNCHANGED <<leaseVars, tables, session, list, worker, conn, chan, frames, history, used>>

-----------------------------------------------------------------------------
(* dispatchEventToCLI, one goroutine.  The attempts table is left out: its  *)
(* numbering is Deliver's subject.                                          *)

JobGoto(c, s, label) == job' = [job EXCEPT ![c][s].pc = label]

\* Mutant of PendingAdd: the frame leaves before a channel is registered for it.
PendingAddLate(c, s, e) == UNCHANGED chan

\* pending.add, over whatever channel the event has.
PendingAdd(c, s, e) == chan' = [chan EXCEPT ![c][e] = s]

\* The row and the body are read, without a look at the status, and the row is
\* marked; the error of the mark is ignored.  The channel is the goroutine's next
\* step and nobody asks for it before the frame is out.
JobLoad(c, s) ==
    LET e == job[c][s].ev
    IN  /\ job[c][s].pc = "load"
        /\ \/ TrySetStatus(e, "in_flight") /\ PendingAdd(c, s, e) /\ JobGoto(c, s, "write")
           \/ /\ TunnelFault
              /\ job' = [job EXCEPT ![c][s] = Idle]
              /\ UNCHANGED <<status, stale, chan>>
        /\ UNCHANGED <<leaseVars, old, session, list, worker, conn, popped, frames, history>>

SendFrame(c, e) == frames' = [frames EXCEPT ![c][e] = @ + 1]

\* Return: the deferred pending.remove goes by event id; sem has room again.
Finish(c, s) ==
    /\ job' = [job EXCEPT ![c][s] = Idle]
    /\ chan' = [chan EXCEPT ![c][job[c][s].ev] = None]

JobWrite(c, s) ==
    /\ job[c][s].pc = "write"
    /\ SendFrame(c, job[c][s].ev)
    /\ JobGoto(c, s, "wait")
    /\ UNCHANGED <<leaseVars, tables, session, list, worker, conn, popped, chan, history, used>>

\* recordCLIFailure; a failed frame is terminal as well.
JobWriteFails(c, s) ==
    /\ job[c][s].pc = "write"
    /\ TunnelFault
    /\ SetStatus(job[c][s].ev, "failed")
    /\ Finish(c, s)
    /\ UNCHANGED <<leaseVars, old, session, list, worker, conn, popped, frames, history>>

\* The CLI forwards to the local server and answers with a status or an error.
\* runTunnel starts one goroutine per event frame: answers come in any order.
Forward(c, e, r) ==
    /\ conn[c] = "on" /\ frames[c][e] > 0 /\ r \in Results
    /\ frames' = [frames EXCEPT ![c][e] = @ - 1]

\* A goroutine of c that sent a frame for e and still waits for the answer.
Waits(c, e) ==
    \E s \in Slots : job[c][s].pc = "wait" /\ job[c][s].ev = e /\ job[c][s].resp = None

\* The reader: pending.pop, then a send on a channel with room for one.
Reader(c, e, r) ==
    LET s == chan[c][e]
    IN  /\ Forward(c, e, r)
        /\ IF s = None
           THEN /\ unheard' = IF Waits(c, e) THEN unheard \cup {e} ELSE unheard
                /\ UNCHANGED <<job, chan>>
           ELSE /\ job' = [job EXCEPT ![c][s].resp = r]
                /\ chan' = [chan EXCEPT ![c][e] = None]
                /\ UNCHANGED unheard
        /\ UNCHANGED <<leaseVars, tables, session, list, worker, conn, popped, doubled,
                       overwritten, used>>

\* The select, and the write it leads to.  An answer: MarkEventDelivered or
\* MarkEventFailed; a CLI delivery has no retries.
JobSettle(c, s) ==
    /\ job[c][s].pc = "wait" /\ job[c][s].resp # None
    /\ TrySetStatus(job[c][s].ev, IF job[c][s].resp = "ok" THEN "delivered" ELSE "failed")
    /\ Finish(c, s)
    /\ UNCHANGED <<leaseVars, old, session, list, worker, conn, popped, frames, history>>

\* cliResponseTimeout, even if an answer is in the channel by now.
JobTimeout(c, s) ==
    /\ job[c][s].pc = "wait"
    /\ TrySetStatus(job[c][s].ev, "failed")
    /\ Finish(c, s)
    /\ UNCHANGED <<leaseVars, old, session, list, worker, conn, popped, frames, history>>

-----------------------------------------------------------------------------
(* Time. *)

rest == <<tables, session, list, worker, tunnel, history>>

Recoverer == Reclaim /\ UNCHANGED <<rest, used>>
OrphanLapses == (\E m \in leased : m # hold /\ Lapse(m)) /\ UNCHANGED <<rest, used>>
LeaseOverrun == hold # None /\ Lapse(hold) /\ TunnelFault /\ UNCHANGED rest

\* reapCliStuckAfter exceeds cliResponseTimeout, counted from MarkEventInFlight:
\* a row does not age as in_flight while a goroutine of an open connection has it.
\* Both windows exceed cliSessionTTL.
Ages(e) ==
    /\ status[e] \in {"queued", "in_flight"} /\ ~stale[e]
    /\ status[e] = "in_flight" => \A c \in Sockets : ~Serving(c, e)
    /\ session # None => \E c \in Sockets : conn[c] = "on"
    /\ stale' = [stale EXCEPT ![e] = TRUE]
    /\ UNCHANGED <<leaseVars, status, old, session, list, worker, tunnel,
                   history, used>>

WaitsTooLong(e) ==
    /\ status[e] = "queued" /\ ~old[e]
    /\ old' = [old EXCEPT ![e] = TRUE]
    /\ UNCHANGED <<leaseVars, status, stale, session, list, worker, tunnel,
                   history, used>>

-----------------------------------------------------------------------------
WorkerStep ==
    \/ Pick \/ LoadEvent \/ Route \/ MarkEventDiscarded \/ ResetEventForRetry \/ Defer
    \/ PushDispatch \/ AckStep

Dispatch(c, s) ==
    \/ JobLoad(c, s) \/ JobWrite(c, s) \/ JobWriteFails(c, s)
    \/ JobSettle(c, s) \/ JobTimeout(c, s)

Connection(c) == Release(c) \/ Pop(c) \/ Spawn(c)

TunnelNext ==
    \/ \E e \in Events : \/ CreateEvent(e) \/ RetryEvent(e) \/ ClaimStuck(e)
                         \/ Ages(e) \/ WaitsTooLong(e)
    \/ WorkerStep \/ Abandon
    \/ Recoverer \/ OrphanLapses \/ LeaseOverrun \/ KeyLapses \/ KeyLost
    \/ \E c \in Sockets : \/ Connect(c) \/ Ping(c) \/ Disconnect(c) \/ ServerDies(c) \/ Connection(c)
                          \/ \E e \in Events, r \in Results : Reader(c, e, r)
                          \/ \E s \in Slots : Dispatch(c, s)

TunnelSpec == TunnelInit /\ [][TunnelNext]_tunnelVars

\* Worker, reaper, recoverer, ping and dispatch loops turn for ever; every call
\* in them has a bounded wait; time passes.  Nothing is assumed of the CLI.  What
\* each loop does is finite, so that fairness of groups is enough.
TunnelFairSpec ==
    /\ TunnelSpec
    /\ WF_tunnelVars(WorkerStep)
    /\ WF_tunnelVars(Recoverer \/ OrphanLapses \/ KeyLapses)
    /\ WF_tunnelVars(\E e \in Events : ClaimStuck(e) \/ Ages(e))
    /\ WF_tunnelVars(\E e \in Events : WaitsTooLong(e))
    /\ WF_tunnelVars(\E c \in Sockets : Ping(c))
    /\ WF_tunnelVars(\E c \in Sockets : Connection(c) \/ \E s \in Slots : Dispatch(c, s))

-----------------------------------------------------------------------------
(* Properties. *)

\* The pending map routes answers by event id, registered before the frame goes
\* out and removed by a defer: on an open connection no answer misses the
\* goroutine that waits for it.  Only when the event was in the system twice can
\* one goroutine take the other's channel away.
AnswersHeard == \A e \in unheard : e \in doubled \/ used.faults > 0

\* A delivered event stays delivered (dispatchEventToCLI never looks at the
\* status, and a timeout overwrites it): what undoes it is a user's retry, a copy
\* that entered the queue while another was about, or a failed call.
DeliveredStays ==
    [][\A e \in Events :
          status[e] = "delivered" /\ status'[e] # "delivered"
              => e \in doubled' \/ used.faults > 0 \/ RetryEvent(e)]_tunnelVars

\* A connection does not lose its registration to the teardown of an older one:
\* an open connection without a key had its registration replaced by one that was
\* open at the same time, or Redis lost the key.
KeySurvives ==
    \A c \in Sockets :
        conn[c] = "on" /\ session = None => c \in overwritten \/ used.faults > 0

\* What a goroutine or a connection has registered, in the pending map or under the
\* session key, is not taken away by the end of another one (dispatchEventToCLI's
\* deferred remove, Connect's deferred release).
RegistrationsKept == TunnelTypeOK /\ AnswersHeard /\ KeySurvives

Invisible == session = None /\ \E c \in Sockets : conn[c] = "on"

\* "bounds any invisibility window to one ping interval": an open connection does
\* not stay invisible to the workers.
VisibleAgain == Invisible ~> ~Invisible

\* Whatever connection, worker or call fails with the event in its hands, it is
\* delivered, failed or discarded in the end.
EventuallySettled ==
    \A e \in Events : status[e] \in {"queued", "in_flight"} ~> status[e] \in Terminal

=============================================================================
