------------------------------ MODULE Capture ------------------------------
(***************************************************************************)
(* Packet captures: handlers/capture.go and database/postgres_captures.go. *)
(*                                                                         *)
(* One handler owns the flag "running", the cancel function of the capture *)
(* started last and the statistics, which every capture goroutine updates. *)
(* A session is a row of capture_sessions and the run that fills it: the   *)
(* tcpdump process, the packet being read and the batch not stored yet.    *)
(***************************************************************************)
EXTENDS Integers, FiniteSets

CONSTANTS
    MaxSessions, \* bound: captures started
    MaxPackets,  \* CAPTURE_MAX_PACKETS
    MaxBytes,    \* CAPTURE_MAX_BYTES
    MaxStops     \* bound: Stop requests

ASSUME CaptureAssumption == {MaxSessions, MaxPackets, MaxBytes, MaxStops} \subseteq Nat \ {0}

VARIABLES
    running,   \* CaptureHandler.running
    cancelOf,  \* the session whose context CaptureHandler.cancel ends, 0: nil
    stats,     \* CaptureHandler.stats
    session,   \* the rows and their runs
    stop,      \* the Stop request under way
    stops      \* Stop requests so far (history)

captureVars == <<running, cancelOf, stats, session, stop, stops>>

SessionIds == 1..MaxSessions

\* parseTcpdumpHeader: a packet's length is never 0.
PacketLengths == {1, 2}

\* shared: another capture was started while this one was not over (history).
NoSession == [status |-> "none", pc |-> "none", ctxDone |-> FALSE, alive |-> FALSE, current |-> 0,
              batch |-> 0, stored |-> 0, shared |-> FALSE]
NoStats == [packets |-> 0, bytes |-> 0]
NoStop == [pc |-> "idle", id |-> 0, packets |-> 0]

CaptureTypeOK ==
    /\ running \in BOOLEAN /\ cancelOf \in 0..MaxSessions
    /\ stats.packets \in Nat /\ stats.bytes \in Nat
    /\ \A i \in SessionIds :
         /\ session[i].status \in {"none", "running", "stopped", "error"}
         /\ session[i].pc \in {"none", "claimed", "created", "launch", "read", "flush", "wait", "report", "over"}
         /\ session[i].current \in {0} \cup PacketLengths
    /\ stop.pc \in {"idle", "cancelled", "stored"} /\ stops \in 0..MaxStops

CaptureInit ==
    /\ running = FALSE /\ cancelOf = 0 /\ stats = NoStats
    /\ session = [i \in SessionIds |-> NoSession] /\ stop = NoStop /\ stops = 0

-----------------------------------------------------------------------------
Set(i, s) == session' = [session EXCEPT ![i] = s]

Live(i) == session[i].pc \notin {"none", "over"}

\* Start: the flag admits one capture.  Ids are given out in order.
ClaimStart(i) ==
    /\ session[i].pc = "none" /\ \A j \in 1..(i - 1) : session[j].pc # "none"
    /\ ~running /\ running' = TRUE
    /\ Set(i, [session[i] EXCEPT !.pc = "claimed"])
    /\ UNCHANGED <<cancelOf, stats, stop, stops>>

\* CreateCaptureSession; its failure gives the flag back.
CreateSession(i) ==
    /\ session[i].pc = "claimed"
    /\ \/ Set(i, [session[i] EXCEPT !.pc = "created", !.status = "running"]) /\ UNCHANGED running
       \/ Set(i, [session[i] EXCEPT !.pc = "over"]) /\ running' = FALSE
    /\ UNCHANGED <<cancelOf, stats, stop, stops>>

\* The statistics start at zero, the new cancel function replaces the last one,
\* and runCapture is started.
LaunchCapture(i) ==
    /\ session[i].pc = "created"
    /\ stats' = NoStats /\ cancelOf' = i
    /\ session' = [j \in SessionIds |->
                     IF j = i THEN [session[j] EXCEPT !.pc = "launch", !.shared = \E k \in SessionIds \ {i} : Live(k)]
                     ELSE [session[j] EXCEPT !.shared = @ \/ Live(j)]]
    /\ UNCHANGED <<running, stop, stops>>

\* Stop takes any id.  It cancels the capture started last,
StopCancel(i) ==
    /\ stop.pc = "idle" /\ stops < MaxStops /\ session[i].pc # "none"
    /\ session' = IF cancelOf = 0 THEN session ELSE [session EXCEPT ![cancelOf].ctxDone = TRUE]
    /\ stop' = [NoStop EXCEPT !.pc = "cancelled", !.id = i] /\ stops' = stops + 1
    /\ UNCHANGED <<running, cancelOf, stats>>

\* then StopCaptureSession marks the row of that id,
StopStore ==
    /\ stop.pc = "cancelled"
    /\ \/ /\ session' = [session EXCEPT ![stop.id].status = IF @ = "none" THEN "none" ELSE "stopped"]
          /\ stop' = [stop EXCEPT !.pc = "stored"]
       \/ stop' = NoStop /\ UNCHANGED session
    /\ UNCHANGED <<running, cancelOf, stats, stops>>

\* then the flag is given back.
StopRelease ==
    /\ stop.pc = "stored"
    /\ running' = FALSE /\ stop' = NoStop
    /\ UNCHANGED <<cancelOf, stats, session, stops>>

\* CaptureHandler.Shutdown cancels the capture started last and waits for all.
ShutdownCapture ==
    /\ cancelOf # 0 /\ ~session[cancelOf].ctxDone
    /\ session' = [session EXCEPT ![cancelOf].ctxDone = TRUE]
    /\ UNCHANGED <<running, cancelOf, stats, stop, stops>>

-----------------------------------------------------------------------------
\* stopSession of the run: the row, then the flag.
StopSession(i, status, s) ==
    /\ Set(i, [s EXCEPT !.status = status, !.pc = "report"])
    /\ UNCHANGED <<running, cancelOf, stats, stop, stops>>

Report(i) ==
    /\ session[i].pc = "report"
    /\ running' = FALSE
    /\ Set(i, [session[i] EXCEPT !.pc = "over"])
    /\ UNCHANGED <<cancelOf, stats, stop, stops>>

\* tcpdump starts, or the session ends with an error.
StartTcpdump(i) ==
    /\ session[i].pc = "launch"
    /\ \/ /\ Set(i, [session[i] EXCEPT !.pc = "read", !.alive = ~session[i].ctxDone])
          /\ UNCHANGED <<running, cancelOf, stats, stop, stops>>
       \/ StopSession(i, "error", session[i])

\* finalizePacket: the packet is counted, and kept unless the bytes reach the
\* limit; a packet over the limit stays current and is counted again.
Counted(st, s) ==
    IF s.current = 0 THEN st
    ELSE [packets |-> st.packets + 1, bytes |-> st.bytes + s.current]

OverBytes(st, s) == s.current # 0 /\ Counted(st, s).bytes >= MaxBytes

Finalized(st, s) ==
    IF s.current = 0 \/ OverBytes(st, s) THEN s
    ELSE [s EXCEPT !.batch = @ + 1, !.current = 0]

\* flushBatch: an insert under an ended context fails and the packet is lost.
Flushed(s) == [s EXCEPT !.stored = IF s.ctxDone THEN @ ELSE @ + s.batch, !.batch = 0]

QuotaReached(n) == n >= MaxPackets

\* A header line: the packet before it is finished, the limits are looked at
\* and the new packet becomes current; the batch timer may have expired; an
\* ended context ends the run here, whatever ended it.
ReadLine(i, length) ==
    /\ session[i].pc = "read"
    /\ LET before == Counted(stats, session[i])
           f == Finalized(stats, session[i])
           full == OverBytes(stats, session[i]) \/ QuotaReached(before.packets)
           n == [f EXCEPT !.current = length]
       IN \/ /\ full /\ stats' = before /\ Set(i, [f EXCEPT !.pc = "flush"])
          \/ /\ ~full /\ ~session[i].ctxDone
             /\ \/ stats' = before /\ Set(i, n)
                \/ stats' = Counted(before, n) /\ Set(i, Flushed(Finalized(before, n)))
          \/ /\ ~full /\ session[i].ctxDone
             /\ stats' = Counted(before, n)
             /\ Set(i, [Flushed(Finalized(before, n)) EXCEPT !.pc = "over", !.current = 0])
    /\ UNCHANGED <<running, cancelOf, stop, stops>>

\* The output ends.
EndOfOutput(i) ==
    /\ session[i].pc = "read" /\ ~session[i].alive
    /\ Set(i, [session[i] EXCEPT !.pc = "flush"])
    /\ UNCHANGED <<running, cancelOf, stats, stop, stops>>

LastFlush(i) ==
    /\ session[i].pc = "flush"
    /\ stats' = Counted(stats, session[i])
    /\ Set(i, [Flushed(Finalized(stats, session[i])) EXCEPT !.pc = "wait", !.current = 0])
    /\ UNCHANGED <<running, cancelOf, stop, stops>>

\* cmd.Wait: the run reports an error, or stops the session if the flag is set,
\* whose capture it belongs to by now or not.
WaitTcpdump(i) ==
    /\ session[i].pc = "wait" /\ ~session[i].alive
    /\ \/ ~session[i].ctxDone /\ StopSession(i, "error", session[i])
       \/ running /\ StopSession(i, "stopped", session[i])
       \/ /\ ~running /\ Set(i, [session[i] EXCEPT !.pc = "over"])
          /\ UNCHANGED <<running, cancelOf, stats, stop, stops>>

\* Seeded fault: nobody kills the process of an ended context.
KillNever(i) == session[i].alive /\ FALSE /\ UNCHANGED captureVars

\* The goroutine that kills tcpdump when the context ends.
Kill(i) ==
    /\ session[i].alive /\ session[i].ctxDone
    /\ Set(i, [session[i] EXCEPT !.alive = FALSE])
    /\ UNCHANGED <<running, cancelOf, stats, stop, stops>>

\* tcpdump exits by itself.
TcpdumpExits(i) ==
    /\ session[i].alive
    /\ Set(i, [session[i] EXCEPT !.alive = FALSE])
    /\ UNCHANGED <<running, cancelOf, stats, stop, stops>>

\* CAPTURE_MAX_DURATION_SEC: the context of the run expires.
DurationLimit(i) ==
    /\ session[i].pc \in {"read", "flush", "wait"} /\ ~session[i].ctxDone
    /\ Set(i, [session[i] EXCEPT !.ctxDone = TRUE])
    /\ UNCHANGED <<running, cancelOf, stats, stop, stops>>

RunStep(i) ==
    \/ StartTcpdump(i) \/ (\E n \in PacketLengths : ReadLine(i, n))
    \/ EndOfOutput(i) \/ LastFlush(i) \/ WaitTcpdump(i) \/ Report(i)

CaptureNext ==
    \/ StopStore \/ StopRelease \/ ShutdownCapture
    \/ \E i \in SessionIds : \/ ClaimStart(i) \/ CreateSession(i) \/ LaunchCapture(i) \/ StopCancel(i)
                             \/ RunStep(i) \/ Kill(i) \/ TcpdumpExits(i) \/ DurationLimit(i)

\* The request and then the run of a session go on; tcpdump need not exit or read.
GoesOn(i) ==
    \/ CreateSession(i) \/ LaunchCapture(i) \/ StartTcpdump(i) \/ EndOfOutput(i)
    \/ LastFlush(i) \/ WaitTcpdump(i) \/ Report(i)

\* Every goroutine goes on and the timers expire.
CaptureFairness ==
    \A i \in SessionIds :
      WF_captureVars(GoesOn(i)) /\ WF_captureVars(Kill(i)) /\ WF_captureVars(DurationLimit(i))

CaptureSpec == CaptureInit /\ [][CaptureNext]_captureVars /\ CaptureFairness

-----------------------------------------------------------------------------
\* capture.go:424-433, 398-413: a session never stores more packets than the
\* limit, unless another capture reset the statistics both of them count in.
QuotaKept == \A i \in SessionIds : ~session[i].shared => session[i].stored <= MaxPackets

\* capture.go:296-301, 323-328, 468-477: with a duration limit every capture
\* comes to an end and its tcpdump with it: at the packet or byte limit the run
\* waits for a process that only the end of its context kills.
EveryCaptureEnds ==
    \A i \in SessionIds : (session[i].pc = "launch") ~> (session[i].pc = "over" /\ ~session[i].alive)

\* A capture keeps its quota and ends, its process with it (capture.go).
CaptureCorrect ==
    /\ [](CaptureTypeOK /\ QuotaKept)
    /\ EveryCaptureEnds
=============================================================================
