--------------------------- MODULE CollectProofs ---------------------------
(***************************************************************************)
(* Proofs that ResultPipeline satisfies ResultsSafe, for any number of     *)
(* polls, devices and workers, every size of the channel and of a batch,   *)
(* and any number of failing statements, and that the lock of RedisState   *)
(* excludes a second poll, for any number of server instances, every       *)
(* expiry, poll deadline and number of failures and crashes, that an       *)
(* instance of FleetSync waits out its grace period, however long it is,   *)
(* and that a packet capture of Capture keeps its quota, for all limits.   *)
(*                                                                         *)
(* A result that was submitted is in one place: one position of the        *)
(* channel, one of the batch, or it has been processed.  Stop leaves none  *)
(* behind because nothing is submitted once the run context is cancelled   *)
(* and the channel is empty from the last flush on.  The latest result of  *)
(* a device in a batch exists because a poll ends once.                    *)
(*                                                                         *)
(* A poll under the lock and the lock age together, so that the lock is    *)
(* still there while the poll is younger than the expiry.                  *)
(*                                                                         *)
(* A capture alone has the statistics to itself: what it has stored and    *)
(* not yet stored is counted there, and it reads on only below the limit.  *)
(***************************************************************************)
EXTENDS ResultPipeline, RedisState, FleetSync, Capture, FiniteSetTheorems, SequenceTheorems,
        WellFoundedInduction, TLAPS

-----------------------------------------------------------------------------
(* ResultPipeline. *)

\* The sequence s has no element twice.
Once(s) == \A i, j \in 1..Len(s) : s[i] = s[j] => i = j

Held(p) == p \in Elements(resultCh) \/ p \in Elements(batch)

\* History and the device rows, which show submitted results only.
RowsOK ==
    /\ row \in [Devices -> Polls \cup {NoPoll}] /\ processed \in [Polls -> {0, 1}]
    /\ \A d \in Devices : row[d] # NoPoll => stage[row[d]] = "sent"

\* No result is in two places on its way.
ApartOK ==
    /\ Once(resultCh) /\ Once(batch)
    /\ \A p \in Polls : ~(p \in Elements(resultCh) /\ p \in Elements(batch))

\* A submitted result is on its way or has been processed, not both.
SentOK ==
    \A p \in Polls :
        /\ Held(p) => stage[p] = "sent" /\ processed[p] = 0
        /\ processed[p] = 1 => stage[p] = "sent"
        /\ stage[p] = "sent" => Held(p) \/ processed[p] = 1

Processing == {"metrics", "statuses", "alerts"}

\* Between batches there is no batch, and from the last flush on no result.
WriterOK ==
    /\ writer.pc = "select" => Len(batch) < BatchSize
    /\ writer.pc \in {"flush", "exit", "returned"} => batch = <<>> /\ writer.next = writer.pc
    /\ writer.next # "select" => cancelled
    /\ writer.pc = "select" => writer.next = "select"
    /\ writer.next \in {"exit", "returned"} => resultCh = <<>>

\* Once the context of run is cancelled nothing is submitted any more.
StopOK ==
    /\ cancelled => sched \in {"flushing", "stopped"}
    /\ sched \in {"flushing", "stopped"} => WorkersIdle
    /\ sched = "stopped" => writer.pc = "returned"

\* A poll ends once, and a device that answers is down only for a poll whose
\* context is cut off and that has not looked at it yet.
EndedOnce ==
    /\ Once(finished)
    /\ \A p \in Elements(finished) : stage[p] \notin {"idle", "running", "collected"}
    /\ \A p \in Polls : status[p] = "down" /\ p \in answers => stage[p] = "collected" /\ pollsCut

PipelineInv == TypeOK /\ RowsOK /\ ApartOK /\ SentOK /\ WriterOK /\ StopOK /\ EndedOnce

-----------------------------------------------------------------------------
(* Sequences. *)

LEMMA ElementsType ==
    ASSUME NEW s \in Seq(Polls)
    PROVE  Elements(s) \subseteq Polls /\ (s = <<>> <=> Elements(s) = {})
  <1>1. \A i \in 1..Len(s) : s[i] \in Polls
    OBVIOUS
  <1>2. s # <<>> => 1 \in 1..Len(s)
    BY EmptySeq, LenProperties
  <1>3. s = <<>> => Elements(s) = {}
    BY DEF Elements
  <1> QED
    BY <1>1, <1>2, <1>3 DEF Elements

LEMMA EmptyOnce == Elements(<<>>) = {} /\ Once(<<>>) /\ Len(<<>>) = 0 /\ <<>> \in Seq(Polls)
  BY DEF Elements, Once

LEMMA AppendElements ==
    ASSUME NEW s \in Seq(Polls), NEW p \in Polls
    PROVE  /\ Append(s, p) \in Seq(Polls) /\ Len(Append(s, p)) = Len(s) + 1
           /\ Elements(Append(s, p)) = Elements(s) \cup {p}
           /\ (Once(s) /\ p \notin Elements(s)) => Once(Append(s, p))
  <1>1. PICK t : t = Append(s, p)
    OBVIOUS
  <1>2. /\ t \in Seq(Polls) /\ Len(t) = Len(s) + 1 /\ t[Len(s) + 1] = p /\ Len(s) \in Nat
        /\ \A i \in 1..Len(s) : t[i] = s[i]
    BY <1>1, AppendProperties, LenProperties
  <1>3. 1..Len(t) = (1..Len(s)) \cup {Len(s) + 1}
    BY <1>2
  <1>4. Elements(t) = Elements(s) \cup {p}
    BY <1>2, <1>3 DEF Elements
  <1>5. (Once(s) /\ p \notin Elements(s)) => Once(t)
    BY <1>2, <1>3 DEF Once, Elements
  <1> QED
    BY <1>1, <1>2, <1>4, <1>5

LEMMA TailElements ==
    ASSUME NEW s \in Seq(Polls), s # <<>>
    PROVE  /\ Head(s) \in Elements(s) /\ Head(s) \in Polls
           /\ Tail(s) \in Seq(Polls) /\ Len(Tail(s)) = Len(s) - 1
           /\ Elements(s) = Elements(Tail(s)) \cup {Head(s)}
           /\ Once(s) => Once(Tail(s)) /\ Head(s) \notin Elements(Tail(s))
  <1>1. PICK t, h : t = Tail(s) /\ h = Head(s)
    OBVIOUS
  <1>2. /\ t \in Seq(Polls) /\ Len(t) = Len(s) - 1 /\ h = s[1] /\ Len(s) \in Nat /\ Len(s) >= 1
        /\ \A i \in 1..Len(t) : t[i] = s[i + 1]
    BY <1>1, HeadTailProperties, EmptySeq, LenProperties
  <1>3. /\ 1 \in 1..Len(s) /\ \A i \in 1..Len(t) : i + 1 \in 1..Len(s) /\ i + 1 # 1
        /\ \A j \in 1..Len(s) : j # 1 => j - 1 \in 1..Len(t) /\ (j - 1) + 1 = j
    BY <1>2
  <1>4. h \in Elements(s)
    BY <1>2, <1>3 DEF Elements
  <1>5. Elements(s) = Elements(t) \cup {h}
    <2>1. ASSUME NEW x \in Elements(s) PROVE x \in Elements(t) \cup {h}
      <3>1. PICK j \in 1..Len(s) : s[j] = x
        BY <2>1 DEF Elements
      <3>2. CASE j = 1
        BY <3>1, <3>2, <1>2
      <3>3. CASE j # 1
        <4>1. t[j - 1] = x /\ j - 1 \in 1..Len(t)
          BY <3>1, <3>3, <1>2, <1>3
        <4> QED
          BY <4>1 DEF Elements
      <3> QED
        BY <3>2, <3>3
    <2>2. ASSUME NEW x \in Elements(t) PROVE x \in Elements(s)
      <3>1. PICK i \in 1..Len(t) : t[i] = x
        BY <2>2 DEF Elements
      <3>2. s[i + 1] = x /\ i + 1 \in 1..Len(s)
        BY <3>1, <1>2, <1>3
      <3> QED
        BY <3>2 DEF Elements
    <2> QED
      BY <2>1, <2>2, <1>4
  <1>6. Once(s) => Once(t) /\ h \notin Elements(t)
    <2> SUFFICES ASSUME Once(s) PROVE Once(t) /\ h \notin Elements(t)
      OBVIOUS
    <2>1. ASSUME NEW i \in 1..Len(t), NEW j \in 1..Len(t), t[i] = t[j] PROVE i = j
      <3>1. s[i + 1] = s[j + 1] /\ i + 1 \in 1..Len(s) /\ j + 1 \in 1..Len(s)
        BY <2>1, <1>2, <1>3
      <3>2. i + 1 = j + 1
        BY <3>1 DEF Once
      <3> QED
        BY <3>2, <1>2
    <2>2. ASSUME NEW i \in 1..Len(t), t[i] = h PROVE FALSE
      <3>1. s[i + 1] = s[1] /\ i + 1 \in 1..Len(s) /\ 1 \in 1..Len(s) /\ i + 1 # 1
        BY <2>2, <1>2, <1>3
      <3> QED
        BY <3>1 DEF Once
    <2> QED
      BY <2>1, <2>2 DEF Once, Elements
  <1>7. h \in Polls
    BY <1>4, ElementsType
  <1> QED
    BY <1>1, <1>2, <1>4, <1>5, <1>6, <1>7

\* How often a poll is in a batch that has none twice.
LEMMA CountOnce ==
    ASSUME NEW s \in Seq(Polls), Once(s), NEW p
    PROVE  Cardinality({i \in 1..Len(s) : s[i] = p}) = IF p \in Elements(s) THEN 1 ELSE 0
  <1>1. CASE p \in Elements(s)
    <2>1. PICK i \in 1..Len(s) : s[i] = p
      BY <1>1 DEF Elements
    <2>2. {j \in 1..Len(s) : s[j] = p} = {i}
      BY <2>1 DEF Once
    <2> QED
      BY <1>1, <2>2, FS_Singleton
  <1>2. CASE p \notin Elements(s)
    <2>1. {j \in 1..Len(s) : s[j] = p} = {}
      BY <1>2 DEF Elements
    <2> QED
      BY <1>2, <2>1, FS_EmptySet
  <1> QED
    BY <1>1, <1>2

-----------------------------------------------------------------------------
LEMMA PipelineInvInit == Init => PipelineInv
  <1> SUFFICES ASSUME Init PROVE PipelineInv
    OBVIOUS
  <1>1. PICK no \in BOOLEAN : no = FALSE
    OBVIOUS
  <1>2. writer = [pc |-> "select", fresh |-> no, next |-> "select"]
    BY <1>1 DEF Init
  <1>3. TypeOK
    <2>1. writer \in [pc : {"select", "metrics", "statuses", "alerts", "flush", "exit", "returned"},
                      fresh : BOOLEAN, next : {"select", "flush", "exit", "returned"}]
      BY <1>2
    <2>2. Len(resultCh) <= ChanSize /\ Len(batch) <= IF BatchSize > ChanSize THEN BatchSize ELSE ChanSize
      BY EmptyOnce, PipelineAssumption DEF Init
    <2>3. /\ stage \in [Polls -> {"idle", "running", "collected", "submit", "sent", "dropped", "skipped"}]
          /\ status \in [Polls -> {"up", "down", "none"}]
      BY DEF Init
    <2>4. /\ finished \in Seq(Polls) /\ resultCh \in Seq(Polls) /\ batch \in Seq(Polls)
          /\ sched \in {"running", "draining", "flushing", "stopped"}
      BY EmptyOnce DEF Init
    <2>5. /\ row \in [Devices -> Polls \cup {NoPoll}] /\ processed \in [Polls -> Nat]
          /\ answers \subseteq Polls /\ saved \subseteq Polls
      BY DEF Init
    <2>6. pollsCut = no /\ cancelled = no
      BY <1>1 DEF Init
    <2>7. faults \in 0..MaxFaults
      BY PipelineAssumption DEF Init
    <2> QED
      BY <2>1, <2>2, <2>3, <2>4, <2>5, <2>6, <2>7 DEF TypeOK
  <1>4. RowsOK
    BY DEF Init, RowsOK
  <1>5. ApartOK
    BY EmptyOnce DEF Init, ApartOK
  <1>6. SentOK
    BY EmptyOnce DEF Init, SentOK, Held
  <1>7. WriterOK
    BY <1>2, EmptyOnce, PipelineAssumption DEF Init, WriterOK
  <1>8. StopOK
    BY <1>2 DEF Init, StopOK
  <1>9. EndedOnce
    BY EmptyOnce DEF Init, EndedOnce
  <1> QED
    BY <1>3, <1>4, <1>5, <1>6, <1>7, <1>8, <1>9 DEF PipelineInv

-----------------------------------------------------------------------------
(* Polls. *)

\* A poll goes on but for its submission.
PollMove(p, s) ==
    /\ stage[p] \in {"idle", "running", "collected", "submit"}
    /\ s \in {"running", "collected", "submit", "dropped", "skipped"}
    /\ stage[p] = "idle" <=> s = "running"
    /\ s = "running" => sched = "running"
    /\ stage' = [stage EXCEPT ![p] = s]
    /\ UNCHANGED <<answers, resultCh, batch, writer, sched, pollsCut, cancelled, dbVars>>

LEMMA PollMoves ==
    ASSUME PipelineInv, NEW p \in Polls, NEW s, PollMove(p, s)
    PROVE  /\ stage' \in [Polls -> {"idle", "running", "collected", "submit", "sent", "dropped", "skipped"}]
           /\ stage'[p] = s /\ \A q \in Polls : q # p => stage'[q] = stage[q]
           /\ RowsOK' /\ ApartOK' /\ SentOK' /\ WriterOK' /\ StopOK'
  <1> USE DEF PollMove
  <1>1. /\ stage' \in [Polls -> {"idle", "running", "collected", "submit", "sent", "dropped", "skipped"}]
        /\ stage'[p] = s /\ \A q \in Polls : q # p => stage'[q] = stage[q]
    BY DEF PipelineInv, TypeOK
  <1>2. Elements(resultCh)' = Elements(resultCh) /\ Elements(batch)' = Elements(batch)
    BY DEF Elements
  <1>3. RowsOK'
    <2>1. UNCHANGED <<row, processed>> /\ stage[p] # "sent"
      BY DEF dbVars
    <2> QED
      BY <1>1, <2>1 DEF PipelineInv, RowsOK, TypeOK
  <1>4. ApartOK'
    BY <1>2 DEF PipelineInv, ApartOK, Once
  <1>5. SentOK'
    BY <1>1, <1>2 DEF PipelineInv, SentOK, Held, dbVars
  <1>6. WriterOK'
    BY DEF PipelineInv, WriterOK
  <1>7. StopOK'
    <2>1. s \in AtWorker => ~WorkersIdle \/ sched = "running"
      BY DEF WorkersIdle, AtWorker
    <2>2. WorkersIdle => WorkersIdle' \/ sched = "running"
      BY <1>1, <2>1 DEF WorkersIdle
    <2> QED
      BY <2>2 DEF PipelineInv, StopOK
  <1> QED
    BY <1>1, <1>3, <1>4, <1>5, <1>6, <1>7

LEMMA QuietPollKeeps ==
    ASSUME PipelineInv, NEW p \in Polls, NEW s, PollMove(p, s), stage[p] # "collected", s # "collected",
           UNCHANGED <<status, finished>>
    PROVE  PipelineInv'
  <1>1. /\ stage' \in [Polls -> {"idle", "running", "collected", "submit", "sent", "dropped", "skipped"}]
        /\ stage'[p] = s /\ \A q \in Polls : q # p => stage'[q] = stage[q]
        /\ RowsOK' /\ ApartOK' /\ SentOK' /\ WriterOK' /\ StopOK'
    BY PollMoves
  <1>2. TypeOK'
    BY <1>1 DEF PipelineInv, TypeOK, PollMove, dbVars
  <1>3. EndedOnce'
    <2>1. Elements(finished') = Elements(finished) /\ Elements(finished) \subseteq Polls
      BY ElementsType DEF Elements, PipelineInv, TypeOK
    <2>2. \A q \in Elements(finished') : stage'[q] \notin {"idle", "running", "collected"}
      BY <1>1, <2>1 DEF PipelineInv, EndedOnce, PollMove
    <2>3. \A q \in Polls : status'[q] = "down" /\ q \in answers' => stage'[q] = "collected" /\ pollsCut'
      BY <1>1 DEF PipelineInv, EndedOnce, PollMove
    <2> QED
      BY <2>1, <2>2, <2>3 DEF PipelineInv, EndedOnce, Once
  <1> QED
    BY <1>1, <1>2, <1>3 DEF PipelineInv

\* The collector's answer, whatever it is, waits for the look at the context.
LEMMA CollectorReturnsKeeps ==
    ASSUME PipelineInv, NEW p \in Polls, NEW st \in {"up", "down", "none"}, CollectorReturns(p, st)
    PROVE  PipelineInv'
  <1>1. PollMove(p, "collected") /\ stage[p] = "running" /\ UNCHANGED finished
    BY DEF CollectorReturns, PollMove
  <1>2. /\ stage' \in [Polls -> {"idle", "running", "collected", "submit", "sent", "dropped", "skipped"}]
        /\ stage'[p] = "collected" /\ \A q \in Polls : q # p => stage'[q] = stage[q]
        /\ RowsOK' /\ ApartOK' /\ SentOK' /\ WriterOK' /\ StopOK'
    BY <1>1, PollMoves
  <1>3. status' \in [Polls -> {"up", "down", "none"}] /\ status'[p] = st
        /\ \A q \in Polls : q # p => status'[q] = status[q]
    BY DEF CollectorReturns, PipelineInv, TypeOK
  <1>4. TypeOK'
    BY <1>1, <1>2, <1>3 DEF PollMove, PipelineInv, TypeOK, dbVars
  <1>5. EndedOnce'
    <2>1. Elements(finished') = Elements(finished) /\ Elements(finished) \subseteq Polls
      BY <1>1, ElementsType DEF Elements, PipelineInv, TypeOK
    <2>2. \A q \in Elements(finished') : stage'[q] \notin {"idle", "running", "collected"}
      BY <1>1, <1>2, <2>1 DEF PipelineInv, EndedOnce
    <2>3. st = "down" /\ p \in answers => pollsCut
      BY DEF CollectorReturns, Outcomes
    <2>4. \A q \in Polls : status'[q] = "down" /\ q \in answers' => stage'[q] = "collected" /\ pollsCut'
      BY <1>1, <1>2, <1>3, <2>3 DEF PipelineInv, EndedOnce, PollMove
    <2> QED
      BY <1>1, <2>1, <2>2, <2>4 DEF PipelineInv, EndedOnce, Once
  <1> QED
    BY <1>2, <1>4, <1>5 DEF PipelineInv

\* The poll that looks at its context: only one that was not cut off ends.
LEMMA FinishPollKeeps ==
    ASSUME PipelineInv, NEW p \in Polls, FinishPoll(p)
    PROVE  PipelineInv'
  <1>1. PICK s \in {"skipped", "submit"} :
           /\ PollMove(p, s) /\ stage[p] = "collected"
           /\ \/ s = "skipped" /\ status' = [status EXCEPT ![p] = "none"] /\ UNCHANGED finished
              \/ s = "submit" /\ ~pollsCut /\ finished' = Append(finished, p) /\ UNCHANGED status
    BY DEF FinishPoll, PollMove, CutOff
  <1>2. /\ stage' \in [Polls -> {"idle", "running", "collected", "submit", "sent", "dropped", "skipped"}]
        /\ stage'[p] = s /\ \A q \in Polls : q # p => stage'[q] = stage[q]
        /\ RowsOK' /\ ApartOK' /\ SentOK' /\ WriterOK' /\ StopOK'
    BY <1>1, PollMoves
  <1>3. finished \in Seq(Polls) /\ p \notin Elements(finished) /\ Once(finished)
        /\ Elements(finished) \subseteq Polls
    BY <1>1, ElementsType DEF PipelineInv, TypeOK, EndedOnce
  <1>4. /\ finished' \in Seq(Polls) /\ Once(finished')
        /\ Elements(finished') = Elements(finished) \/ (s = "submit" /\ Elements(finished') = Elements(finished) \cup {p})
    <2>1. CASE UNCHANGED finished
      BY <1>3, <2>1 DEF Once, Elements
    <2>2. CASE s = "submit" /\ finished' = Append(finished, p)
      BY <1>3, <2>2, AppendElements
    <2> QED
      BY <1>1, <2>1, <2>2
  <1>5. /\ status' \in [Polls -> {"up", "down", "none"}]
        /\ \A q \in Polls : q # p => status'[q] = status[q]
        /\ s = "skipped" => status'[p] = "none"
        /\ s = "submit" => status'[p] = status[p]
    BY <1>1 DEF PipelineInv, TypeOK
  <1>6. TypeOK'
    BY <1>1, <1>2, <1>4, <1>5 DEF PollMove, PipelineInv, TypeOK, dbVars
  <1>7. EndedOnce'
    <2>1. \A q \in Elements(finished') : stage'[q] \notin {"idle", "running", "collected"}
      BY <1>2, <1>3, <1>4 DEF PipelineInv, EndedOnce
    <2>2. \A q \in Polls : status'[q] = "down" /\ q \in answers' => stage'[q] = "collected" /\ pollsCut'
      BY <1>1, <1>2, <1>5 DEF PollMove, PipelineInv, EndedOnce
    <2> QED
      BY <1>4, <2>1, <2>2 DEF EndedOnce, Once, Elements
  <1> QED
    BY <1>2, <1>6, <1>7 DEF PipelineInv

LEMMA SubmitKeeps ==
    ASSUME PipelineInv, NEW p \in Polls, Submit(p)
    PROVE  PipelineInv'
  <1>1. resultCh \in Seq(Polls) /\ batch \in Seq(Polls) /\ Len(resultCh) \in Nat
    BY DEF PipelineInv, TypeOK
  <1>2. stage[p] = "submit" /\ ~Held(p) /\ processed[p] = 0
    BY DEF Submit, PipelineInv, SentOK, RowsOK
  <1>3. /\ stage' \in [Polls -> {"idle", "running", "collected", "submit", "sent", "dropped", "skipped"}]
        /\ stage'[p] = "sent" /\ \A q \in Polls : q # p => stage'[q] = stage[q]
    BY DEF Submit, PipelineInv, TypeOK
  <1>4. /\ resultCh' \in Seq(Polls) /\ Len(resultCh') = Len(resultCh) + 1 /\ Once(resultCh')
        /\ Elements(resultCh') = Elements(resultCh) \cup {p}
    BY <1>1, <1>2, AppendElements DEF Submit, Held, PipelineInv, ApartOK
  <1>5. TypeOK'
    <2>1. Len(resultCh') <= ChanSize
      BY <1>1, <1>4, PipelineAssumption DEF Submit
    <2> QED
      BY <1>3, <1>4, <2>1 DEF Submit, PipelineInv, TypeOK, dbVars
  <1>6. RowsOK'
    <2>1. UNCHANGED <<row, processed>> /\ stage[p] # "sent"
      BY DEF Submit, dbVars
    <2>2. ASSUME NEW d \in Devices, row'[d] # NoPoll PROVE stage'[row'[d]] = "sent"
      <3>1. row[d] \in Polls /\ stage[row[d]] = "sent" /\ row'[d] = row[d]
        BY <2>1, <2>2 DEF PipelineInv, RowsOK
      <3> QED
        BY <1>3, <2>1, <3>1
    <2> QED
      BY <2>1, <2>2 DEF PipelineInv, RowsOK
  <1>7. batch' = batch /\ Elements(batch') = Elements(batch)
    BY DEF Submit
  <1>8. ApartOK'
    BY <1>2, <1>4, <1>7 DEF PipelineInv, ApartOK, Held, Once, Elements
  <1>9. SentOK'
    <2>1. \A q \in Polls : Held(q)' <=> Held(q) \/ q = p
      BY <1>4, <1>7 DEF Held, Elements
    <2> QED
      BY <1>2, <1>3, <2>1 DEF Submit, PipelineInv, SentOK, dbVars
  <1>10. ~WorkersIdle /\ sched \notin {"flushing", "stopped"} /\ ~cancelled
    BY <1>2 DEF PipelineInv, StopOK, WorkersIdle, AtWorker
  <1>11. WriterOK'
    BY <1>10 DEF Submit, PipelineInv, WriterOK
  <1>12. StopOK'
    BY <1>10 DEF Submit, PipelineInv, StopOK
  <1>13. EndedOnce'
    <2>1. Elements(finished)' = Elements(finished) /\ Elements(finished) \subseteq Polls
      BY ElementsType DEF Submit, Elements, PipelineInv, TypeOK
    <2> QED
      BY <1>3, <2>1 DEF Submit, PipelineInv, EndedOnce, Once
  <1> QED
    BY <1>5, <1>6, <1>8, <1>9, <1>11, <1>12, <1>13 DEF PipelineInv

\* The polls: a submission, an end, or a move that leaves the result alone.
LEMMA PollKeeps ==
    ASSUME PipelineInv, NEW p \in Polls, Poll(p)
    PROVE  PipelineInv'
  <1>1. CASE StartPoll(p)
    <2>1. PollMove(p, "running") /\ stage[p] # "collected" /\ UNCHANGED <<status, finished>>
      BY <1>1 DEF StartPoll, PollMove
    <2> QED
      BY <2>1, QuietPollKeeps
  <1>2. CASE SkipPoll(p)
    <2>1. PollMove(p, "skipped") /\ stage[p] # "collected" /\ UNCHANGED <<status, finished>>
      BY <1>2 DEF SkipPoll, PollMove
    <2> QED
      BY <2>1, QuietPollKeeps
  <1>3. CASE SubmitTimeout(p)
    <2>1. PollMove(p, "dropped") /\ stage[p] # "collected" /\ UNCHANGED <<status, finished>>
      BY <1>3 DEF SubmitTimeout, PollMove
    <2> QED
      BY <2>1, QuietPollKeeps
  <1>4. CASE Submit(p)
    BY <1>4, SubmitKeeps
  <1>5. CASE \E st \in {"up", "down", "none"} : CollectorReturns(p, st)
    BY <1>5, CollectorReturnsKeeps
  <1>6. CASE FinishPoll(p)
    BY <1>6, FinishPollKeeps
  <1> QED
    BY <1>1, <1>2, <1>3, <1>4, <1>5, <1>6 DEF Poll

-----------------------------------------------------------------------------
(* The run goroutine and Stop. *)

\* What a step of the writer or of Stop that is not an end of a batch leaves alone.
PollsAlone == UNCHANGED <<pollVars, processed>> /\ (pollsCut => pollsCut')

LEMMA PollsAloneKeeps ==
    ASSUME PipelineInv, PollsAlone
    PROVE  /\ EndedOnce' /\ (WorkersIdle' <=> WorkersIdle)
           /\ answers' \subseteq Polls /\ finished' \in Seq(Polls) /\ processed' \in [Polls -> Nat]
           /\ stage' \in [Polls -> {"idle", "running", "collected", "submit", "sent", "dropped", "skipped"}]
           /\ status' \in [Polls -> {"up", "down", "none"}]
           /\ processed' \in [Polls -> {0, 1}]
  <1>1. EndedOnce'
    BY DEF PipelineInv, EndedOnce, PollsAlone, pollVars, Once, Elements
  <1>2. WorkersIdle' <=> WorkersIdle
    BY DEF WorkersIdle, PollsAlone, pollVars
  <1> QED
    BY <1>1, <1>2 DEF PipelineInv, TypeOK, RowsOK, PollsAlone, pollVars

\* The result at the head of the channel moves to the batch.
LEMMA ReceiveResultKeeps ==
    ASSUME PipelineInv, ReceiveResult
    PROVE  PipelineInv'
  <1>1. PICK h, t : h = Head(resultCh) /\ t = Tail(resultCh)
    OBVIOUS
  <1>2. /\ resultCh \in Seq(Polls) /\ batch \in Seq(Polls) /\ resultCh # <<>>
        /\ Len(resultCh) \in Nat /\ Len(batch) \in Nat /\ Len(batch) < BatchSize
        /\ Len(resultCh) <= ChanSize
    BY DEF ReceiveResult, PipelineInv, TypeOK, WriterOK
  <1>3. /\ h \in Elements(resultCh) /\ h \in Polls /\ resultCh' = t /\ t \in Seq(Polls)
        /\ Len(t) = Len(resultCh) - 1 /\ Elements(resultCh) = Elements(t) \cup {h}
        /\ Once(t) /\ h \notin Elements(t)
    BY <1>1, <1>2, TailElements DEF ReceiveResult, PipelineInv, ApartOK
  <1>4. h \notin Elements(batch)
    BY <1>3 DEF PipelineInv, ApartOK
  <1>5. /\ batch' = Append(batch, h) /\ batch' \in Seq(Polls) /\ Len(batch') = Len(batch) + 1
        /\ Elements(batch') = Elements(batch) \cup {h} /\ Once(batch')
    <2>1. batch' = Append(batch, h)
      BY <1>1 DEF ReceiveResult
    <2> QED
      BY <2>1, <1>2, <1>3, <1>4, AppendElements DEF PipelineInv, ApartOK
  <1>6. PollsAlone /\ UNCHANGED <<sched, pollsCut, cancelled, saved, row, faults>>
    BY DEF ReceiveResult, PollsAlone, dbVars
  <1>7. PICK no \in BOOLEAN : no = FALSE
    OBVIOUS
  <1>8. \/ Len(batch') >= BatchSize /\ writer' = [pc |-> "metrics", fresh |-> no, next |-> "select"]
        \/ Len(batch') < BatchSize /\ writer' = writer
    <2>1. CASE Len(batch') >= BatchSize
      BY <1>7, <2>1 DEF ReceiveResult, Process
    <2>2. CASE ~(Len(batch') >= BatchSize)
      <3>1. Len(batch') < BatchSize
        BY <1>2, <1>5, <2>2, PipelineAssumption
      <3>2. UNCHANGED writer
        BY <2>2 DEF ReceiveResult
      <3> QED
        BY <3>1, <3>2
    <2> QED
      BY <2>1, <2>2
  <1>9. writer' \in [pc : {"select", "metrics", "statuses", "alerts", "flush", "exit", "returned"},
                     fresh : BOOLEAN, next : {"select", "flush", "exit", "returned"}]
    BY <1>8 DEF PipelineInv, TypeOK
  <1>10. Len(resultCh') <= ChanSize /\ Len(batch') <= BatchSize
    BY <1>2, <1>3, <1>5, PipelineAssumption
  <1>11. TypeOK'
    <2>1. Len(batch') <= IF BatchSize > ChanSize THEN BatchSize ELSE ChanSize
      BY <1>10, <1>5, <1>2, PipelineAssumption
    <2> QED
      BY <1>3, <1>5, <1>6, <1>9, <1>10, <2>1, PollsAloneKeeps DEF PipelineInv, TypeOK
  <1>12. RowsOK'
    BY <1>6, PollsAloneKeeps DEF PollsAlone, pollVars, PipelineInv, RowsOK
  <1>13. ApartOK'
    BY <1>3, <1>4, <1>5 DEF PipelineInv, ApartOK
  <1>14. SentOK'
    <2>1. \A q \in Polls : Held(q)' <=> Held(q)
      BY <1>3, <1>5 DEF Held
    <2> QED
      BY <1>6, <2>1 DEF PipelineInv, SentOK, PollsAlone, pollVars
  <1>15. WriterOK'
    BY <1>2, <1>6, <1>8 DEF PipelineInv, WriterOK, ReceiveResult
  <1>16. StopOK'
    <2>1. sched # "stopped"
      BY DEF ReceiveResult, PipelineInv, StopOK
    <2> QED
      BY <1>6, <2>1, PollsAloneKeeps DEF PipelineInv, StopOK
  <1> QED
    BY <1>6, <1>11, <1>12, <1>13, <1>14, <1>15, <1>16, PollsAloneKeeps DEF PipelineInv

\* A step that moves no result.
ResultsStay == PollsAlone /\ UNCHANGED <<resultCh, batch>>

LEMMA ResultsStayKeeps ==
    ASSUME PipelineInv, ResultsStay
    PROVE  ApartOK' /\ SentOK' /\ EndedOnce' /\ (WorkersIdle' <=> WorkersIdle)
  <1>1. PollsAlone /\ Elements(resultCh)' = Elements(resultCh) /\ Elements(batch)' = Elements(batch)
    BY DEF ResultsStay, Elements
  <1>2. ApartOK'
    BY <1>1 DEF ResultsStay, PipelineInv, ApartOK, Once
  <1>3. SentOK'
    BY <1>1 DEF PipelineInv, SentOK, Held, PollsAlone, pollVars
  <1> QED
    BY <1>1, <1>2, <1>3, PollsAloneKeeps

\* A batch that is being written, or the select that finds it ready.
LEMMA BatchReadyKeeps ==
    ASSUME PipelineInv, Tick \/ ContextDone
    PROVE  PipelineInv'
  <1>1. ResultsStay /\ UNCHANGED <<sched, pollsCut, cancelled, saved, row, faults>>
    <2>1. UNCHANGED <<pollVars, resultCh, batch, sched, pollsCut, cancelled, dbVars>>
      BY DEF Tick, ContextDone
    <2> QED
      BY <2>1 DEF ResultsStay, PollsAlone, dbVars
  <1>2. writer.pc = "select" /\ (sched = "stopped" => FALSE)
    BY DEF Tick, ContextDone, PipelineInv, StopOK
  <1>3. PICK no, yes \in BOOLEAN : no = FALSE /\ yes = TRUE
    OBVIOUS
  <1>4. \/ writer' = [pc |-> "metrics", fresh |-> no, next |-> "select"]
        \/ cancelled /\ writer' = [pc |-> "metrics", fresh |-> yes, next |-> "flush"]
        \/ cancelled /\ batch = <<>> /\ writer' = [pc |-> "flush", fresh |-> no, next |-> "flush"]
    BY <1>3 DEF Tick, ContextDone, Process, Goto
  <1>5. TypeOK'
    <2>1. writer' \in [pc : {"select", "metrics", "statuses", "alerts", "flush", "exit", "returned"},
                       fresh : BOOLEAN, next : {"select", "flush", "exit", "returned"}]
      <3>1. no \in BOOLEAN /\ yes \in BOOLEAN
        OBVIOUS
      <3>2. CASE writer' = [pc |-> "metrics", fresh |-> no, next |-> "select"]
        BY <3>1, <3>2
      <3>3. CASE writer' = [pc |-> "metrics", fresh |-> yes, next |-> "flush"]
        BY <3>1, <3>3
      <3>4. CASE writer' = [pc |-> "flush", fresh |-> no, next |-> "flush"]
        BY <3>1, <3>4
      <3> QED
        BY <1>4, <3>2, <3>3, <3>4
    <2> QED
      BY <1>1, <2>1, PollsAloneKeeps DEF ResultsStay, PipelineInv, TypeOK
  <1>6. WriterOK'
    BY <1>1, <1>4 DEF ResultsStay, PipelineInv, WriterOK
  <1>7. RowsOK'
    BY <1>1 DEF ResultsStay, PollsAlone, pollVars, PipelineInv, RowsOK
  <1>8. StopOK'
    BY <1>1, <1>2, ResultsStayKeeps DEF PipelineInv, StopOK
  <1> QED
    BY <1>1, <1>5, <1>6, <1>7, <1>8, ResultsStayKeeps DEF PipelineInv

LEMMA WriteKeeps ==
    ASSUME PipelineInv, ResultsStay, UNCHANGED <<sched, pollsCut, cancelled>>,
           writer.pc \in Processing, NEW pc \in Processing, writer' = [writer EXCEPT !.pc = pc],
           saved' \subseteq Polls, row' \in [Devices -> Polls \cup {NoPoll}],
           \A d \in Devices : row'[d] # NoPoll => stage[row'[d]] = "sent",
           faults' \in 0..MaxFaults
    PROVE  PipelineInv'
  <1>1. /\ writer' \in [pc : {"select", "metrics", "statuses", "alerts", "flush", "exit", "returned"},
                        fresh : BOOLEAN, next : {"select", "flush", "exit", "returned"}]
        /\ writer'.pc = pc /\ writer'.next = writer.next
    BY DEF PipelineInv, TypeOK, Processing
  <1>2. TypeOK'
    BY <1>1, PollsAloneKeeps DEF ResultsStay, PipelineInv, TypeOK
  <1>3. RowsOK'
    BY PollsAloneKeeps DEF ResultsStay, PollsAlone, pollVars, RowsOK
  <1>4. WriterOK'
    BY <1>1 DEF ResultsStay, PipelineInv, WriterOK, Processing
  <1>5. StopOK'
    BY <1>1, ResultsStayKeeps DEF PipelineInv, StopOK, Processing
  <1> QED
    BY <1>2, <1>3, <1>4, <1>5, ResultsStayKeeps DEF PipelineInv

LEMMA WriteMetricsKeeps ==
    ASSUME PipelineInv, WriteMetrics
    PROVE  PipelineInv'
  <1>1. ResultsStay /\ UNCHANGED <<sched, pollsCut, cancelled, row>>
    BY DEF WriteMetrics, ResultsStay, PollsAlone
  <1>2. writer.pc \in Processing /\ writer' = [writer EXCEPT !.pc = "statuses"]
    BY DEF WriteMetrics, Processing
  <1>3. Elements(batch) \subseteq Polls /\ saved \subseteq Polls /\ faults \in 0..MaxFaults
    BY ElementsType DEF PipelineInv, TypeOK
  <1>4. saved' \subseteq Polls /\ faults' \in 0..MaxFaults
    BY <1>3, PipelineAssumption DEF WriteMetrics
  <1>5. /\ row' \in [Devices -> Polls \cup {NoPoll}]
        /\ \A d \in Devices : row'[d] # NoPoll => stage[row'[d]] = "sent"
    BY <1>1 DEF PipelineInv, RowsOK
  <1>6. "statuses" \in Processing
    BY DEF Processing
  <1> QED
    BY <1>1, <1>2, <1>4, <1>5, <1>6, WriteKeeps

-----------------------------------------------------------------------------
(* The latest result of a device. *)

\* A finished poll that no other of a non-empty set of them is later than.
LEMMA LatestExists ==
    ASSUME finished \in Seq(Polls), Once(finished), NEW S, S # {}, S \subseteq Elements(finished)
    PROVE  \E p \in S : \A q \in S : ~ After(q, p)
  <1>1. Len(finished) \in Nat
    BY LenProperties
  <1>2. PICK T : T = {Len(finished) - j : j \in {k \in 1..Len(finished) : finished[k] \in S}}
    OBVIOUS
  <1>3. PICK i \in 1..Len(finished) :
           /\ finished[i] \in S
           /\ \A j \in 1..Len(finished) : finished[j] \in S => j <= i
    <2>1. T \subseteq Nat
      BY <1>1, <1>2
    <2>2. PICK p \in S : p \in Elements(finished)
      OBVIOUS
    <2>3. PICK k \in 1..Len(finished) : finished[k] = p
      BY <2>2 DEF Elements
    <2>4. T # {}
      BY <1>2, <2>2, <2>3
    <2>5. PICK m \in T : \A n \in T : ~ (<<n, m>> \in OpToRel(<, Nat))
      BY <2>1, <2>4, NatLessThanWellFounded, WFMin
    <2>6. \A n \in T : ~ (n < m)
      BY <2>1, <2>5 DEF OpToRel
    <2>7. PICK i \in 1..Len(finished) : finished[i] \in S /\ m = Len(finished) - i
      BY <1>2, <2>5
    <2>8. ASSUME NEW j \in 1..Len(finished), finished[j] \in S PROVE j <= i
      <3>1. Len(finished) - j \in T
        BY <1>2, <2>8
      <3>2. ~ (Len(finished) - j < Len(finished) - i)
        BY <2>6, <2>7, <3>1
      <3> QED
        BY <1>1, <3>2
    <2> QED
      BY <2>7, <2>8
  <1>4. ASSUME NEW q \in S, After(q, finished[i]) PROVE FALSE
    <2>1. PICK j, k \in 1..Len(finished) : j > k /\ finished[j] = q /\ finished[k] = finished[i]
      BY <1>4 DEF After
    <2>2. k = i /\ j <= i
      BY <1>3, <2>1 DEF Once
    <2> QED
      BY <1>1, <2>1, <2>2
  <1> QED
    BY <1>3, <1>4

\* The status that WriteStatuses takes for a device is of its latest result.
LEMMA LatestIsLatest ==
    ASSUME PipelineInv, NEW d, Reports(d) # {}
    PROVE  Latest(d) \in Reports(d) /\ \A q \in Reports(d) : ~ After(q, Latest(d))
  <1>1. \E p \in Reports(d) : \A q \in Reports(d) : ~ After(q, p)
    <2>1. CASE Reports(d) \subseteq Elements(finished)
      BY <2>1, LatestExists DEF PipelineInv, TypeOK, EndedOnce
    <2>2. CASE ~(Reports(d) \subseteq Elements(finished))
      <3>1. PICK p \in Reports(d) : p \notin Elements(finished)
        BY <2>2
      <3>2. \A q : ~ After(q, p)
        BY <3>1 DEF After, Elements
      <3> QED
        BY <3>2
    <2> QED
      BY <2>1, <2>2
  <1> QED
    BY <1>1 DEF Latest

LEMMA WriteStatusesKeeps ==
    ASSUME PipelineInv, WriteStatuses
    PROVE  PipelineInv'
  <1>1. ResultsStay /\ UNCHANGED <<sched, pollsCut, cancelled, saved>>
    BY DEF WriteStatuses, ResultsStay, PollsAlone
  <1>2. writer.pc \in Processing /\ writer' = [writer EXCEPT !.pc = "alerts"] /\ "alerts" \in Processing
    BY DEF WriteStatuses, Processing
  <1>3. faults \in 0..MaxFaults /\ saved' \subseteq Polls /\ row \in [Devices -> Polls \cup {NoPoll}]
    BY <1>1 DEF PipelineInv, TypeOK
  <1>4. faults' \in 0..MaxFaults
    BY <1>3, PipelineAssumption DEF WriteStatuses
  <1>5. \A d \in Devices : Reports(d) # {} => Latest(d) \in Polls /\ stage[Latest(d)] = "sent"
    <2>1. \A d \in Devices : Reports(d) # {} => Latest(d) \in Elements(batch)
      BY LatestIsLatest DEF Reports
    <2>2. \A p \in Elements(batch) : p \in Polls /\ stage[p] = "sent"
      BY ElementsType DEF PipelineInv, TypeOK, SentOK, Held
    <2> QED
      BY <2>1, <2>2
  <1>6. /\ row' \in [Devices -> Polls \cup {NoPoll}]
        /\ \A d \in Devices : row'[d] # NoPoll => stage[row'[d]] = "sent"
    BY <1>3, <1>5 DEF WriteStatuses, PipelineInv, RowsOK
  <1> QED
    BY <1>1, <1>2, <1>3, <1>4, <1>6, WriteKeeps

-----------------------------------------------------------------------------
\* flush: the channel becomes the batch.
LEMMA FlushKeeps ==
    ASSUME PipelineInv, NEW next \in {"exit", "returned"}, Flush(next),
           writer.pc \in {"flush", "exit"}, cancelled
    PROVE  PipelineInv'
  <1>1. PollsAlone /\ UNCHANGED <<sched, pollsCut, cancelled, saved, row, faults>>
    BY DEF Flush, PollsAlone, dbVars
  <1>2. batch = <<>> /\ batch' = resultCh /\ resultCh' = <<>> /\ resultCh \in Seq(Polls)
    BY DEF Flush, PipelineInv, WriterOK, TypeOK
  <1>3. PICK no, yes \in BOOLEAN : no = FALSE /\ yes = TRUE
    OBVIOUS
  <1>4. \/ writer' = [pc |-> "metrics", fresh |-> yes, next |-> next]
        \/ resultCh = <<>> /\ writer' = [pc |-> next, fresh |-> no, next |-> next]
    BY <1>3 DEF Flush, Process, Goto
  <1>5. writer' \in [pc : {"select", "metrics", "statuses", "alerts", "flush", "exit", "returned"},
                     fresh : BOOLEAN, next : {"select", "flush", "exit", "returned"}]
    <2>1. no \in BOOLEAN /\ yes \in BOOLEAN
      OBVIOUS
    <2>2. CASE writer' = [pc |-> "metrics", fresh |-> yes, next |-> next]
      BY <2>1, <2>2
    <2>3. CASE writer' = [pc |-> next, fresh |-> no, next |-> next]
      BY <2>1, <2>3
    <2> QED
      BY <1>4, <2>2, <2>3
  <1>6. TypeOK'
    <2>1. Len(batch') <= IF BatchSize > ChanSize THEN BatchSize ELSE ChanSize
      BY <1>2, LenProperties, PipelineAssumption DEF PipelineInv, TypeOK
    <2>2. Len(resultCh') <= ChanSize
      BY <1>2, EmptyOnce, PipelineAssumption
    <2> QED
      BY <1>1, <1>2, <1>5, <2>1, <2>2, EmptyOnce, PollsAloneKeeps DEF PipelineInv, TypeOK
  <1>7. RowsOK'
    BY <1>1, PollsAloneKeeps DEF PollsAlone, pollVars, PipelineInv, RowsOK
  <1>8. Elements(batch') = Elements(resultCh) /\ Elements(resultCh') = {} /\ Elements(batch) = {}
    BY <1>2, EmptyOnce
  <1>9. ApartOK'
    BY <1>2, <1>8, EmptyOnce DEF PipelineInv, ApartOK
  <1>10. SentOK'
    <2>1. \A q \in Polls : Held(q)' <=> Held(q)
      BY <1>8 DEF Held
    <2> QED
      BY <1>1, <2>1 DEF PipelineInv, SentOK, PollsAlone, pollVars
  <1>11. WriterOK'
    BY <1>1, <1>2, <1>4 DEF WriterOK
  <1>12. StopOK'
    <2>1. sched # "stopped"
      BY DEF PipelineInv, StopOK
    <2> QED
      BY <1>1, <2>1, PollsAloneKeeps DEF PipelineInv, StopOK
  <1> QED
    BY <1>1, <1>6, <1>7, <1>9, <1>10, <1>11, <1>12, PollsAloneKeeps DEF PipelineInv

\* Every result of the batch has then been processed, and is in no batch.
LEMMA EvaluateAlertsKeeps ==
    ASSUME PipelineInv, EvaluateAlerts
    PROVE  PipelineInv'
  <1>1. UNCHANGED <<pollVars, resultCh, sched, pollsCut, cancelled, saved, row, faults>> /\ batch' = <<>>
    BY DEF EvaluateAlerts
  <1>2. batch \in Seq(Polls) /\ Once(batch) /\ processed \in [Polls -> {0, 1}]
    BY DEF PipelineInv, TypeOK, ApartOK, RowsOK
  <1>3. /\ processed' \in [Polls -> {0, 1}] /\ processed' \in [Polls -> Nat]
        /\ \A p \in Polls : processed'[p] = IF p \in Elements(batch) THEN 1 ELSE processed[p]
    <2>1. \A p \in Polls : p \in Elements(batch) => processed[p] = 0
      BY DEF PipelineInv, SentOK, Held
    <2>2. ASSUME NEW p \in Polls
          PROVE  processed[p] + Cardinality({i \in 1..Len(batch) : batch[i] = p})
                   = IF p \in Elements(batch) THEN 1 ELSE processed[p]
      <3>1. Cardinality({i \in 1..Len(batch) : batch[i] = p}) = IF p \in Elements(batch) THEN 1 ELSE 0
        BY <1>2, CountOnce
      <3>2. processed[p] \in {0, 1}
        BY <1>2
      <3> QED
        BY <2>1, <3>1, <3>2
    <2>3. processed' = [p \in Polls |-> IF p \in Elements(batch) THEN 1 ELSE processed[p]]
      BY <2>2 DEF EvaluateAlerts
    <2> QED
      BY <1>2, <2>3
  <1>4. PICK no \in BOOLEAN : no = FALSE
    OBVIOUS
  <1>5. /\ writer.pc = "alerts" /\ writer.next \in {"select", "flush", "exit", "returned"}
        /\ writer' = [pc |-> writer.next, fresh |-> no, next |-> writer.next]
    BY <1>4 DEF EvaluateAlerts, Goto, PipelineInv, TypeOK
  <1>6. TypeOK'
    <2>1. writer' \in [pc : {"select", "metrics", "statuses", "alerts", "flush", "exit", "returned"},
                       fresh : BOOLEAN, next : {"select", "flush", "exit", "returned"}]
      BY <1>5
    <2>2. Len(batch') <= IF BatchSize > ChanSize THEN BatchSize ELSE ChanSize
      BY <1>1, EmptyOnce, PipelineAssumption
    <2> QED
      BY <1>1, <1>3, <2>1, <2>2, EmptyOnce DEF PipelineInv, TypeOK, pollVars
  <1>7. RowsOK'
    BY <1>1, <1>3 DEF PipelineInv, RowsOK, pollVars
  <1>8. Elements(batch') = {} /\ Elements(resultCh') = Elements(resultCh)
    BY <1>1, EmptyOnce
  <1>9. ApartOK'
    BY <1>1, <1>8, EmptyOnce DEF PipelineInv, ApartOK
  <1>10. SentOK'
    <2>1. ASSUME NEW p \in Polls
          PROVE  /\ Held(p)' => stage'[p] = "sent" /\ processed'[p] = 0
                 /\ processed'[p] = 1 => stage'[p] = "sent"
                 /\ stage'[p] = "sent" => Held(p)' \/ processed'[p] = 1
      <3>1. stage'[p] = stage[p] /\ (Held(p)' <=> p \in Elements(resultCh))
        BY <1>1, <1>8 DEF Held, pollVars
      <3>2. p \in Elements(resultCh) => p \notin Elements(batch)
        BY DEF PipelineInv, ApartOK
      <3> QED
        BY <1>3, <3>1, <3>2 DEF PipelineInv, SentOK, Held
    <2> QED
      BY <2>1 DEF SentOK
  <1>11. WriterOK'
    BY <1>1, <1>5, EmptyOnce, PipelineAssumption DEF PipelineInv, WriterOK
  <1>12. StopOK'
    BY <1>1, <1>5 DEF PipelineInv, StopOK, WorkersIdle, pollVars
  <1>13. EndedOnce'
    BY <1>1 DEF PipelineInv, EndedOnce, pollVars, Once, Elements
  <1> QED
    BY <1>6, <1>7, <1>9, <1>10, <1>11, <1>12, <1>13 DEF PipelineInv

-----------------------------------------------------------------------------
\* Stop: only the phases change.
LEMMA StopKeeps ==
    ASSUME PipelineInv, StopDispatcher \/ CutPolls \/ StopPipeline \/ StopReturns
    PROVE  PipelineInv'
  <1>1. ResultsStay /\ UNCHANGED <<writer, saved, row, faults>>
    BY DEF StopDispatcher, CutPolls, StopPipeline, StopReturns, ResultsStay, PollsAlone, dbVars
  <1>2. /\ sched' \in {"running", "draining", "flushing", "stopped"}
        /\ pollsCut' \in BOOLEAN /\ cancelled' \in BOOLEAN
    BY DEF StopDispatcher, CutPolls, StopPipeline, StopReturns, PipelineInv, TypeOK
  <1>3. TypeOK'
    BY <1>1, <1>2, PollsAloneKeeps DEF ResultsStay, PipelineInv, TypeOK
  <1>4. RowsOK'
    BY <1>1, PollsAloneKeeps DEF ResultsStay, PollsAlone, pollVars, PipelineInv, RowsOK
  <1>5. cancelled => cancelled'
    BY DEF StopDispatcher, CutPolls, StopPipeline, StopReturns
  <1>6. WriterOK'
    BY <1>1, <1>5 DEF ResultsStay, PipelineInv, WriterOK
  <1>7. StopOK'
    <2>1. WorkersIdle' <=> WorkersIdle
      BY <1>1, ResultsStayKeeps
    <2> QED
      BY <2>1 DEF StopDispatcher, CutPolls, StopPipeline, StopReturns, PipelineInv, StopOK
  <1> QED
    BY <1>1, <1>3, <1>4, <1>6, <1>7, ResultsStayKeeps DEF PipelineInv

LEMMA PipelineInvNext == PipelineInv /\ [Next]_vars => PipelineInv'
  <1> SUFFICES ASSUME PipelineInv, [Next]_vars PROVE PipelineInv'
    OBVIOUS
  <1>1. CASE \E p \in Polls : Poll(p)
    BY <1>1, PollKeeps
  <1>2. CASE ReceiveResult
    BY <1>2, ReceiveResultKeeps
  <1>3. CASE Tick \/ ContextDone
    BY <1>3, BatchReadyKeeps
  <1>4. CASE FinalFlush
    <2>1. cancelled
      BY <1>4 DEF FinalFlush, PipelineInv, WriterOK
    <2> QED
      BY <1>4, <2>1, FlushKeeps DEF FinalFlush
  <1>5. CASE StopFlush
    <2>1. cancelled
      BY <1>5 DEF StopFlush, PipelineInv, WriterOK
    <2> QED
      BY <1>5, <2>1, FlushKeeps DEF StopFlush
  <1>6. CASE WriteMetrics
    BY <1>6, WriteMetricsKeeps
  <1>7. CASE WriteStatuses
    BY <1>7, WriteStatusesKeeps
  <1>8. CASE EvaluateAlerts
    BY <1>8, EvaluateAlertsKeeps
  <1>9. CASE StopDispatcher \/ CutPolls \/ StopPipeline \/ StopReturns
    BY <1>9, StopKeeps
  <1>10. CASE UNCHANGED vars
    <2>1. ResultsStay /\ UNCHANGED <<writer, sched, pollsCut, cancelled, saved, row, faults>>
      BY <1>10 DEF vars, ResultsStay, PollsAlone, dbVars
    <2>2. TypeOK' /\ RowsOK' /\ WriterOK'
      BY <2>1, PollsAloneKeeps DEF ResultsStay, PollsAlone, pollVars, PipelineInv, TypeOK, RowsOK, WriterOK
    <2>3. StopOK'
      BY <2>1, ResultsStayKeeps DEF PipelineInv, StopOK
    <2> QED
      BY <2>1, <2>2, <2>3, ResultsStayKeeps DEF PipelineInv
  <1> QED
    BY <1>1, <1>2, <1>3, <1>4, <1>5, <1>6, <1>7, <1>8, <1>9, <1>10 DEF Next, Run, Stop, Stopped

-----------------------------------------------------------------------------
LEMMA PipelineInvImplies == PipelineInv => TypeOK /\ ProcessedOnce /\ NoFalseDown
  <1> SUFFICES ASSUME PipelineInv PROVE TypeOK /\ ProcessedOnce /\ NoFalseDown
    OBVIOUS
  <1>1. TypeOK
    BY DEF PipelineInv
  <1>2. ProcessedOnce
    <2>1. \A p \in Polls : processed[p] \in {0, 1}
      BY DEF PipelineInv, RowsOK
    <2>2. ASSUME sched = "stopped"
          PROVE  WorkersIdle /\ resultCh = <<>> /\ batch = <<>>
      BY <2>2 DEF PipelineInv, StopOK, WriterOK
    <2>3. ASSUME sched = "stopped", NEW p \in Polls
          PROVE  (stage[p] = "sent") <=> (processed[p] = 1)
      <3>1. ~Held(p)
        BY <2>2, <2>3, EmptyOnce DEF Held
      <3> QED
        BY <3>1 DEF PipelineInv, SentOK
    <2> QED
      BY <2>1, <2>2, <2>3 DEF ProcessedOnce, WorkersIdle
  <1>3. NoFalseDown
    BY DEF PipelineInv, RowsOK, EndedOnce, NoFalseDown
  <1> QED
    BY <1>1, <1>2, <1>3

\* A device row changes only to the latest result of the batch.
LEMMA RowChangesToLatest ==
    ASSUME PipelineInv, Next, NEW d \in Devices, row'[d] # row[d]
    PROVE  \A q \in Elements(batch) :
              DeviceOf[q] = d /\ status[q] # "none" => ~ After(q, row'[d])
  <1>1. CASE WriteStatuses
    <2>1. Reports(d) # {} /\ row'[d] = Latest(d)
      BY <1>1 DEF WriteStatuses
    <2>2. \A q \in Reports(d) : ~ After(q, row'[d])
      BY <2>1, LatestIsLatest
    <2> QED
      BY <2>2 DEF Reports
  <1>2. CASE ~ WriteStatuses
    <2>1. UNCHANGED row
      BY <1>2 DEF Next, Poll, StartPoll, SkipPoll, Submit, SubmitTimeout, CollectorReturns, FinishPoll, Run,
                  ReceiveResult, Tick, ContextDone, FinalFlush, WriteMetrics, EvaluateAlerts,
                  Flush, Stop, StopDispatcher, CutPolls, StopPipeline, StopFlush, StopReturns,
                  Stopped, vars, dbVars
    <2> QED
      BY <2>1
  <1> QED
    BY <1>1, <1>2

\* A submitted result is processed once and none is left when Stop has
\* returned, no poll that was cut off shows its device down, and a batch writes
\* each device's latest result (result_pipeline.go, scheduler.go).
THEOREM ResultsSafeAlways == Spec => ResultsSafe
  <1>1. Init => PipelineInv
    BY PipelineInvInit
  <1>2. PipelineInv /\ [Next]_vars => PipelineInv'
    BY PipelineInvNext
  <1>3. PipelineInv => TypeOK /\ ProcessedOnce /\ NoFalseDown
    BY PipelineInvImplies
  <1>4. PipelineInv /\ [Next]_vars =>
          [\A d \in Devices :
             row'[d] # row[d] => \A q \in Elements(batch) :
                                   DeviceOf[q] = d /\ status[q] # "none"
                                       => ~ After(q, row'[d])]_vars
    BY RowChangesToLatest
  <1> QED
    BY <1>1, <1>2, <1>3, <1>4, PTL DEF Spec, ResultsSafe, BatchWriteIsLatest

-----------------------------------------------------------------------------
(* The poll lock. *)

\* The lock of a poll that is younger than the expiry is there, and as old.
LockHeld ==
    \A i \in Instances :
        Fresh(i) /\ poll[i].locked => lock.owner = i /\ lock.age = poll[i].age

PollLockInv == PollLockTypeOK /\ LockHeld

LEMMA PollLockInvInit == PollLockInit => PollLockInv
  <1> SUFFICES ASSUME PollLockInit PROVE PollLockInv
    OBVIOUS
  <1>1. PICK no \in BOOLEAN : no = FALSE
    OBVIOUS
  <1>2. /\ poll = [i \in Instances |-> [pc |-> "idle", turn |-> 0, locked |-> no, age |-> 0]]
        /\ lock = [owner |-> Nobody, turn |-> 0, age |-> 0] /\ lockErrors = 0 /\ lockCrashes = 0
    BY <1>1 DEF PollLockInit, NotPolling, Free
  <1>3. PollLockTypeOK
    BY <1>2, PollLockAssumption DEF PollLockTypeOK
  <1>4. LockHeld
    BY <1>2 DEF LockHeld, Fresh
  <1> QED
    BY <1>3, <1>4 DEF PollLockInv

\* A step of one instance that leaves the lock alone and no poll of it running.
LEMMA EndOfPollKeeps ==
    ASSUME PollLockInv, NEW i \in Instances, PollLockTypeOK', UNCHANGED lock,
           poll'[i].pc # "polling", \A j \in Instances : j # i => poll'[j] = poll[j]
    PROVE  PollLockInv'
  BY DEF PollLockInv, LockHeld, Fresh

LEMMA TryLockKeeps ==
    ASSUME PollLockInv, NEW i \in Instances, TryLock(i)
    PROVE  PollLockInv'
  <1>1. PICK locked \in BOOLEAN :
           /\ poll' = [poll EXCEPT ![i] = [pc |-> "polling", turn |-> 1 - poll[i].turn,
                                           locked |-> locked, age |-> 0]]
           /\ \/ /\ locked = TRUE /\ lock = Free /\ UNCHANGED lockErrors
                 /\ lock' = [owner |-> i, turn |-> 1 - poll[i].turn, age |-> 0]
              \/ locked = FALSE /\ UNCHANGED lock /\ lockErrors' = lockErrors + 1 /\ lockErrors < MaxLockErrors
    BY DEF TryLock, Start
  <1>2. /\ poll'[i] = [pc |-> "polling", turn |-> 1 - poll[i].turn, locked |-> locked, age |-> 0]
        /\ \A j \in Instances : j # i => poll'[j] = poll[j]
    BY <1>1 DEF PollLockInv, PollLockTypeOK
  <1>3. 1 - poll[i].turn \in {0, 1} /\ UNCHANGED lockCrashes
    BY DEF TryLock, PollLockInv, PollLockTypeOK
  <1>4. PollLockTypeOK'
    <2>1. poll' \in [Instances -> [pc : {"idle", "polling", "release"}, turn : {0, 1},
                                   locked : BOOLEAN, age : 0..PollDeadline]]
      BY <1>1, <1>3, PollLockAssumption DEF PollLockInv, PollLockTypeOK
    <2>2. lock' \in [owner : Instances \cup {Nobody}, turn : {0, 1}, age : 0..LockTTL]
      BY <1>1, <1>3, PollLockAssumption DEF PollLockInv, PollLockTypeOK
    <2>3. lockErrors' \in 0..MaxLockErrors
      BY <1>1, PollLockAssumption DEF PollLockInv, PollLockTypeOK
    <2> QED
      BY <1>3, <2>1, <2>2, <2>3 DEF PollLockInv, PollLockTypeOK
  <1>5. LockHeld'
    <2>1. CASE locked = TRUE
      <3>1. lock = Free /\ lock'.owner = i /\ lock'.age = 0
        BY <1>1, <2>1
      <3>2. \A j \in Instances : ~(Fresh(j) /\ poll[j].locked)
        BY <3>1, PollLockAssumption DEF PollLockInv, LockHeld, Free
      <3> QED
        BY <1>2, <3>1, <3>2 DEF LockHeld, Fresh
    <2>2. CASE locked = FALSE
      <3>1. lock' = lock /\ ~poll'[i].locked
        BY <1>1, <1>2, <2>2
      <3> QED
        BY <1>2, <3>1 DEF PollLockInv, LockHeld, Fresh
    <2> QED
      BY <2>1, <2>2
  <1> QED
    BY <1>4, <1>5 DEF PollLockInv

LEMMA CollectedKeeps ==
    ASSUME PollLockInv, NEW i \in Instances, Collected(i)
    PROVE  PollLockInv'
  <1>1. PICK pc \in {"idle", "release"} : poll' = [poll EXCEPT ![i].pc = pc, ![i].age = 0]
    BY DEF Collected
  <1>2. /\ poll' \in [Instances -> [pc : {"idle", "polling", "release"}, turn : {0, 1},
                                    locked : BOOLEAN, age : 0..PollDeadline]]
        /\ poll'[i].pc = pc /\ \A j \in Instances : j # i => poll'[j] = poll[j]
    <2>1. /\ poll \in [Instances -> [pc : {"idle", "polling", "release"}, turn : {0, 1},
                                    locked : BOOLEAN, age : 0..PollDeadline]]
          /\ 0 \in 0..PollDeadline
      BY PollLockAssumption DEF PollLockInv, PollLockTypeOK
    <2>2. /\ DOMAIN poll' = Instances /\ poll' = [j \in Instances |-> poll'[j]]
          /\ poll'[i] = [poll[i] EXCEPT !.pc = pc, !.age = 0]
          /\ \A j \in Instances : j # i => poll'[j] = poll[j]
      BY <1>1, <2>1
    <2>3. /\ poll'[i].pc = pc
          /\ poll'[i] \in [pc : {"idle", "polling", "release"}, turn : {0, 1},
                           locked : BOOLEAN, age : 0..PollDeadline]
      BY <2>1, <2>2
    <2> QED
      BY <2>1, <2>2, <2>3
  <1>3. PollLockTypeOK' /\ UNCHANGED lock
    BY <1>2 DEF Collected, PollLockInv, PollLockTypeOK
  <1> QED
    BY <1>1, <1>2, <1>3, EndOfPollKeeps

LEMMA LockCrashKeeps ==
    ASSUME PollLockInv, NEW i \in Instances, LockCrash(i)
    PROVE  PollLockInv'
  <1>1. PICK no \in BOOLEAN : no = FALSE
    OBVIOUS
  <1>2. poll' = [poll EXCEPT ![i] = [pc |-> "idle", turn |-> poll[i].turn, locked |-> no, age |-> 0]]
    <2>1. NotPolling = [pc |-> "idle", turn |-> 0, locked |-> no, age |-> 0]
      BY <1>1 DEF NotPolling
    <2>2. [NotPolling EXCEPT !.turn = poll[i].turn]
            = [pc |-> "idle", turn |-> poll[i].turn, locked |-> no, age |-> 0]
      BY <2>1
    <2> QED
      BY <2>2 DEF LockCrash
  <1>3. /\ poll' \in [Instances -> [pc : {"idle", "polling", "release"}, turn : {0, 1},
                                    locked : BOOLEAN, age : 0..PollDeadline]]
        /\ poll'[i].pc = "idle" /\ \A j \in Instances : j # i => poll'[j] = poll[j]
    BY <1>2, PollLockAssumption DEF PollLockInv, PollLockTypeOK
  <1>4. lockCrashes' \in 0..MaxLockCrashes
    BY PollLockAssumption DEF LockCrash, PollLockInv, PollLockTypeOK
  <1>5. PollLockTypeOK' /\ UNCHANGED lock
    BY <1>3, <1>4 DEF LockCrash, PollLockInv, PollLockTypeOK
  <1> QED
    BY <1>3, <1>5, EndOfPollKeeps

\* A release that comes late deletes no lock of somebody who polls.
LEMMA ReleaseKeeps ==
    ASSUME PollLockInv, NEW i \in Instances, Release(i)
    PROVE  PollLockInv'
  <1>1. PICK no \in BOOLEAN : no = FALSE
    OBVIOUS
  <1>2. poll' = [poll EXCEPT ![i].pc = "idle", ![i].locked = no]
    BY <1>1 DEF Release
  <1>3. /\ poll' \in [Instances -> [pc : {"idle", "polling", "release"}, turn : {0, 1},
                                    locked : BOOLEAN, age : 0..PollDeadline]]
        /\ poll'[i].pc = "idle" /\ \A j \in Instances : j # i => poll'[j] = poll[j]
    BY <1>2 DEF PollLockInv, PollLockTypeOK
  <1>4. lock' = lock \/ (lock' = Free /\ lock.owner = i)
    BY DEF Release, Mine
  <1>5. lockErrors' \in 0..MaxLockErrors
    BY PollLockAssumption DEF Release, PollLockInv, PollLockTypeOK
  <1>6. PollLockTypeOK'
    BY <1>3, <1>4, <1>5, PollLockAssumption DEF Release, Free, PollLockInv, PollLockTypeOK
  <1>7. CASE lock' = lock
    BY <1>3, <1>6, <1>7, EndOfPollKeeps
  <1>8. CASE lock' = Free /\ lock.owner = i
    BY <1>3, <1>6, <1>8 DEF PollLockInv, LockHeld, Fresh
  <1> QED
    BY <1>4, <1>7, <1>8

LEMMA LockTickKeeps ==
    ASSUME PollLockInv, LockTick
    PROVE  PollLockInv'
  <1>1. ASSUME NEW i \in Instances
        PROVE  /\ poll'[i] \in [pc : {"idle", "polling", "release"}, turn : {0, 1},
                                locked : BOOLEAN, age : 0..PollDeadline]
               /\ poll'[i].pc = poll[i].pc /\ (poll'[i].locked <=> poll[i].locked)
               /\ poll[i].pc = "polling" => poll'[i].age = poll[i].age + 1
    <2>1. poll[i] \in [pc : {"idle", "polling", "release"}, turn : {0, 1},
                       locked : BOOLEAN, age : 0..PollDeadline]
      BY DEF PollLockInv, PollLockTypeOK
    <2>2. poll'[i] = IF poll[i].pc = "polling" THEN [poll[i] EXCEPT !.age = @ + 1] ELSE poll[i]
      BY DEF LockTick
    <2>3. poll[i].pc = "polling" => poll[i].age + 1 \in 0..PollDeadline
      BY <2>1, PollLockAssumption DEF LockTick
    <2> QED
      BY <2>1, <2>2, <2>3
  <1>2. poll' \in [Instances -> [pc : {"idle", "polling", "release"}, turn : {0, 1},
                                 locked : BOOLEAN, age : 0..PollDeadline]]
    <2>1. DOMAIN poll' = Instances /\ poll' = [i \in Instances |-> poll'[i]]
      BY DEF LockTick
    <2> QED
      BY <1>1, <2>1
  <1>3. /\ lock' \in [owner : Instances \cup {Nobody}, turn : {0, 1}, age : 0..LockTTL]
        /\ lock # Free /\ lock.age + 1 < LockTTL => lock'.owner = lock.owner /\ lock'.age = lock.age + 1
    BY PollLockAssumption DEF LockTick, AgedLock, Free, PollLockInv, PollLockTypeOK
  <1>4. PollLockTypeOK'
    BY <1>2, <1>3 DEF LockTick, PollLockInv, PollLockTypeOK
  <1>5. LockHeld'
    <2> SUFFICES ASSUME NEW i \in Instances, Fresh(i)', poll'[i].locked
                 PROVE  lock'.owner = i /\ lock'.age = poll'[i].age
      BY DEF LockHeld
    <2>1. /\ poll[i].pc = "polling" /\ poll[i].locked /\ poll'[i].age = poll[i].age + 1
          /\ poll[i].age + 1 < LockTTL /\ poll[i].age \in Nat
      BY <1>1 DEF Fresh, PollLockInv, PollLockTypeOK
    <2>2. lock.owner = i /\ lock.age = poll[i].age
      BY <2>1, PollLockAssumption DEF Fresh, PollLockInv, LockHeld
    <2>3. lock # Free
      BY <2>2, PollLockAssumption DEF Free
    <2> QED
      BY <1>3, <2>1, <2>2, <2>3
  <1> QED
    BY <1>4, <1>5 DEF PollLockInv

LEMMA PollLockInvNext == PollLockInv /\ [PollLockNext]_pollLockVars => PollLockInv'
  <1> SUFFICES ASSUME PollLockInv, [PollLockNext]_pollLockVars PROVE PollLockInv'
    OBVIOUS
  <1>1. CASE PollLockNext
    BY <1>1, TryLockKeeps, CollectedKeeps, ReleaseKeeps, LockCrashKeeps, LockTickKeeps DEF PollLockNext
  <1>2. CASE UNCHANGED pollLockVars
    BY <1>2 DEF pollLockVars, PollLockInv, PollLockTypeOK, LockHeld, Fresh
  <1> QED
    BY <1>1, <1>2

\* Two instances poll a device at once only if one has no lock or has outlived
\* it, whatever was late, lost or crashed (distributed_lock.go, scheduler.go).
THEOREM OnePollPerLockAlways == PollLockSpec => [](PollLockTypeOK /\ OnePollPerLock)
  <1>1. PollLockInv => PollLockTypeOK /\ OnePollPerLock
    BY DEF PollLockInv, LockHeld, OnePollPerLock
  <1> QED
    BY <1>1, PollLockInvInit, PollLockInvNext, PTL DEF PollLockSpec

-----------------------------------------------------------------------------
(* The grace period of an instance. *)

\* The grace period is over since the last answer.
Silent == lastAnswer # Never /\ today + 1 - lastAnswer > GraceDays

\* What the instance has stamped is no older than the last answer, but for one
\* that is about to be stamped; it is asked to go into maintenance, and is in it,
\* only in silence; what it is about to apply it has stored.
GraceKept ==
    /\ lastAnswer <= today + 1
    /\ instance.lastOk # Never \/ sync.pc = "stamp" => lastAnswer # Never
    /\ sync.pc # "stamp" /\ ~torn => lastAnswer <= instance.lastOk
    /\ sync.pc = "stamp" => sync.answer = "active"
    /\ sync.pc \in {"store", "apply"} /\ ~torn => (sync.answer = "maintenance" => Silent)
    /\ sync.pc = "apply" /\ ~torn => instance.storedMode = sync.answer
    /\ sync.pc \notin {"stamp", "store", "apply"} /\ ~torn =>
          (instance.mode = "maintenance" \/ instance.storedMode = "maintenance" => Silent)

FleetInv == FleetSyncTypeOK /\ GraceKept

LEMMA FleetInvInit == FleetSyncInit => FleetInv
  <1> SUFFICES ASSUME FleetSyncInit PROVE FleetInv
    OBVIOUS
  <1>1. PICK no, yes \in BOOLEAN : no = FALSE /\ yes = TRUE
    OBVIOUS
  <1>2. /\ remoteRow = [exists |-> no, mode |-> "active", print |-> 0]
        /\ instance = [mode |-> "active", storedMode |-> "active", lastOk |-> 0, print |-> 0]
        /\ sync = [pc |-> "idle", answer |-> "active"] /\ collect = "idle"
        /\ link = yes /\ today = 0 /\ lastAnswer = 0 /\ torn = no /\ fleetChanges = 0 /\ syncFaults = 0
    BY <1>1 DEF FleetSyncInit, Never, NoPrint
  <1>3. FleetSyncTypeOK
    BY <1>2, FleetBounds DEF FleetSyncTypeOK, Modes
  <1>4. GraceKept
    BY <1>2 DEF GraceKept, Never
  <1> QED
    BY <1>3, <1>4 DEF FleetInv

SyncType == [pc: {"idle", "asked", "stamp", "store", "apply", "grace"}, answer: Modes]
InstanceType == [mode: Modes, storedMode: Modes, lastOk: 0..(MaxSyncDays + 1), print: 0..1]

\* Whatever mode the manager answers, the instance takes "active" from it.
LEMMA ModeNotFound == ServiceModeOf(Config) = "active"
  <1>1. PICK data : Config = [success |-> TRUE, data |-> data]
    BY DEF Config, SendOK
  <1>2. DOMAIN Config = {"success", "data"}
    BY <1>1
  <1>3. "service_mode" \notin DOMAIN Config
    BY <1>2
  <1> QED
    BY <1>3 DEF ServiceModeOf

\* A step of the instance to these fields of instance and of sync that keeps
\* what was said of the grace period.
GraceStep(m, st, o, pr, pc, a) ==
    /\ m \in Modes /\ st \in Modes /\ o \in 0..(MaxSyncDays + 1) /\ pr \in 0..1
    /\ pc \in {"idle", "asked", "stamp", "store", "apply", "grace"} /\ a \in Modes
    /\ instance' = [mode |-> m, storedMode |-> st, lastOk |-> o, print |-> pr]
    /\ sync' = [pc |-> pc, answer |-> a]
    /\ torn' \in BOOLEAN /\ lastAnswer' \in 0..(MaxSyncDays + 1) /\ syncFaults' \in 0..MaxSyncFaults
    /\ lastAnswer' <= today' + 1
    /\ o # 0 \/ pc = "stamp" => lastAnswer' # 0
    /\ pc # "stamp" /\ ~torn' => lastAnswer' <= o
    /\ pc = "stamp" => a = "active"
    /\ pc \in {"store", "apply"} /\ ~torn' => (a = "maintenance" => Silent')
    /\ pc = "apply" /\ ~torn' => st = a
    /\ pc \notin {"stamp", "store", "apply"} /\ ~torn' => (m = "maintenance" \/ st = "maintenance" => Silent')

LEMMA GraceStepKeeps ==
    ASSUME FleetInv, UNCHANGED <<remoteRow, collect, link, today, fleetChanges>>,
           NEW m, NEW st, NEW o, NEW pr, NEW pc, NEW a, GraceStep(m, st, o, pr, pc, a)
    PROVE  FleetInv'
  <1>1. /\ instance'.mode = m /\ instance'.storedMode = st /\ instance'.lastOk = o
        /\ sync'.pc = pc /\ sync'.answer = a
    BY DEF GraceStep
  <1>2. GraceKept'
    BY <1>1 DEF GraceStep, GraceKept, Never
  <1>3. instance' \in InstanceType /\ sync' \in SyncType
    BY DEF GraceStep, InstanceType, SyncType
  <1>4. FleetSyncTypeOK'
    BY <1>3 DEF GraceStep, FleetInv, FleetSyncTypeOK, SyncType, InstanceType
  <1> QED
    BY <1>2, <1>4 DEF FleetInv

\* The steps of the instance.
LEMMA InstanceKeeps ==
    ASSUME FleetInv, SyncLoop \/ SyncGarbled \/ RestartInstance
    PROVE  FleetInv'
  <1>1. /\ sync \in SyncType /\ today \in 0..MaxSyncDays /\ lastAnswer \in 0..(MaxSyncDays + 1)
        /\ instance \in InstanceType /\ MaxSyncDays \in Nat /\ GraceDays \in Nat /\ torn \in BOOLEAN
        /\ syncFaults \in 0..MaxSyncFaults /\ MaxSyncFaults \in Nat
    BY FleetBounds DEF FleetInv, FleetSyncTypeOK, SyncType, InstanceType
  <1>2. UNCHANGED <<remoteRow, collect, link, today, fleetChanges>>
    BY DEF SyncLoop, StartSync, SyncAnswered, SyncRefused, Stamp, StoreMode, OnModeChange, CheckGrace,
           SyncGarbled, RestartInstance
  <1>3. PICK day \in 0..(MaxSyncDays + 1) : day = today + 1 /\ day > 0
    BY <1>1
  <1>4. PICK mode \in Modes, stored \in Modes, ok \in 0..(MaxSyncDays + 1), print \in 0..1 :
           instance = [mode |-> mode, storedMode |-> stored, lastOk |-> ok, print |-> print]
    BY <1>1 DEF InstanceType
  <1>5. PICK answer \in Modes : answer = sync.answer
    BY <1>1 DEF SyncType
  <1>6. /\ lastAnswer <= day /\ "active" \in Modes /\ "maintenance" \in Modes
        /\ ok # 0 \/ sync.pc = "stamp" => lastAnswer # 0
        /\ sync.pc # "stamp" /\ ~torn => lastAnswer <= ok
        /\ sync.pc = "stamp" => answer = "active"
        /\ sync.pc \in {"store", "apply"} /\ ~torn => (answer = "maintenance" => Silent)
        /\ sync.pc = "apply" /\ ~torn => stored = answer
        /\ sync.pc \notin {"stamp", "store", "apply"} /\ ~torn =>
              (mode = "maintenance" \/ stored = "maintenance" => Silent)
    BY <1>3, <1>4, <1>5 DEF FleetInv, GraceKept, Never, Modes
  <1>7. day = today' + 1 /\ (UNCHANGED lastAnswer => (Silent' <=> Silent))
    BY <1>2, <1>3 DEF Silent
  <1>8. CASE StartSync
    <2>1. /\ sync.pc = "idle" /\ sync' = [pc |-> "asked", answer |-> answer]
          /\ instance' = [mode |-> mode, storedMode |-> stored, lastOk |-> ok, print |-> 1]
          /\ UNCHANGED <<lastAnswer, torn, syncFaults>>
      BY <1>1, <1>4, <1>5, <1>8 DEF StartSync, SyncStep, SyncType
    <2>2. GraceStep(mode, stored, ok, 1, "asked", answer)
      BY <1>1, <1>6, <1>7, <2>1 DEF GraceStep
    <2> QED
      BY <1>2, <2>2, GraceStepKeeps
  <1>9. CASE SyncAnswered
    <2>1. /\ sync' = [pc |-> "stamp", answer |-> "active"] /\ lastAnswer' = day /\ torn' = FALSE
          /\ instance' = instance /\ syncFaults' = syncFaults
      BY <1>3, <1>9, ModeNotFound DEF SyncAnswered
    <2>2. lastAnswer' \in 0..(MaxSyncDays + 1) /\ lastAnswer' <= today' + 1 /\ lastAnswer' # 0
      BY <1>3, <1>7, <2>1
    <2>3. GraceStep(mode, stored, ok, print, "stamp", "active")
      BY <1>1, <1>4, <1>6, <2>1, <2>2 DEF GraceStep
    <2> QED
      BY <1>2, <2>3, GraceStepKeeps
  <1>10. CASE SyncRefused \/ SyncGarbled
    <2>1. PICK pc \in {"idle", "grace"} : sync' = [pc |-> pc, answer |-> answer]
      BY <1>1, <1>5, <1>10 DEF SyncRefused, SyncGarbled, SyncStep, SyncType
    <2>2. /\ sync.pc = "asked" /\ instance' = instance /\ UNCHANGED <<lastAnswer, torn>>
          /\ syncFaults' \in 0..MaxSyncFaults
      BY <1>1, <1>10 DEF SyncRefused, SyncGarbled, SyncStep
    <2>3. GraceStep(mode, stored, ok, print, pc, answer)
      BY <1>1, <1>4, <1>6, <1>7, <2>1, <2>2 DEF GraceStep
    <2> QED
      BY <1>2, <2>3, GraceStepKeeps
  <1>11. CASE Stamp
    <2>1. sync.pc = "stamp" /\ sync' = [pc |-> "store", answer |-> "active"] /\ lastAnswer' = lastAnswer
      BY <1>1, <1>5, <1>6, <1>11 DEF Stamp, SyncStep, SyncType
    <2>2. PICK o \in {ok, day} :
             /\ instance' = [mode |-> mode, storedMode |-> stored, lastOk |-> o, print |-> print]
             /\ torn' \in BOOLEAN /\ (~torn' => o = day) /\ syncFaults' \in 0..MaxSyncFaults
      <3>1. CASE instance' = [instance EXCEPT !.lastOk = today + 1] /\ Succeeds
        BY <1>1, <1>3, <1>4, <3>1 DEF Succeeds
      <3>2. CASE instance' = instance /\ Fails
        BY <1>1, <1>4, <3>2 DEF Fails
      <3> QED
        BY <1>11, <3>1, <3>2 DEF Stamp
    <2>3. GraceStep(mode, stored, o, print, "store", "active")
      BY <1>1, <1>3, <1>4, <1>6, <1>7, <2>1, <2>2 DEF GraceStep
    <2> QED
      BY <1>2, <2>3, GraceStepKeeps
  <1>12. CASE StoreMode
    <2>1. sync.pc = "store" /\ sync' = [pc |-> "apply", answer |-> answer] /\ lastAnswer' = lastAnswer
      BY <1>1, <1>5, <1>12 DEF StoreMode, SyncStep, SyncType
    <2>2. PICK st \in {stored, answer} :
             /\ instance' = [mode |-> mode, storedMode |-> st, lastOk |-> ok, print |-> print]
             /\ torn' \in BOOLEAN /\ (~torn' => st = answer /\ ~torn) /\ syncFaults' \in 0..MaxSyncFaults
      <3>1. CASE instance' = [instance EXCEPT !.storedMode = sync.answer] /\ Succeeds
        <4>1. /\ instance' = [mode |-> mode, storedMode |-> answer, lastOk |-> ok, print |-> print]
              /\ torn' = torn /\ syncFaults' = syncFaults
          BY <1>4, <1>5, <3>1 DEF Succeeds
        <4>2. torn' \in BOOLEAN /\ (~torn' => ~torn) /\ syncFaults' \in 0..MaxSyncFaults
          BY <1>1, <4>1
        <4> QED
          BY <4>1, <4>2
      <3>2. CASE instance' = instance /\ Fails
        BY <1>1, <1>4, <3>2 DEF Fails
      <3> QED
        BY <1>12, <3>1, <3>2 DEF StoreMode
    <2>3. GraceStep(mode, st, ok, print, "apply", answer)
      BY <1>1, <1>4, <1>6, <1>7, <2>1, <2>2 DEF GraceStep
    <2> QED
      BY <1>2, <2>3, GraceStepKeeps
  <1>13. CASE OnModeChange
    <2>1. /\ sync.pc = "apply" /\ sync' = [pc |-> "idle", answer |-> answer]
          /\ instance' = [mode |-> answer, storedMode |-> stored, lastOk |-> ok, print |-> print]
          /\ UNCHANGED <<lastAnswer, torn, syncFaults>>
      BY <1>1, <1>4, <1>5, <1>13 DEF OnModeChange, SyncStep, SyncType
    <2>2. GraceStep(answer, stored, ok, print, "idle", answer)
      BY <1>1, <1>4, <1>6, <1>7, <2>1 DEF GraceStep
    <2> QED
      BY <1>2, <2>2, GraceStepKeeps
  <1>14. CASE CheckGrace
    <2>1. /\ sync.pc = "grace" /\ instance' = instance /\ UNCHANGED <<lastAnswer, torn>>
          /\ syncFaults' \in 0..MaxSyncFaults
      BY <1>1, <1>14 DEF CheckGrace
    <2>2. CASE sync' = [sync EXCEPT !.pc = "idle"]
      <3>1. sync' = [pc |-> "idle", answer |-> answer]
        BY <1>1, <1>5, <2>2 DEF SyncType
      <3>2. GraceStep(mode, stored, ok, print, "idle", answer)
        BY <1>1, <1>4, <1>6, <1>7, <2>1, <3>1 DEF GraceStep
      <3> QED
        BY <1>2, <3>2, GraceStepKeeps
    <2>3. CASE GraceOver /\ sync' = [pc |-> "store", answer |-> "maintenance"]
      <3>1. ok # 0 /\ day - ok > GraceDays
        <4>1. instance.lastOk = ok /\ today \in Nat /\ ok \in Nat /\ GraceDays \in Nat
          BY <1>1, <1>4
        <4>2. ok # 0 /\ today + 1 - ok > GraceDays
          BY <2>3, <4>1 DEF GraceOver, Never
        <4> QED
          BY <1>3, <4>1, <4>2
      <3>2. ~torn => day - lastAnswer > GraceDays
        <4>1. PICK c \in Nat : c = lastAnswer
          BY <1>1
        <4>2. ~torn => c <= ok
          BY <1>6, <2>1, <4>1
        <4>3. c <= ok => day - c > GraceDays
          BY <1>1, <3>1, <4>1
        <4> QED
          BY <4>1, <4>2, <4>3
      <3>3. ~torn => Silent
        <4>1. lastAnswer # 0
          BY <1>6, <3>1
        <4>2. today + 1 - lastAnswer = day - lastAnswer
          <5>1. today \in Nat /\ lastAnswer \in Nat
            BY <1>1
          <5> QED
            BY <1>3, <5>1
        <4> QED
          BY <3>2, <4>1, <4>2 DEF Silent, Never
      <3>4. GraceStep(mode, stored, ok, print, "store", "maintenance")
        BY <1>1, <1>4, <1>6, <1>7, <2>1, <2>3, <3>3 DEF GraceStep
      <3> QED
        BY <1>2, <3>4, GraceStepKeeps
    <2> QED
      BY <1>14, <2>2, <2>3 DEF CheckGrace
  <1>15. CASE RestartInstance
    <2>1. /\ sync' = [pc |-> "idle", answer |-> answer]
          /\ instance' = [mode |-> stored, storedMode |-> stored, lastOk |-> ok, print |-> print]
          /\ lastAnswer' = lastAnswer /\ syncFaults' \in 0..MaxSyncFaults
      BY <1>1, <1>4, <1>5, <1>15 DEF RestartInstance, SyncType
    <2>2. torn' \in BOOLEAN /\ (~torn' => ~torn /\ sync.pc \notin {"stamp", "store", "apply"})
      BY <1>1, <1>15 DEF RestartInstance
    <2>3. GraceStep(stored, stored, ok, print, "idle", answer)
      BY <1>1, <1>4, <1>6, <1>7, <2>1, <2>2 DEF GraceStep
    <2> QED
      BY <1>2, <2>3, GraceStepKeeps
  <1> QED
    BY <1>8, <1>9, <1>10, <1>11, <1>12, <1>13, <1>14, <1>15 DEF SyncLoop

\* A period that is over stays over, and a day stays in the past.
LEMMA LaterDay ==
    ASSUME NEW a \in Nat, NEW b \in Nat, NEW c \in Nat, NEW g \in Nat, b >= a
    PROVE  (a + 1 - c > g => b + 1 - c > g) /\ (c <= a + 1 => c <= b + 1)
  OBVIOUS

ManagerStep ==
    \/ CollectLoop \/ Register \/ Unregister \/ \E m \in Modes : SetServiceMode(m)
    \/ NextDay \/ LinkChange

LEMMA ManagerKeeps ==
    ASSUME FleetInv, ManagerStep
    PROVE  FleetInv'
  <1>1. /\ sync \in SyncType /\ today \in 0..MaxSyncDays /\ lastAnswer \in 0..(MaxSyncDays + 1)
        /\ remoteRow \in [exists: BOOLEAN, mode: Modes, print: 0..1] /\ MaxSyncDays \in Nat /\ GraceDays \in Nat
        /\ instance \in InstanceType
        /\ fleetChanges \in 0..MaxFleetChanges /\ MaxFleetChanges \in Nat /\ "active" \in Modes
        /\ syncFaults \in 0..MaxSyncFaults /\ MaxSyncFaults \in Nat
    BY FleetBounds DEF FleetInv, FleetSyncTypeOK, SyncType, InstanceType, Modes
  <1>2. UNCHANGED <<instance, sync, lastAnswer, torn>>
    BY DEF ManagerStep, CollectLoop, CollectHealth, FetchIdentity, SaveSnapshot, Register, Unregister, SetServiceMode,
           NextDay, LinkChange
  <1>3. PICK no, yes \in BOOLEAN : no = FALSE /\ yes = TRUE
    OBVIOUS
  <1>4. remoteRow' \in [exists: BOOLEAN, mode: Modes, print: 0..1]
    <2>1. CASE Register
      <3>1. remoteRow' = [exists |-> yes, mode |-> "active", print |-> 0]
        BY <1>3, <2>1 DEF Register, NoPrint
      <3> QED
        BY <1>1, <3>1
    <2>2. CASE Unregister
      <3>1. remoteRow' = [remoteRow EXCEPT !.exists = no]
        BY <1>3, <2>2 DEF Unregister
      <3> QED
        BY <1>1, <3>1
    <2>3. CASE \E m \in Modes : SetServiceMode(m)
      BY <1>1, <2>3 DEF SetServiceMode
    <2>4. CASE CollectLoop \/ NextDay \/ LinkChange
      BY <1>1, <2>4 DEF CollectLoop, CollectHealth, FetchIdentity, SaveSnapshot, NextDay, LinkChange,
                        InstanceType
    <2> QED
      BY <2>1, <2>2, <2>3, <2>4 DEF ManagerStep
  <1>5. /\ today' \in 0..MaxSyncDays /\ today' >= today
        /\ fleetChanges' \in 0..MaxFleetChanges /\ syncFaults' \in 0..MaxSyncFaults
    BY <1>1 DEF ManagerStep, CollectLoop, CollectHealth, FetchIdentity, SaveSnapshot, Register, Unregister,
                SetServiceMode, NextDay, LinkChange
  <1>6. collect' \in {"idle", "identity", "save"} /\ link' \in BOOLEAN
    BY DEF ManagerStep, CollectLoop, CollectHealth, FetchIdentity, SaveSnapshot, Register, Unregister, SetServiceMode,
           NextDay, LinkChange, FleetInv, FleetSyncTypeOK
  <1>7. FleetSyncTypeOK'
    BY <1>1, <1>2, <1>4, <1>5, <1>6 DEF FleetInv, FleetSyncTypeOK, SyncType, InstanceType
  <1>8. /\ today + 1 - lastAnswer > GraceDays => today' + 1 - lastAnswer > GraceDays
        /\ lastAnswer <= today + 1 => lastAnswer <= today' + 1
    <2>1. today \in Nat /\ today' \in Nat /\ lastAnswer \in Nat /\ GraceDays \in Nat /\ today' >= today
      BY <1>1, <1>5
    <2> QED
      BY <2>1, LaterDay
  <1>9. (Silent => Silent') /\ lastAnswer' <= today' + 1
    BY <1>2, <1>8 DEF Silent, FleetInv, GraceKept
  <1>10. GraceKept'
    BY <1>2, <1>9 DEF FleetInv, GraceKept
  <1> QED
    BY <1>7, <1>10 DEF FleetInv

LEMMA FleetInvNext == FleetInv /\ [FleetSyncNext]_fleetVars => FleetInv'
  <1> SUFFICES ASSUME FleetInv, [FleetSyncNext]_fleetVars PROVE FleetInv'
    OBVIOUS
  <1>1. CASE FleetSyncNext
    BY <1>1, InstanceKeeps, ManagerKeeps DEF FleetSyncNext, ManagerStep
  <1>2. CASE UNCHANGED fleetVars
    BY <1>2 DEF fleetVars, FleetInv, FleetSyncTypeOK, GraceKept, Silent
  <1> QED
    BY <1>1, <1>2

\* An instance is in maintenance only when the grace period has passed without a
\* good answer, for any length of it and any number of outages and restarts,
\* unless what the last answer asks for could not all be stored (cfgsync.go).
THEOREM GraceHonouredAlways == FleetSyncSpec => [](FleetSyncTypeOK /\ GraceHonoured)
  <1>1. FleetInv => FleetSyncTypeOK /\ GraceHonoured
    BY DEF FleetInv, GraceKept, GraceHonoured, Silent
  <1> QED
    BY <1>1, FleetInvInit, FleetInvNext, PTL DEF FleetSyncSpec

-----------------------------------------------------------------------------
(* Capture. *)

\* What a row and its run may be.
CaptureRow == [status : {"none", "running", "stopped", "error"},
        pc : {"none", "claimed", "created", "launch", "read", "flush", "wait", "report", "over"},
        ctxDone : BOOLEAN, alive : BOOLEAN, current : {0} \cup PacketLengths,
        batch : Nat, stored : Nat, shared : BOOLEAN]

Totals == [packets : Nat, bytes : Nat]

CaptureTyped ==
    /\ running \in BOOLEAN /\ cancelOf \in 0..MaxSessions /\ stats \in Totals
    /\ session \in [SessionIds -> CaptureRow]
    /\ stop \in [pc : {"idle", "cancelled", "stored"}, id : 0..MaxSessions, packets : {0}]
    /\ stops \in 0..MaxStops

\* The packets a run keeps are counted, and within the limit; the packet being read
\* has room below the limit, or is not going to be kept.
HasRoom(st, s) ==
    /\ s.stored + s.batch <= st.packets /\ s.stored + s.batch <= MaxPackets
    /\ s.current = 0 \/ st.bytes + s.current >= MaxBytes \/ st.packets < MaxPackets

Launched(s) == s.pc \in {"launch", "read", "flush", "wait", "report"}
Counting(s) == s.pc \in {"launch", "read", "flush"}
Empty(s) == s.stored = 0 /\ s.batch = 0 /\ s.current = 0

\* One row: nothing is kept before its tcpdump starts; alone it has room; it is within
\* the limit when its run is over, too.
RowOK(st, s) ==
    /\ s.pc \in {"none", "claimed", "created", "launch"} => Empty(s)
    /\ ~ s.shared => s.stored <= MaxPackets
    /\ ~ s.shared /\ Counting(s) => HasRoom(st, s)

\* Two captures at once share the statistics, both of them.
SharedByAll == \A i, j \in SessionIds : i # j /\ Launched(session[i]) /\ Launched(session[j]) => session[i].shared

CaptureInv == CaptureTyped /\ (\A i \in SessionIds : RowOK(stats, session[i])) /\ SharedByAll

\* The limits are positive.
LEMMA CaptureLimits ==
    /\ MaxSessions \in Nat \ {0} /\ MaxPackets \in Nat \ {0} /\ MaxBytes \in Nat \ {0} /\ MaxStops \in Nat \ {0}
    /\ SessionIds \subseteq Nat \ {0}
<1>1. MaxSessions \in Nat \ {0} /\ MaxPackets \in Nat \ {0} /\ MaxBytes \in Nat \ {0} /\ MaxStops \in Nat \ {0}
  BY CaptureAssumption
<1> QED
  BY <1>1 DEF SessionIds

\* The statistics are numbers.
LEMMA CountedType == ASSUME NEW st \in Totals, NEW s \in CaptureRow PROVE Counted(st, s) \in Totals
  BY DEF Counted, Totals, CaptureRow, PacketLengths

\* A finished packet moves to the batch or stays, and leaves the rest of the row.
LEMMA FinalizedType ==
    ASSUME NEW st \in Totals, NEW s \in CaptureRow
    PROVE  /\ Finalized(st, s) \in CaptureRow
           /\ Finalized(st, s).pc = s.pc /\ Finalized(st, s).stored = s.stored
           /\ (Finalized(st, s).shared <=> s.shared) /\ (Finalized(st, s).ctxDone <=> s.ctxDone)
<1>1. PICK n \in Nat : n = s.batch + 1
  BY DEF CaptureRow
<1>2. PICK t : t = [s EXCEPT !.batch = n, !.current = 0]
  OBVIOUS
<1>3. /\ t \in CaptureRow /\ t.pc = s.pc /\ t.stored = s.stored /\ (t.shared <=> s.shared) /\ (t.ctxDone <=> s.ctxDone)
  BY <1>2 DEF CaptureRow
<1>4. Finalized(st, s) = s \/ Finalized(st, s) = t
  BY <1>1, <1>2 DEF Finalized
<1> QED
  BY <1>3, <1>4

\* A flush empties the batch, and stores it unless the context has ended.
LEMMA FlushedType ==
    ASSUME NEW s \in CaptureRow
    PROVE  /\ Flushed(s) \in CaptureRow /\ Flushed(s).pc = s.pc /\ (Flushed(s).shared <=> s.shared)
           /\ Flushed(s).batch = 0 /\ Flushed(s).current = s.current
           /\ Flushed(s).stored = (IF s.ctxDone THEN s.stored ELSE s.stored + s.batch)
<1>1. PICK n \in Nat : n = IF s.ctxDone THEN s.stored ELSE s.stored + s.batch
  BY DEF CaptureRow
<1>2. PICK t : t = [s EXCEPT !.stored = n, !.batch = 0]
  OBVIOUS
<1>3. /\ t \in CaptureRow /\ t.pc = s.pc /\ t.stored = n /\ t.batch = 0 /\ t.current = s.current /\ (t.shared <=> s.shared)
  BY <1>2 DEF CaptureRow
<1>4. Flushed(s) = t
  BY <1>1, <1>2 DEF Flushed
<1> QED
  BY <1>1, <1>3, <1>4

\* A finished packet is kept only if it had room.
LEMMA FinalizedRoom ==
    ASSUME NEW st \in Totals, NEW s \in CaptureRow, HasRoom(st, s)
    PROVE  HasRoom(Counted(st, s), Finalized(st, s))
<1>1. PICK p \in Nat, b \in Nat, c \in {0} \cup PacketLengths, n \in Nat, m \in Nat :
        p = st.packets /\ b = st.bytes /\ c = s.current /\ n = s.batch /\ m = s.stored
  BY DEF Totals, CaptureRow
<1>2. m + n <= p /\ m + n <= MaxPackets /\ (c = 0 \/ b + c >= MaxBytes \/ p < MaxPackets)
  BY <1>1 DEF HasRoom
<1>3. CASE c = 0
  BY <1>1, <1>2, <1>3 DEF HasRoom, Counted, Finalized
<1>4. CASE c # 0 /\ b + c >= MaxBytes
  <2>1. Counted(st, s) = [packets |-> p + 1, bytes |-> b + c] /\ Finalized(st, s) = s
    BY <1>1, <1>4 DEF Counted, Finalized, OverBytes
  <2>2. m + n <= p + 1 /\ (b + c) + c >= MaxBytes
    BY <1>2, <1>4, CaptureLimits DEF PacketLengths
  <2> QED
    BY <1>1, <1>2, <2>1, <2>2 DEF HasRoom
<1>5. CASE c # 0 /\ ~ (b + c >= MaxBytes)
  <2>1. Counted(st, s) = [packets |-> p + 1, bytes |-> b + c] /\ Finalized(st, s) = [s EXCEPT !.batch = n + 1, !.current = 0]
    BY <1>1, <1>5 DEF Counted, Finalized, OverBytes
  <2>2. m + (n + 1) <= p + 1 /\ m + (n + 1) <= MaxPackets
    BY <1>2, <1>5, CaptureLimits
  <2>3. /\ [s EXCEPT !.batch = n + 1, !.current = 0].stored = m
        /\ [s EXCEPT !.batch = n + 1, !.current = 0].batch = n + 1
        /\ [s EXCEPT !.batch = n + 1, !.current = 0].current = 0
    BY <1>1 DEF CaptureRow
  <2> QED
    BY <2>1, <2>2, <2>3 DEF HasRoom
<1> QED
  BY <1>3, <1>4, <1>5

\* What is flushed is stored, or lost with an ended context.
LEMMA FlushedRoom ==
    ASSUME NEW st \in Totals, NEW s \in CaptureRow, HasRoom(st, s)
    PROVE  HasRoom(st, Flushed(s))
<1>1. PICK p \in Nat, n \in Nat, m \in Nat : p = st.packets /\ n = s.batch /\ m = s.stored
  BY DEF Totals, CaptureRow
<1>2. m + n <= p /\ m + n <= MaxPackets
  BY <1>1 DEF HasRoom
<1>3. m + 0 <= p /\ m + 0 <= MaxPackets /\ (m + n) + 0 <= p /\ (m + n) + 0 <= MaxPackets
  BY <1>2, CaptureLimits
<1>4. Flushed(s).batch = 0 /\ Flushed(s).current = s.current /\ (Flushed(s).stored = m \/ Flushed(s).stored = m + n)
  BY <1>1, FlushedType
<1> QED
  BY <1>1, <1>3, <1>4 DEF HasRoom

\* The next packet has room while the limit is not reached.
LEMMA NextRoom ==
    ASSUME NEW st \in Totals, NEW s \in CaptureRow, NEW length \in PacketLengths, HasRoom(st, s), ~ QuotaReached(st.packets)
    PROVE  /\ [s EXCEPT !.current = length] \in CaptureRow /\ HasRoom(st, [s EXCEPT !.current = length])
<1>1. st.packets \in Nat
  BY DEF Totals
<1>2. st.packets < MaxPackets
  BY <1>1, CaptureLimits DEF QuotaReached
<1>3. /\ [s EXCEPT !.current = length].stored = s.stored /\ [s EXCEPT !.current = length].batch = s.batch
  BY DEF CaptureRow
<1> QED
  BY <1>2, <1>3 DEF HasRoom, CaptureRow

\* At first no row is in use.
LEMMA CaptureInitOK == CaptureInit => CaptureInv
<1> SUFFICES ASSUME CaptureInit PROVE CaptureInv
  OBVIOUS
<1>1. NoSession \in CaptureRow
  BY DEF NoSession, CaptureRow
<1>2. CaptureTyped
  <2>1. NoStats \in Totals /\ NoStop \in [pc : {"idle", "cancelled", "stored"}, id : 0..MaxSessions, packets : {0}]
    BY CaptureLimits DEF NoStats, NoStop, Totals
  <2>2. 0 \in 0..MaxSessions /\ 0 \in 0..MaxStops
    BY CaptureLimits
  <2> QED
    BY <1>1, <2>1, <2>2 DEF CaptureInit, CaptureTyped
<1>3. NoSession.pc = "none" /\ NoSession.stored = 0 /\ NoSession.batch = 0 /\ NoSession.current = 0
  BY DEF NoSession
<1>4. \A i \in SessionIds : session[i] = NoSession
  BY DEF CaptureInit
<1>5. RowOK(stats, NoSession) /\ ~ Launched(NoSession)
  BY <1>3, CaptureLimits DEF RowOK, Empty, Counting, Launched
<1>6. SharedByAll
  BY <1>4, <1>5 DEF SharedByAll
<1>7. \A i \in SessionIds : RowOK(stats, session[i])
  BY <1>4, <1>5
<1> QED
  BY <1>2, <1>6, <1>7 DEF CaptureInv

\* A step of one row that leaves the statistics to it, or leaves them alone.
LEMMA OneRow ==
    ASSUME CaptureInv, NEW i \in SessionIds, NEW s \in CaptureRow, Set(i, s),
           running' \in BOOLEAN, stats' \in Totals, UNCHANGED <<cancelOf, stop, stops>>,
           RowOK(stats', s), s.shared <=> session[i].shared,
           Launched(s) => Launched(session[i]),
           stats' = stats \/ Counting(session[i])
    PROVE  CaptureInv'
<1>1. session \in [SessionIds -> CaptureRow]
  BY DEF CaptureInv, CaptureTyped
<1>2. session'[i] = s /\ \A j \in SessionIds \ {i} : session'[j] = session[j]
  BY <1>1 DEF Set
<1>3. ASSUME NEW j \in SessionIds \ {i} PROVE RowOK(stats', session'[j])
  <2>1. RowOK(stats, session[j])
    BY DEF CaptureInv
  <2>2. CASE stats' = stats
    BY <1>2, <2>1, <2>2
  <2>3. CASE Counting(session[i])
    <3>1. session[j].shared \/ ~ Counting(session[j])
      BY <2>3 DEF CaptureInv, SharedByAll, Launched, Counting
    <3> QED
      BY <1>2, <2>1, <3>1 DEF RowOK
  <2> QED
    BY <2>2, <2>3
<1>4. SharedByAll'
  <2>1. ASSUME NEW j \in SessionIds, Launched(session'[j]) PROVE Launched(session[j]) /\ (session[j].shared => session'[j].shared)
    BY <1>2, <2>1
  <2> QED
    BY <2>1 DEF CaptureInv, SharedByAll
<1>5. \A j \in SessionIds : RowOK(stats', session'[j])
  BY <1>2, <1>3
<1>6. CaptureTyped'
  BY <1>1 DEF CaptureInv, CaptureTyped, Set
<1> QED
  BY <1>4, <1>5, <1>6 DEF CaptureInv

\* A row whose stage and packets stay.
SameStage(s, t) ==
    /\ t.pc = s.pc /\ t.stored = s.stored /\ t.batch = s.batch /\ t.current = s.current
    /\ t.shared <=> s.shared

\* What says nothing of stages and packets keeps the invariant.
LEMMA SameRows ==
    ASSUME CaptureInv, CaptureTyped', stats' = stats,
           \A i \in SessionIds : SameStage(session[i], session'[i])
    PROVE  CaptureInv'
<1>1. \A i \in SessionIds : RowOK(stats', session'[i])
  BY DEF CaptureInv, RowOK, SameStage, Empty, Counting, HasRoom
<1>2. SharedByAll'
  BY DEF CaptureInv, SharedByAll, SameStage, Launched
<1> QED
  BY <1>1, <1>2 DEF CaptureInv

\* Every capture that is not over when another is launched shares with it.
LEMMA LaunchKeeps == ASSUME CaptureInv, NEW i \in SessionIds, LaunchCapture(i) PROVE CaptureInv'
<1>0. CaptureTyped /\ SharedByAll /\ \A j \in SessionIds : RowOK(stats, session[j])
  BY DEF CaptureInv
<1>1. PICK others \in BOOLEAN : others <=> \E k \in SessionIds \ {i} : Live(k)
  OBVIOUS
<1>2. session[i] \in CaptureRow /\ session[i].pc = "created"
  BY <1>0 DEF CaptureTyped, LaunchCapture
<1>3. session'[i].pc = "launch" /\ (session'[i].shared <=> others) /\ session'[i] \in CaptureRow
      /\ session'[i].stored = session[i].stored /\ session'[i].batch = session[i].batch
      /\ session'[i].current = session[i].current
  <2>1. session'[i] = [session[i] EXCEPT !.pc = "launch", !.shared = \E k \in SessionIds \ {i} : Live(k)]
    BY <1>0 DEF LaunchCapture
  <2>2. PICK t : t = [session[i] EXCEPT !.pc = "launch", !.shared = \E k \in SessionIds \ {i} : Live(k)]
    OBVIOUS
  <2>3. (\E k \in SessionIds \ {i} : Live(k)) \in BOOLEAN
    OBVIOUS
  <2>4. /\ t.pc = "launch" /\ (t.shared <=> others) /\ t \in CaptureRow /\ t.stored = session[i].stored
        /\ t.batch = session[i].batch /\ t.current = session[i].current
    BY <1>1, <1>2, <2>2, <2>3 DEF CaptureRow
  <2> QED
    BY <2>1, <2>2, <2>4
<1>4. ASSUME NEW j \in SessionIds \ {i}
      PROVE  /\ session'[j] \in CaptureRow /\ session'[j].pc = session[j].pc
             /\ session'[j].stored = session[j].stored /\ session'[j].batch = session[j].batch
             /\ session'[j].current = session[j].current
             /\ session'[j].shared <=> (session[j].shared \/ Live(j))
  <2>1. session[j] \in CaptureRow
    BY <1>0 DEF CaptureTyped
  <2>2. session'[j] = [session[j] EXCEPT !.shared = session[j].shared \/ Live(j)]
    BY <1>0, <1>4 DEF LaunchCapture
  <2>3. PICK now \in BOOLEAN : now <=> session[j].shared \/ Live(j)
    OBVIOUS
  <2>4. (session[j].shared \/ Live(j)) = now
    BY <2>1, <2>3 DEF CaptureRow, Live
  <2>5. PICK t : t = [session[j] EXCEPT !.shared = now]
    OBVIOUS
  <2>6. /\ t \in CaptureRow /\ t.pc = session[j].pc /\ t.stored = session[j].stored /\ t.batch = session[j].batch
        /\ t.current = session[j].current /\ (t.shared <=> now)
    BY <2>1, <2>5 DEF CaptureRow
  <2> QED
    BY <2>2, <2>3, <2>4, <2>5, <2>6
<1>5. NoStats \in Totals /\ NoStats.packets = 0
  BY DEF NoStats, Totals
<1>6. CaptureTyped'
  <2>1. i \in 0..MaxSessions
    BY CaptureLimits DEF SessionIds
  <2>2. session' \in [SessionIds -> CaptureRow]
    <3>1. \A j \in SessionIds : session'[j] \in CaptureRow
      BY <1>3, <1>4
    <3> QED
      BY <3>1 DEF LaunchCapture
  <2> QED
    BY <1>0, <1>5, <2>1, <2>2 DEF CaptureTyped, LaunchCapture
<1>7. RowOK(stats', session'[i])
  <2>1. session[i].stored = 0 /\ session[i].batch = 0 /\ session[i].current = 0
    BY <1>0, <1>2 DEF RowOK, Empty
  <2>2. stats' = NoStats
    BY DEF LaunchCapture
  <2> QED
    BY <1>3, <1>5, <2>1, <2>2, CaptureLimits DEF RowOK, Empty, HasRoom
<1>8. ASSUME NEW j \in SessionIds \ {i} PROVE RowOK(stats', session'[j])
  <2>1. RowOK(stats, session[j])
    BY <1>0
  <2>2. Counting(session'[j]) => Live(j)
    BY <1>4 DEF Counting, Live
  <2> QED
    BY <1>4, <2>1, <2>2 DEF RowOK, Empty
<1>9. SharedByAll'
  <2>1. ASSUME NEW j \in SessionIds, NEW k \in SessionIds, j # k, Launched(session'[j]), Launched(session'[k])
        PROVE  session'[j].shared
    <3>1. CASE j = i
      <4>1. Live(k)
        BY <1>4, <2>1, <3>1 DEF Launched, Live
      <4> QED
        BY <1>1, <1>3, <2>1, <3>1, <4>1
    <3>2. CASE j # i
      BY <1>4, <2>1, <3>2 DEF Launched, Live
    <3> QED
      BY <3>1, <3>2
  <2> QED
    BY <2>1 DEF SharedByAll
<1> QED
  BY <1>6, <1>7, <1>8, <1>9 DEF CaptureInv

\* A line of tcpdump: the run that reads it goes on, fills its batch, flushes or ends
\* within the limit, if it is alone.
LEMMA ReadKeeps ==
    ASSUME CaptureInv, NEW i \in SessionIds, NEW length \in PacketLengths, ReadLine(i, length)
    PROVE  CaptureInv'
<1>0. session[i] \in CaptureRow /\ stats \in Totals /\ session[i].pc = "read" /\ RowOK(stats, session[i]) /\ running \in BOOLEAN
  BY DEF CaptureInv, CaptureTyped, ReadLine
<1> DEFINE before == Counted(stats, session[i])
           f == Finalized(stats, session[i])
           full == OverBytes(stats, session[i]) \/ QuotaReached(before.packets)
           n == [f EXCEPT !.current = length]
<1>1. before \in Totals /\ f \in CaptureRow /\ f.pc = "read" /\ f.stored = session[i].stored /\ (f.shared <=> session[i].shared)
  BY <1>0, CountedType, FinalizedType
<1>2. ~ f.shared => HasRoom(before, f) /\ f.stored <= MaxPackets
  BY <1>0, <1>1, FinalizedRoom DEF RowOK, Counting
<1>3. UNCHANGED <<running, cancelOf, stop, stops>>
  BY DEF ReadLine
<1>4. Launched(session[i]) /\ Counting(session[i])
  BY <1>0 DEF Launched, Counting
<1>n. n \in CaptureRow /\ n.pc = "read" /\ n.stored = f.stored /\ (n.shared <=> f.shared) /\ (n.ctxDone <=> f.ctxDone)
  BY <1>1 DEF CaptureRow
<1>m. ~ n.shared /\ ~ full => HasRoom(before, n)
  BY <1>1, <1>2, <1>n, NextRoom
<1>c. Counted(before, n) \in Totals /\ Finalized(before, n) \in CaptureRow /\ Finalized(before, n).pc = "read"
      /\ (Finalized(before, n).shared <=> session[i].shared) /\ Finalized(before, n).stored = session[i].stored
  BY <1>1, <1>n, CountedType, FinalizedType
<1>d. ~ session[i].shared /\ ~ full => HasRoom(Counted(before, n), Finalized(before, n))
  BY <1>1, <1>n, <1>m, FinalizedRoom
<1>e. /\ Flushed(Finalized(before, n)) \in CaptureRow /\ Flushed(Finalized(before, n)).pc = "read"
      /\ Flushed(Finalized(before, n)).shared <=> session[i].shared
  BY <1>c, FlushedType
<1>f. ~ session[i].shared /\ ~ full => HasRoom(Counted(before, n), Flushed(Finalized(before, n)))
  BY <1>c, <1>d, FlushedRoom
<1>g. ASSUME NEW st \in Totals, NEW s \in CaptureRow, s.pc = "read" \/ s.pc = "flush" \/ s.pc = "over",
             s.shared <=> session[i].shared,
             ~ session[i].shared => s.stored <= MaxPackets,
             ~ session[i].shared /\ s.pc # "over" => HasRoom(st, s),
             stats' = st, Set(i, s)
      PROVE  CaptureInv'
  <2>1. RowOK(st, s)
    <3>1. ~ s.shared => s.stored <= MaxPackets
      BY <1>g
    <3>2. ~ s.shared /\ s.pc # "over" => HasRoom(st, s)
      BY <1>g
    <3>3. s.pc \notin {"none", "claimed", "created", "launch"}
      BY <1>g
    <3>4. Counting(s) => s.pc # "over"
      BY DEF Counting
    <3> QED
      BY <3>1, <3>2, <3>3, <3>4 DEF RowOK
  <2>2. ~ Launched(s) \/ Launched(session[i])
    BY <1>4
  <2> QED
    BY <1>3, <1>0, <1>4, <1>g, <2>1, <2>2, OneRow
<1>h. ASSUME NEW st \in Totals, NEW s \in CaptureRow, HasRoom(st, s) PROVE s.stored <= MaxPackets
  <2>1. s.stored \in Nat /\ s.batch \in Nat
    BY DEF CaptureRow
  <2> QED
    BY <1>h, <2>1, CaptureLimits DEF HasRoom
<1>5. CASE full /\ stats' = before /\ Set(i, [f EXCEPT !.pc = "flush"])
  <2> DEFINE s == [f EXCEPT !.pc = "flush"]
  <2>1. /\ s \in CaptureRow /\ s.pc = "flush" /\ s.stored = f.stored /\ s.batch = f.batch /\ s.current = f.current
        /\ (s.shared <=> f.shared)
    BY <1>1 DEF CaptureRow
  <2>2. ~ f.shared => HasRoom(before, s)
    BY <1>2, <2>1 DEF HasRoom
  <2> HIDE DEF s, before, f
  <2>3. Set(i, s) /\ stats' = before
    BY <1>5 DEF s
  <2> QED
    BY <1>1, <1>2, <1>g, <2>1, <2>2, <2>3
<1>6. CASE ~ full /\ stats' = before /\ Set(i, n)
  <2>1. ~ session[i].shared => HasRoom(before, n) /\ n.stored <= MaxPackets
    BY <1>1, <1>2, <1>6, <1>n, <1>m
  <2> HIDE DEF before, n, full
  <2> QED
    BY <1>1, <1>6, <1>g, <1>n, <2>1
<1>7. CASE ~ full /\ stats' = Counted(before, n) /\ Set(i, Flushed(Finalized(before, n)))
  <2> DEFINE s == Flushed(Finalized(before, n))
             st == Counted(before, n)
  <2>1. ~ session[i].shared => HasRoom(st, s) /\ s.stored <= MaxPackets
    BY <1>7, <1>c, <1>e, <1>f, <1>h
  <2>2. s \in CaptureRow /\ s.pc = "read" /\ (s.shared <=> session[i].shared) /\ st \in Totals /\ Set(i, s) /\ stats' = st
    BY <1>7, <1>c, <1>e
  <2> HIDE DEF s, st
  <2> QED
    BY <1>g, <2>1, <2>2
<1>8. CASE ~ full /\ stats' = Counted(before, n)
           /\ Set(i, [Flushed(Finalized(before, n)) EXCEPT !.pc = "over", !.current = 0])
  <2> DEFINE t == Flushed(Finalized(before, n))
             s == [t EXCEPT !.pc = "over", !.current = 0]
             st == Counted(before, n)
  <2>1. ~ session[i].shared => t.stored <= MaxPackets
    BY <1>8, <1>c, <1>e, <1>f, <1>h
  <2>2. t \in CaptureRow /\ (t.shared <=> session[i].shared) /\ st \in Totals /\ stats' = st
    BY <1>8, <1>c, <1>e
  <2>3. Set(i, s)
    BY <1>8
  <2> HIDE DEF t, st
  <2>4. s \in CaptureRow /\ s.pc = "over" /\ s.stored = t.stored /\ (s.shared <=> t.shared)
    BY <2>2 DEF CaptureRow
  <2> HIDE DEF s
  <2> QED
    BY <1>g, <2>1, <2>2, <2>3, <2>4
<1> QED
  BY <1>5, <1>6, <1>7, <1>8 DEF ReadLine

\* The last flush of a run stores what it has kept.
LEMMA LastFlushKeeps == ASSUME CaptureInv, NEW i \in SessionIds, LastFlush(i) PROVE CaptureInv'
<1>0. session[i] \in CaptureRow /\ stats \in Totals /\ session[i].pc = "flush" /\ RowOK(stats, session[i]) /\ running \in BOOLEAN
  BY DEF CaptureInv, CaptureTyped, LastFlush
<1> DEFINE st == Counted(stats, session[i])
           f == Finalized(stats, session[i])
           t == Flushed(f)
           s == [t EXCEPT !.pc = "wait", !.current = 0]
<1>1. st \in Totals /\ f \in CaptureRow /\ f.pc = "flush" /\ (f.shared <=> session[i].shared)
  BY <1>0, CountedType, FinalizedType
<1>2. t \in CaptureRow /\ (t.shared <=> session[i].shared)
  BY <1>1, FlushedType
<1>3. ~ session[i].shared => HasRoom(st, t)
  BY <1>0, <1>1, FinalizedRoom, FlushedRoom DEF RowOK, Counting
<1>4. ~ session[i].shared => t.stored <= MaxPackets
  <2>1. t.stored \in Nat /\ t.batch \in Nat
    BY <1>2 DEF CaptureRow
  <2> QED
    BY <1>3, <2>1, CaptureLimits DEF HasRoom
<1>5. Set(i, s) /\ stats' = st /\ UNCHANGED <<running, cancelOf, stop, stops>>
  BY DEF LastFlush
<1> HIDE DEF t, st
<1>6. s \in CaptureRow /\ s.pc = "wait" /\ s.stored = t.stored /\ (s.shared <=> t.shared)
  BY <1>2 DEF CaptureRow
<1> HIDE DEF s
<1>7. RowOK(st, s)
  BY <1>2, <1>4, <1>6 DEF RowOK, Counting
<1>8. Launched(session[i]) /\ Counting(session[i])
  BY <1>0 DEF Launched, Counting
<1> QED
  BY <1>0, <1>1, <1>2, <1>5, <1>6, <1>7, <1>8, OneRow

\* A stage of a run that leaves the packets and the statistics alone, and does not
\* launch: a run that is not over goes on to read only from its launch.
LEMMA StageKeeps ==
    ASSUME CaptureInv, NEW i \in SessionIds, NEW s \in CaptureRow, Set(i, s),
           running' \in BOOLEAN, UNCHANGED <<cancelOf, stats, stop, stops>>,
           s.stored = session[i].stored, s.batch = session[i].batch, s.current = session[i].current,
           s.shared <=> session[i].shared,
           Counting(s) => Counting(session[i]),
           Launched(s) => Launched(session[i]),
           s.pc \in {"none", "claimed", "created", "launch"} =>
             session[i].pc \in {"none", "claimed", "created", "launch"}
    PROVE  CaptureInv'
<1>1. RowOK(stats, session[i]) /\ stats \in Totals
  BY DEF CaptureInv, CaptureTyped
<1>2. RowOK(stats, s)
  BY <1>1 DEF RowOK, Empty, HasRoom
<1> QED
  BY <1>1, <1>2, OneRow

\* The idle Stop request.
LEMMA NoStopType == NoStop \in [pc : {"idle", "cancelled", "stored"}, id : 0..MaxSessions, packets : {0}]
  BY CaptureLimits DEF NoStop

\* Cancelling a context changes nothing else.
LEMMA CancelSame ==
    ASSUME session \in [SessionIds -> CaptureRow], session' = [session EXCEPT ![cancelOf].ctxDone = TRUE]
    PROVE  session' \in [SessionIds -> CaptureRow] /\ \A i \in SessionIds : SameStage(session[i], session'[i])
<1>1. ASSUME NEW i \in SessionIds PROVE session'[i] \in CaptureRow /\ SameStage(session[i], session'[i])
  <2>1. PICK yes \in BOOLEAN : yes = TRUE
    OBVIOUS
  <2>2. PICK s : s = [session[i] EXCEPT !.ctxDone = yes]
    OBVIOUS
  <2>3. s \in CaptureRow /\ SameStage(session[i], s)
    BY <2>2 DEF CaptureRow, SameStage
  <2>4. session'[i] = session[i] \/ session'[i] = s
    BY <2>1, <2>2
  <2> QED
    BY <2>3, <2>4 DEF SameStage
<1> QED
  BY <1>1

\* Every step of a handler, a run and a timer keeps the invariant.
LEMMA CaptureKept == CaptureInv /\ [CaptureNext]_captureVars => CaptureInv'
<1> SUFFICES ASSUME CaptureInv, [CaptureNext]_captureVars PROVE CaptureInv'
  OBVIOUS
<1>0. CaptureTyped
  BY DEF CaptureInv
<1>r. \A i \in SessionIds : session[i] \in CaptureRow
  BY <1>0 DEF CaptureTyped
<1>1. CASE StopStore
  <2>1. stop' \in [pc : {"idle", "cancelled", "stored"}, id : 0..MaxSessions, packets : {0}]
    BY <1>0, <1>1, NoStopType DEF StopStore, CaptureTyped
  <2>2. CASE UNCHANGED session
    <3>1. CaptureTyped'
      BY <1>0, <1>1, <2>1, <2>2 DEF StopStore, CaptureTyped
    <3> QED
      BY <1>1, <2>2, <3>1, SameRows DEF StopStore, SameStage
  <2>3. CASE session' = [session EXCEPT ![stop.id].status = IF @ = "none" THEN "none" ELSE "stopped"]
    <3>1. ASSUME NEW i \in SessionIds PROVE session'[i] \in CaptureRow /\ SameStage(session[i], session'[i])
      <4>1. PICK s : s = [session[i] EXCEPT !.status = IF session[i].status = "none" THEN "none" ELSE "stopped"]
        OBVIOUS
      <4>2. s \in CaptureRow /\ SameStage(session[i], s)
        BY <1>r, <4>1 DEF CaptureRow, SameStage
      <4>3. session'[i] = session[i] \/ session'[i] = s
        BY <1>0, <2>3, <4>1 DEF CaptureTyped
      <4> QED
        BY <1>r, <4>2, <4>3 DEF SameStage
    <3>2. session' \in [SessionIds -> CaptureRow]
      BY <1>0, <2>3, <3>1 DEF CaptureTyped
    <3>3. CaptureTyped'
      BY <1>0, <1>1, <2>1, <3>2 DEF StopStore, CaptureTyped
    <3> QED
      BY <1>1, <3>1, <3>3, SameRows DEF StopStore
  <2> QED
    BY <1>1, <2>2, <2>3 DEF StopStore
<1>2. CASE StopRelease
  <2>1. CaptureTyped'
    BY <1>0, <1>2, NoStopType DEF StopRelease, CaptureTyped
  <2> QED
    BY <1>2, <2>1, SameRows DEF StopRelease, SameStage
<1>3. CASE ShutdownCapture
  <2>1. CaptureTyped' /\ \A i \in SessionIds : SameStage(session[i], session'[i])
    BY <1>0, <1>3, CancelSame DEF ShutdownCapture, CaptureTyped
  <2> QED
    BY <1>3, <2>1, SameRows DEF ShutdownCapture
<1>4. ASSUME NEW i \in SessionIds, ClaimStart(i) PROVE CaptureInv'
  <2> DEFINE s == [session[i] EXCEPT !.pc = "claimed"]
  <2>1. /\ s \in CaptureRow /\ s.pc = "claimed" /\ s.stored = session[i].stored /\ s.batch = session[i].batch
        /\ s.current = session[i].current /\ (s.shared <=> session[i].shared)
    BY <1>r DEF CaptureRow
  <2>2. session[i].pc = "none" /\ Set(i, s) /\ running' \in BOOLEAN /\ UNCHANGED <<cancelOf, stats, stop, stops>>
    BY <1>4 DEF ClaimStart
  <2> HIDE DEF s
  <2> QED
    BY <2>1, <2>2, StageKeeps DEF Counting, Launched
<1>5. ASSUME NEW i \in SessionIds, CreateSession(i) PROVE CaptureInv'
  <2>1. PICK s : /\ s = [session[i] EXCEPT !.pc = "created", !.status = "running"] \/ s = [session[i] EXCEPT !.pc = "over"]
                 /\ Set(i, s)
    BY <1>5 DEF CreateSession
  <2>2. /\ s \in CaptureRow /\ (s.pc = "created" \/ s.pc = "over") /\ s.stored = session[i].stored /\ s.batch = session[i].batch
        /\ s.current = session[i].current /\ (s.shared <=> session[i].shared)
    BY <1>r, <2>1 DEF CaptureRow
  <2>3. session[i].pc = "claimed" /\ running' \in BOOLEAN /\ UNCHANGED <<cancelOf, stats, stop, stops>>
    BY <1>0, <1>5 DEF CreateSession, CaptureTyped
  <2> QED
    BY <2>1, <2>2, <2>3, StageKeeps DEF Counting, Launched
<1>6. ASSUME NEW i \in SessionIds, StopCancel(i) PROVE CaptureInv'
  <2>1. stops' \in 0..MaxStops
    BY <1>0, <1>6, CaptureLimits DEF StopCancel, CaptureTyped
  <2>2. stop' \in [pc : {"idle", "cancelled", "stored"}, id : 0..MaxSessions, packets : {0}]
    <3>1. i \in 0..MaxSessions
      BY CaptureLimits DEF SessionIds
    <3> QED
      BY <1>6, <3>1 DEF StopCancel, NoStop
  <2>3. CaptureTyped' /\ \A j \in SessionIds : SameStage(session[j], session'[j])
    <3>1. CASE session' = session
      BY <1>0, <1>6, <2>1, <2>2, <3>1 DEF StopCancel, CaptureTyped, SameStage
    <3>2. CASE session' = [session EXCEPT ![cancelOf].ctxDone = TRUE]
      BY <1>0, <1>6, <2>1, <2>2, <3>2, CancelSame DEF StopCancel, CaptureTyped
    <3> QED
      BY <1>6, <3>1, <3>2 DEF StopCancel
  <2> QED
    BY <1>6, <2>3, SameRows DEF StopCancel
<1>7. ASSUME NEW i \in SessionIds, StartTcpdump(i) PROVE CaptureInv'
  <2>1. PICK s : /\ \/ s = [session[i] EXCEPT !.pc = "read", !.alive = ~session[i].ctxDone]
                    \/ s = [session[i] EXCEPT !.status = "error", !.pc = "report"]
                 /\ Set(i, s)
    BY <1>7 DEF StartTcpdump, StopSession
  <2>2. /\ s \in CaptureRow /\ (s.pc = "read" \/ s.pc = "report") /\ s.stored = session[i].stored /\ s.batch = session[i].batch
        /\ s.current = session[i].current /\ (s.shared <=> session[i].shared)
    <3>1. PICK unended \in BOOLEAN : unended = ~session[i].ctxDone
      OBVIOUS
    <3> QED
      BY <1>r, <2>1, <3>1 DEF CaptureRow
  <2>3. session[i].pc = "launch" /\ running' \in BOOLEAN /\ UNCHANGED <<cancelOf, stats, stop, stops>>
    BY <1>0, <1>7 DEF StartTcpdump, StopSession, CaptureTyped
  <2> QED
    BY <2>1, <2>2, <2>3, StageKeeps DEF Counting, Launched
<1>8. ASSUME NEW i \in SessionIds, EndOfOutput(i) \/ WaitTcpdump(i) \/ Report(i) PROVE CaptureInv'
  <2> DEFINE Ended(s, next) ==
        /\ \/ s = [session[i] EXCEPT !.pc = next]
           \/ \E ending \in {"error", "stopped"} : s = [session[i] EXCEPT !.status = ending, !.pc = next]
        /\ Set(i, s)
        /\ next = "flush" => Counting(session[i])
  <2>0. \E s, next : next \in {"flush", "report", "over"} /\ Ended(s, next)
    <3>1. CASE EndOfOutput(i)
      <4>1. PICK t : t = [session[i] EXCEPT !.pc = "flush"]
        OBVIOUS
      <4>2. Ended(t, "flush")
        BY <3>1, <4>1 DEF EndOfOutput, Counting
      <4> HIDE DEF Ended
      <4> QED
        BY <4>2
    <3>2. ASSUME Set(i, [session[i] EXCEPT !.pc = "over"])
          PROVE  \E s, next : next \in {"flush", "report", "over"} /\ Ended(s, next)
      <4>1. PICK t : t = [session[i] EXCEPT !.pc = "over"]
        OBVIOUS
      <4>2. Ended(t, "over")
        BY <3>2, <4>1
      <4> HIDE DEF Ended
      <4> QED
        BY <4>2
    <3>3. ASSUME NEW ending \in {"error", "stopped"}, StopSession(i, ending, session[i])
          PROVE  \E s, next : next \in {"flush", "report", "over"} /\ Ended(s, next)
      <4>1. PICK t : t = [session[i] EXCEPT !.status = ending, !.pc = "report"]
        OBVIOUS
      <4>2. Ended(t, "report")
        BY <3>3, <4>1 DEF StopSession
      <4> HIDE DEF Ended
      <4> QED
        BY <4>2
    <3> HIDE DEF Ended
    <3> QED
      BY <1>8, <3>1, <3>2, <3>3 DEF WaitTcpdump, Report
  <2>1. PICK s, next : next \in {"flush", "report", "over"} /\ Ended(s, next)
    BY <2>0
  <2>2. /\ s \in CaptureRow /\ s.pc = next /\ s.stored = session[i].stored /\ s.batch = session[i].batch
        /\ s.current = session[i].current /\ (s.shared <=> session[i].shared)
    BY <1>r, <2>1 DEF CaptureRow
  <2>3. Launched(session[i]) /\ running' \in BOOLEAN /\ UNCHANGED <<cancelOf, stats, stop, stops>>
    BY <1>0, <1>8 DEF EndOfOutput, WaitTcpdump, Report, StopSession, CaptureTyped, Launched
  <2> QED
    BY <2>1, <2>2, <2>3, StageKeeps DEF Counting
<1>9. ASSUME NEW i \in SessionIds, Kill(i) \/ TcpdumpExits(i) \/ DurationLimit(i) PROVE CaptureInv'
  <2>1. PICK s : /\ s = [session[i] EXCEPT !.alive = FALSE] \/ s = [session[i] EXCEPT !.ctxDone = TRUE]
                 /\ Set(i, s)
    BY <1>9 DEF Kill, TcpdumpExits, DurationLimit
  <2>2. /\ s \in CaptureRow /\ s.pc = session[i].pc /\ s.stored = session[i].stored /\ s.batch = session[i].batch
        /\ s.current = session[i].current /\ (s.shared <=> session[i].shared)
    <3>1. PICK no \in BOOLEAN, yes \in BOOLEAN : no = FALSE /\ yes = TRUE
      OBVIOUS
    <3> QED
      BY <1>r, <2>1, <3>1 DEF CaptureRow
  <2>3. running' \in BOOLEAN /\ UNCHANGED <<cancelOf, stats, stop, stops>>
    BY <1>0, <1>9 DEF Kill, TcpdumpExits, DurationLimit, CaptureTyped
  <2> QED
    BY <2>1, <2>2, <2>3, StageKeeps DEF Counting, Launched
<1>10. CASE UNCHANGED captureVars
  BY <1>0, <1>10, SameRows DEF captureVars, SameStage, CaptureTyped
<1> QED
  BY <1>1, <1>2, <1>3, <1>4, <1>5, <1>6, <1>7, <1>8, <1>9, <1>10, LaunchKeeps, ReadKeeps, LastFlushKeeps
     DEF CaptureNext, RunStep

\* capture.go:424-433, 398-413: a capture that no other was launched beside stores
\* no more packets than the limit, however large the limits are, however many
\* captures, Stop requests and ends of contexts there are, and in whatever order.
THEOREM QuotaKeptAlways == CaptureSpec => [](CaptureTypeOK /\ QuotaKept)
<1>1. CaptureInv => CaptureTypeOK /\ QuotaKept
  BY DEF CaptureInv, CaptureTyped, RowOK, CaptureTypeOK, QuotaKept, CaptureRow, Totals
<1> QED
  BY <1>1, CaptureInitOK, CaptureKept, PTL DEF CaptureSpec
=============================================================================
