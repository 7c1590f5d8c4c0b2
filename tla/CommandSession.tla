---------------------------- MODULE CommandSession ----------------------------
(***************************************************************************)
(* The line between a command session and its client: the commands that    *)
(* TCP delivers in pieces of any size and onRequest puts together in its   *)
(* ring buffer, and the latency probes, each of which is a ping, its       *)
(* answer and the next ping.  The state machine of the session, and what   *)
(* the Streamer makes of it, are in Streamer.                              *)
(*                                                                         *)
(* A command has a label, a size and data.  The four bytes of a label, and *)
(* those of a size, are one unit: a part of them is as good as nothing.    *)
(***************************************************************************)
EXTENDS Naturals, Sequences, FiniteSets, SequencesExt

CONSTANTS
    RingSize,      \* capacity of commandRingBuffer (2048)
    ReadSize,      \* what a connection reads at once (1024)
    InitialProbes, \* probes{13}: a vector of 13 probes without values
    Skipped,       \* probes at the start of a series that are not used (3)
    Unsupported,   \* the client sends a command that the server does not know
    MaxOthers,     \* bound: commands of the client that answer no ping
    MaxWire,       \* bound: units under way when the client sends another command
    MaxCapacity    \* bound: what the vector of probes may grow to

ASSUME CommandSessionAssumption ==
    /\ RingSize \in Nat \ {0} /\ ReadSize \in 1..RingSize
    /\ InitialProbes \in Nat \ {0} /\ Skipped \in 0..InitialProbes
    /\ Unsupported \in BOOLEAN /\ MaxOthers \in Nat /\ MaxWire \in Nat
    /\ MaxCapacity \in Nat /\ MaxCapacity >= 2 * InitialProbes

VARIABLES
    wire,        \* units under way from the client
    ring,        \* commandRingBuffer
    processing,  \* onRequest is in its loop
    commandHELO, \* a HELO was received
    playing,     \* the session's state is Playing
    probes,      \* latencies: "zero", "measured", or "disturbed" by another command
    capacity,    \* of the vector of probes
    measuringLatency,
    timeOffset,  \* "none", or what the probe was that it was calculated from
    pingTimer,   \* it is set
    tasks,       \* probes of the ping handlers that are ready
    pings,       \* probes of the pings under way to the client
    others       \* commands the client sent that answer no ping

lineVars == <<wire, ring, processing>>
probeVars == <<probes, capacity, measuringLatency, timeOffset, pingTimer, tasks>>
vars == <<lineVars, probeVars, commandHELO, playing, pings, others>>

-----------------------------------------------------------------------------
(* Commands *)

Command(label, event, probe) == [label |-> label, event |-> event, probe |-> probe]

HELO == Command("HELO", "none", 0)
SETD == Command("SETD", "none", 0)   \* RESP and DSCO do as much
STMs == Command("STAT", "STMs", 0)   \* any event of the handlers but STMt
META == Command("META", "none", 0)   \* what there is no handler for

\* The answer to a ping; STMt with zero is a heartbeat of the client's own.
STMt(probe) == Command("STAT", "STMt", probe)

Commands == {HELO, SETD, STMs, META} \cup {STMt(i) : i \in 0..MaxCapacity}

HasHandler(c) == c.label \in {"HELO", "SETD", "STAT"}

\* Units of a command: label, size and, for some, data.
Length(c) == IF c = SETD THEN 2 ELSE 3

Units(c) == [k \in 1..Length(c) |-> <<c, k>>]

-----------------------------------------------------------------------------
(* Ring *)

NormalizeIndex(i) == IF i < RingSize THEN i ELSE i - RingSize

\* push: the oldest unit is overwritten when the ring is full.
Push(r, unit) ==
    LET full == r.size = RingSize
        h == IF full THEN NormalizeIndex(r.head + 1) ELSE r.head
        s == IF full THEN r.size ELSE r.size + 1
    IN  [head |-> h, size |-> s,
         cells |-> [r.cells EXCEPT ![NormalizeIndex(h + s - 1)] = unit]]

Pop(r) ==
    IF r.size = 0 THEN r
    ELSE [r EXCEPT !.size = @ - 1, !.head = NormalizeIndex(@ + 1)]

PopAll(r, n) == FoldLeft(LAMBDA s, i : Pop(s), r, [i \in 1..n |-> i])

At(r, i) == r.cells[NormalizeIndex(r.head + i)]

Contents(r) == [i \in 1..r.size |-> At(r, i - 1)]

\* The buffer starts with a label that has a handler.
IsLabelled(r) == r.size > 0 /\ At(r, 0)[2] = 1 /\ HasHandler(At(r, 0)[1])

\* isEnoughData: the size is there, and as much as it says.
IsEnoughData(r) == r.size > 1 /\ Length(At(r, 1)[1]) <= r.size

-----------------------------------------------------------------------------
(* Initial state *)

Init ==
    /\ wire = <<>> /\ processing = FALSE
    /\ ring = [head |-> 0, size |-> 0, cells |-> [i \in 0..(RingSize - 1) |-> <<HELO, 1>>]]
    /\ commandHELO = FALSE /\ playing = FALSE
    /\ probes = [i \in 1..InitialProbes |-> "zero"] /\ capacity = InitialProbes
    /\ measuringLatency = FALSE /\ timeOffset = "none" /\ pingTimer = FALSE
    /\ tasks = <<>> /\ pings = <<>>
    /\ others = 0

-----------------------------------------------------------------------------
(* Client *)

\* The client greets first; then it sends what it likes.
Say(c) ==
    /\ others < MaxOthers /\ Len(wire) <= MaxWire
    /\ others = 0 => c = HELO
    /\ c = META => Unsupported
    /\ wire' = wire \o Units(c)
    /\ others' = others + 1
    /\ UNCHANGED <<ring, processing, probeVars, commandHELO, playing, pings>>

\* A ping is answered with its number.
Answer ==
    /\ pings # <<>>
    /\ wire' = wire \o Units(STMt(Head(pings)))
    /\ pings' = Tail(pings)
    /\ UNCHANGED <<ring, processing, probeVars, commandHELO, playing, others>>

-----------------------------------------------------------------------------
(* onRequest.  It is run to its end before any other handler of the event loop; its   *)
(* loop is a step for each command.                                                     *)

\* What was read is pushed to the ring.
Receive(n) ==
    /\ ~processing
    /\ n <= Len(wire)
    /\ ring' = FoldLeft(Push, ring, SubSeq(wire, 1, n))
    /\ wire' = SubSeq(wire, n + 1, Len(wire))
    /\ processing' = TRUE
    /\ UNCHANGED <<probeVars, commandHELO, playing, pings, others>>

\* Mutant: the label is not counted.
ProcessedSizeShort(c) == Length(c) - 1

\* What a handler returns: the size in the command, and label and size themselves.
ProcessedSize(c) == Length(c)

\* The loop goes on as long as it processes anything.
IsLooped(n) == n > 0

\* The command at the start of the ring is taken off after its handler has run.
Handle(c) ==
    /\ processing
    /\ IsLabelled(ring) /\ IsEnoughData(ring)
    /\ At(ring, 0)[1].label = c.label
    /\ c.label = "STAT" => At(ring, 2)[1] = c
    /\ ring' = PopAll(ring, ProcessedSize(At(ring, 1)[1]))
    /\ processing' = IsLooped(ProcessedSize(At(ring, 1)[1]))
    /\ UNCHANGED <<wire, playing, pings, others>>

\* Nothing is processed, and the loop is left.  One unit of a command without handler
\* is skipped.
Leave ==
    /\ processing
    /\ ~(IsLabelled(ring) /\ IsEnoughData(ring))
    /\ ring' = IF ring.size > 0 /\ ~IsLabelled(ring) THEN Pop(ring) ELSE ring
    /\ processing' = FALSE
    /\ UNCHANGED <<wire, probeVars, commandHELO, playing, pings, others>>

-----------------------------------------------------------------------------
(* Handlers of commands.  All but STMt tell that a measurement was interfered with. *)

\* Mutant: a second HELO starts the probes again.
OnHELOAgain ==
    /\ Handle(HELO)
    /\ measuringLatency' = FALSE
    /\ commandHELO' = TRUE
    /\ pingTimer' = TRUE
    /\ UNCHANGED <<probes, capacity, timeOffset, tasks>>

\* The first HELO sets the timer of the first ping; another one is skipped.
OnHELO ==
    /\ Handle(HELO)
    /\ measuringLatency' = FALSE
    /\ commandHELO' = TRUE
    /\ pingTimer' = (pingTimer \/ ~commandHELO)
    /\ UNCHANGED <<probes, capacity, timeOffset, tasks>>

OnOther ==
    /\ \E c \in {SETD, STMs} : Handle(c)
    /\ measuringLatency' = FALSE
    /\ UNCHANGED <<commandHELO, probes, capacity, timeOffset, pingTimer, tasks>>

\* onSTMt: what the server has not asked for is skipped.
OnHeartbeat ==
    /\ \E i \in {0} \cup (capacity + 1)..MaxCapacity : Handle(STMt(i))
    /\ UNCHANGED <<probeVars, commandHELO>>

-----------------------------------------------------------------------------
(* onSTMt: answers *)

\* Mutant: the vector does not grow.
GrownKept(n) == capacity

\* What push_back makes of the capacity of a vector of n elements.
Grown(n) == IF n = capacity THEN 2 * capacity ELSE capacity

\* The probes after the answer to probe i.
Probed(i) == [probes EXCEPT ![i] = IF measuringLatency THEN "measured" ELSE "disturbed"]

\* getLatencyMeanProbe: one of the samples, or a probe without values.
MeanProbes(ps) ==
    LET samples == {ps[i] : i \in (Skipped + 1)..Len(ps)} \ {"zero"}
    IN  IF samples = {} THEN {"zero"} ELSE samples

\* All the probes of the series have their answers; while playing, those may lack an
\* accurate duration.
IsComplete(accurate) ==
    Len(probes) = capacity /\ (playing => accurate)

\* The series is complete: the offset is calculated from it, and the next is timed.
OnLastAnswer ==
    /\ \E i \in 1..capacity :
         /\ Handle(STMt(i))
         /\ measuringLatency
         /\ \E accurate \in BOOLEAN : IsComplete(accurate)
         /\ timeOffset' \in MeanProbes(Probed(i))
    /\ probes' = <<>>
    /\ pingTimer' = TRUE
    /\ UNCHANGED <<commandHELO, capacity, measuringLatency, tasks>>

\* Mutant: a disturbed measurement is kept.
OnAnswerKept ==
    /\ \E i \in 1..capacity :
         /\ Handle(STMt(i))
         /\ probes' = Append(Probed(i), "zero")
    /\ \E accurate \in BOOLEAN : ~IsComplete(accurate)
    /\ capacity' = Grown(Len(probes)) /\ capacity' <= MaxCapacity
    /\ tasks' = Append(tasks, Len(probes'))
    /\ UNCHANGED <<commandHELO, measuringLatency, timeOffset, pingTimer>>

\* The next probe is pinged.
OnAnswer ==
    /\ measuringLatency
    /\ \E i \in 1..capacity :
         /\ Handle(STMt(i))
         /\ probes' = Append(Probed(i), "zero")
    /\ \E accurate \in BOOLEAN : ~IsComplete(accurate)
    /\ capacity' = Grown(Len(probes)) /\ capacity' <= MaxCapacity
    /\ tasks' = Append(tasks, Len(probes'))
    /\ UNCHANGED <<commandHELO, measuringLatency, timeOffset, pingTimer>>

\* Mutant: a probe that was disturbed is given up.
OnDisturbedGivenUp ==
    /\ ~measuringLatency
    /\ \E i \in 1..capacity :
         /\ Handle(STMt(i))
         /\ probes' = Probed(i)
    /\ UNCHANGED <<commandHELO, capacity, measuringLatency, timeOffset, pingTimer, tasks>>

\* The measurement was interfered with: the same probe is pinged again.
OnDisturbedAnswer ==
    /\ ~measuringLatency
    /\ \E i \in 1..capacity :
         /\ Handle(STMt(i))
         /\ probes' = Probed(i)
         /\ tasks' = Append(tasks, i)
    /\ UNCHANGED <<commandHELO, capacity, measuringLatency, timeOffset, pingTimer>>

-----------------------------------------------------------------------------
(* Other handlers of the event loop *)

\* A ping handler that was submitted by an answer.
Ping ==
    /\ ~processing
    /\ tasks # <<>>
    /\ pings' = Append(pings, Head(tasks))
    /\ tasks' = Tail(tasks)
    /\ measuringLatency' = TRUE
    /\ UNCHANGED <<lineVars, commandHELO, playing, probes, capacity, timeOffset, pingTimer,
                   others>>

\* The timer of a series: its first probe is pinged.
PingTimer ==
    /\ ~processing
    /\ pingTimer
    /\ pingTimer' = FALSE
    /\ probes' = Append(probes, "zero")
    /\ capacity' = Grown(Len(probes))
    /\ pings' = Append(pings, Len(probes'))
    /\ measuringLatency' = TRUE
    /\ UNCHANGED <<lineVars, commandHELO, playing, timeOffset, tasks, others>>

\* send, of a command that is no ping.
Send ==
    /\ ~processing
    /\ measuringLatency' = FALSE
    /\ UNCHANGED <<lineVars, commandHELO, playing, probes, capacity, timeOffset, pingTimer,
                   tasks, pings, others>>

\* A client is unpaused when its offset is known.
StartPlaying ==
    /\ ~processing
    /\ ~playing /\ timeOffset # "none"
    /\ playing' = TRUE
    /\ measuringLatency' = FALSE
    /\ UNCHANGED <<lineVars, commandHELO, probes, capacity, timeOffset, pingTimer, tasks,
                   pings, others>>

StopPlaying ==
    /\ ~processing
    /\ playing
    /\ playing' = FALSE
    /\ UNCHANGED <<lineVars, probeVars, commandHELO, pings, others>>

-----------------------------------------------------------------------------
(* Specification *)

OnRequest ==
    \/ OnHELO \/ OnOther \/ OnHeartbeat
    \/ OnLastAnswer \/ OnAnswer \/ OnDisturbedAnswer
    \/ Leave

Next ==
    \/ \E c \in Commands \ {STMt(i) : i \in 1..MaxCapacity} : Say(c)
    \/ Answer
    \/ \E n \in 1..ReadSize : Receive(n)
    \/ OnRequest
    \/ Ping \/ PingTimer
    \/ Send \/ StartPlaying \/ StopPlaying

Spec == Init /\ [][Next]_vars

\* TCP delivers, the event loop runs its handlers and timers, the client answers pings.
FairSpec ==
    /\ Spec
    /\ WF_vars(Answer)
    /\ WF_vars(\E n \in 1..ReadSize : Receive(n))
    /\ WF_vars(OnRequest)
    /\ WF_vars(Ping) /\ WF_vars(PingTimer)

-----------------------------------------------------------------------------
(* Properties *)

\* The variables stay in their types; the ring's head stays within it, and the probes
\* within their vector.
TypeOK ==
    /\ wire \in Seq(Commands \X (1..3))
    /\ ring \in [head : 0..(RingSize - 1), size : 0..RingSize,
                 cells : [0..(RingSize - 1) -> Commands \X (1..3)]]
    /\ processing \in BOOLEAN /\ commandHELO \in BOOLEAN /\ playing \in BOOLEAN
    /\ probes \in Seq({"zero", "measured", "disturbed"}) /\ Len(probes) <= capacity
    /\ capacity \in 1..MaxCapacity
    /\ measuringLatency \in BOOLEAN
    /\ timeOffset \in {"none", "zero", "measured", "disturbed"}
    /\ pingTimer \in BOOLEAN
    /\ tasks \in Seq(1..MaxCapacity) /\ pings \in Seq(1..MaxCapacity)
    /\ others \in 0..MaxOthers

Unread == Contents(ring) \o wire

\* "keep processing until there is anything to process in the buffer": no command waits
\* in the buffer, for data of another to come, when it is there as a whole.  A client that
\* sends a command without handler breaks this, and Framed.
NothingWaits == ~processing /\ IsLabelled(ring) => ~IsEnoughData(ring)

\* However TCP cuts the commands, and wherever the ring wraps, what is not yet processed
\* is a sequence of whole commands: the next label that is looked for is a label, and a
\* command that is there is processed.
Framed ==
    /\ NothingWaits
    /\ Unread # <<>> => Unread[1][2] = 1
    /\ \A i \in 1..(Len(Unread) - 1) :
          IF Unread[i][2] < Length(Unread[i][1])
            THEN Unread[i + 1] = <<Unread[i][1], Unread[i][2] + 1>>
            ELSE Unread[i + 1][2] = 1

Answers == {i \in DOMAIN Unread :
              /\ Unread[i][1].event = "STMt" /\ Unread[i][1].probe # 0
              /\ Unread[i][2] = Length(Unread[i][1])}

\* There is one chain of probes, from the first HELO on: the timer, a ping or its answer,
\* never two and never none, and an answer is that of a probe that exists.
OneProbe ==
    /\ (IF pingTimer THEN 1 ELSE 0) + Len(tasks) + Len(pings) + Cardinality(Answers)
           = (IF commandHELO THEN 1 ELSE 0)
    /\ \A s \in {tasks, pings} : \A i \in DOMAIN s : s[i] \in DOMAIN probes
    /\ \A i \in Answers : Unread[i][1].probe \in DOMAIN probes

\* The time offset is calculated from a probe that was measured without another command
\* between the ping and its answer, never from one that was disturbed or has no values.
OffsetMeasured == timeOffset \in {"none", "measured"}

\* A client that was greeted gets its offset, without which it never plays, unless the
\* server goes on sending it other commands.
OffsetKnown == <>[][~Send]_vars => (commandHELO ~> timeOffset # "none")
=============================================================================
