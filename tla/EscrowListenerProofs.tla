------------------------- MODULE EscrowListenerProofs -------------------------
(***************************************************************************)
(* The escrow listener for any listeners, logs, ledgers, pages and faults: *)
(* what it projects is final, and no event changes bookings twice as long  *)
(* as the claims are kept.                                                 *)
(***************************************************************************)
EXTENDS EscrowListener, FiniteSetTheorems, SequenceTheorems, TLAPS

Ledgers == 0..MaxLedger

\* What a tick remembers.
Ticks ==
  [at : Steps, before : {Null} \cup Ledgers, safeTip : Ledgers, page : Seq(DOMAIN log),
   max : Ledgers, intent : Intents \cup {Undefined}]

Types ==
  /\ log \in Logs
  /\ tip \in Ledgers
  /\ cursor \in [Instances -> {Null} \cup Ledgers]
  /\ claimed \subseteq DOMAIN log /\ projected \subseteq DOMAIN log
  /\ tick \in [Listeners -> Ticks]
  /\ status \in [Intents -> Statuses]
  /\ bookable \subseteq Slots
  /\ applied \in [DOMAIN log -> Nat]
  /\ overlapped \in BOOLEAN /\ faults \in 0..MaxFaults

\* A listener has claimed an event and is not through with it.
Working(l) == tick[l].at \in {"project", "transition", "release"}

\* A tick has an event at hand, and its safe tip is final for good.
Steady(l) ==
  /\ tick[l].at = "claim" \/ Working(l) => tick[l].page # << >>
  /\ tick[l].safeTip = 0 \/ tick[l].safeTip + FinalityDepth <= tip
  /\ Working(l) => log[Current(l)].ledger <= tick[l].safeTip

FinalInv == Types /\ (\A l \in Listeners : Steady(l)) /\ OnlyFinalEvents

\* Without an outage of the keys: an event at hand is claimed, by one listener,
\* and not applied; an event that was applied stays claimed.
ClaimInv ==
  /\ \A l \in Listeners : Working(l) => Current(l) \in claimed /\ applied[Current(l)] = 0
  /\ \A l, m \in Listeners : l # m /\ Working(l) /\ Working(m) => Current(l) # Current(m)
  /\ \A n \in DOMAIN log : applied[n] <= 1 /\ (applied[n] = 1 => n \in claimed)

-----------------------------------------------------------------------------
\* Most steps need no arithmetic: Zenon is tried first, and SMT on what is left.
USE ZenonT(2), SMTT(15), ZenonT(15)

\* A log in Logs is a sequence of events in ledger order.
LEMMA LogShape ==
  ASSUME Types
  PROVE  /\ log \in Seq(Events) /\ Len(log) \in Nat /\ DOMAIN log = 1..Len(log)
         /\ \A n \in DOMAIN log : log[n] \in Events /\ log[n].ledger \in Nat \ {0}
                                  /\ log[n].kind \in Kinds /\ log[n].slot \in Slots
                                  /\ log[n].intent \in Intents \cup {Undefined}
<1>1. log \in Seq(Events)
  BY LogsAssumption DEF Types
<1>2. Len(log) \in Nat /\ DOMAIN log = 1..Len(log) /\ \A n \in DOMAIN log : log[n] \in Events
  BY <1>1
<1> QED BY <1>1, <1>2 DEF Events

\* The projector finds an intent or none.
LEMMA FoundIntent ==
  ASSUME NEW e \in Events
  PROVE  findActiveIntent(e) \in Intents \cup {Undefined}
<1>1. \A s : lookupBySlot(s) \in Intents \cup {Undefined}
  BY DEF lookupBySlot, First, Stored
<1> QED BY <1>1 DEF findActiveIntent, Stored, Events

\* A page holds places of the log.
LEMMA PageShape ==
  ASSUME Types, NEW start \in Nat
  PROVE  getEvents(start) \in Seq(DOMAIN log)
<1> DEFINE from == {n \in DOMAIN log : log[n].ledger >= start /\ log[n].ledger <= tip}
           below == {n \in DOMAIN log : log[n].ledger < start}
           first == Cardinality(below)
           size == IF Cardinality(from) < PageLimit THEN Cardinality(from) ELSE PageLimit
<1>1. /\ Len(log) \in Nat /\ DOMAIN log = 1..Len(log)
      /\ \A n \in DOMAIN log : log[n].ledger \in Nat
  BY LogShape
<1>2. IsFiniteSet(1..Len(log)) /\ Cardinality(1..Len(log)) = Len(log)
  <2>1. 1 \in Int /\ Len(log) \in Int
    BY <1>1
  <2> QED BY <1>1, <2>1, FS_Interval
<1>3. from \cup below \subseteq 1..Len(log) /\ from \cap below = {}
  BY <1>1
<1>4. IsFiniteSet(from) /\ IsFiniteSet(below) /\ IsFiniteSet(from \cup below)
      /\ Cardinality(from \cup below) <= Len(log)
  <2>1. from \subseteq 1..Len(log) /\ below \subseteq 1..Len(log)
    BY <1>3
  <2> QED BY <1>2, <1>3, <2>1, FS_Subset
<1>5. Cardinality(from \cup below) = Cardinality(from) + Cardinality(below) - Cardinality(from \cap below)
  BY <1>4, FS_Union
<1>6. Cardinality(from) \in Nat /\ first \in Nat /\ Cardinality(from \cap below) = 0
  BY <1>3, <1>4, FS_CardinalityType, FS_EmptySet
<1>7. size \in Nat /\ first + size <= Len(log)
  <2>1. PageLimit \in Nat
    BY ShapeAssumption
  <2>2. first + Cardinality(from) <= Len(log)
    BY <1>1, <1>4, <1>5, <1>6
  <2> QED BY <1>1, <1>6, <2>1, <2>2
<1> DEFINE page == [k \in 1..size |-> first + k]
<1>8. getEvents(start) = page
  BY DEF getEvents
<1>9. page \in [1..size -> DOMAIN log]
  <2> HIDE DEF first, size
  <2> QED BY <1>1, <1>6, <1>7
<1>10. page \in Seq(DOMAIN log)
  <2> HIDE DEF page, size
  <2> QED BY <1>7, <1>9, SeqDef
<1> QED BY <1>8, <1>10

\* The tick once it is through with an event.
LEMMA RestShape ==
  ASSUME Types, NEW l \in Listeners, tick[l].page # << >>, NEW max \in Ledgers
  PROVE  /\ Rest(l, max) \in Ticks /\ Rest(l, max).safeTip = tick[l].safeTip
         /\ Rest(l, max).at \in {"advance", "claim"}
         /\ Rest(l, max).at = "claim" => Rest(l, max).page # << >>
<1>1. tick[l] \in Ticks
  BY DEF Types
<1>2. tick[l].page \in Seq(DOMAIN log)
  BY <1>1 DEF Ticks
<1>3. Tail(tick[l].page) \in Seq(DOMAIN log)
  BY <1>2, HeadTailProperties
<1> DEFINE page == Tail(tick[l].page)
           step == IF page = << >> THEN "advance" ELSE "claim"
<1>4. Rest(l, max) = [tick[l] EXCEPT !.at = step, !.page = page, !.max = max, !.intent = Undefined]
  BY DEF Rest
<1>5. step \in Steps
  BY DEF Steps
<1> HIDE DEF page, step
<1>6. /\ Rest(l, max) \in Ticks /\ Rest(l, max).at = step
      /\ Rest(l, max).page = page /\ Rest(l, max).safeTip = tick[l].safeTip
  BY <1>1, <1>3, <1>4, <1>5 DEF Ticks, page
<1> QED BY <1>6 DEF page, step

\* The event at hand is an event of the log.
LEMMA CurrentShape ==
  ASSUME Types, NEW l \in Listeners, tick[l].page # << >>
  PROVE  Current(l) \in DOMAIN log
<1>1. tick[l].page \in Seq(DOMAIN log)
  BY DEF Types, Ticks
<1> QED BY <1>1 DEF Current

-----------------------------------------------------------------------------
(* Final events only, whatever the environment does.                       *)

\* A tick may go on as t.
Sound(l, t) ==
  /\ t \in Ticks
  /\ t.at \in {"claim", "project", "transition", "release"} => t.page # << >>
  /\ t.safeTip = 0 \/ t.safeTip + FinalityDepth <= tip
  /\ t.at \in {"project", "transition", "release"} => log[Head(t.page)].ledger <= t.safeTip

\* A step of one tick keeps the ticks steady.
LEMMA TickMoves ==
  ASSUME FinalInv, NEW l \in Listeners, NEW t, Sound(l, t),
         tick' = [tick EXCEPT ![l] = t], UNCHANGED <<log, tip>>
  PROVE  tick' \in [Listeners -> Ticks'] /\ \A m \in Listeners : Steady(m)'
<1>1. Ticks' = Ticks
  BY DEF Ticks
<1>2. tick \in [Listeners -> Ticks] /\ t \in Ticks
  BY DEF FinalInv, Types, Sound
<1>3. tick' \in [Listeners -> Ticks] /\ tick'[l] = t /\ \A m \in Listeners \ {l} : tick'[m] = tick[m]
  BY <1>2
<1>4. Steady(l)'
  BY <1>3 DEF Sound, Steady, Working, Current
<1>5. \A m \in Listeners \ {l} : Steady(m)'
  BY <1>3 DEF FinalInv, Steady, Working, Current
<1> QED BY <1>1, <1>3, <1>4, <1>5

\* The tick that is not running is one that may go on.
LEMMA NoTickSound ==
  ASSUME FinalInv, NEW l \in Listeners
  PROVE  Sound(l, NoTick)
<1>1. << >> \in Seq(DOMAIN log)
  BY EmptySeq
<1>2. NoTick \in Ticks
  BY <1>1, ShapeAssumption DEF NoTick, Ticks, Steps, Ledgers
<1> QED BY <1>2 DEF Sound, NoTick

\* A tick that changes its step alone, with the event at hand.
LEMMA GotoSound ==
  ASSUME FinalInv, NEW l \in Listeners, NEW step \in Steps,
         step \in {"claim", "project", "transition", "release"} => tick[l].page # << >>,
         step \in {"project", "transition", "release"} => log[Current(l)].ledger <= tick[l].safeTip
  PROVE  Sound(l, [tick[l] EXCEPT !.at = step])
<1>1. tick[l] \in Ticks /\ Steady(l)
  BY DEF FinalInv, Types
<1> DEFINE t == [tick[l] EXCEPT !.at = step]
<1>2. t \in Ticks /\ t.at = step /\ t.page = tick[l].page /\ t.safeTip = tick[l].safeTip
  BY <1>1 DEF Ticks
<1> QED BY <1>1, <1>2 DEF Sound, Steady, Current

\* A tick that is through with an event.
LEMMA RestSound ==
  ASSUME FinalInv, NEW l \in Listeners, tick[l].page # << >>, NEW max \in Ledgers
  PROVE  Sound(l, Rest(l, max))
<1>1. Steady(l) /\ Types
  BY DEF FinalInv
<1> QED BY <1>1, RestShape DEF Sound, Steady

\* The later of two ledgers is a ledger.
LEMMA LaterLedger ==
  ASSUME FinalInv, NEW l \in Listeners, tick[l].page # << >>, log[Current(l)].ledger <= tick[l].safeTip
  PROVE  /\ Current(l) \in DOMAIN log
         /\ log[Current(l)].ledger + FinalityDepth <= tip
         /\ Later(log[Current(l)].ledger, tick[l].max) \in Ledgers
<1>1. Types /\ Steady(l) /\ tick[l].safeTip \in Ledgers /\ tick[l].max \in Ledgers
  BY DEF FinalInv, Types, Ticks
<1>2. Current(l) \in DOMAIN log /\ log[Current(l)].ledger \in Nat \ {0}
  BY <1>1, CurrentShape, LogShape
<1>3. log[Current(l)].ledger \in Ledgers
  BY <1>1, <1>2, ShapeAssumption DEF Ledgers
<1>4. log[Current(l)].ledger + FinalityDepth <= tip
  BY <1>1, <1>2, ShapeAssumption DEF Steady, Ledgers, FinalInv, Types
<1> QED BY <1>1, <1>2, <1>3, <1>4 DEF Later

\* Before the first tick nothing is known or applied.
LEMMA FinalInit == Init => FinalInv /\ ClaimInv
<1> SUFFICES ASSUME Init PROVE FinalInv /\ ClaimInv
  OBVIOUS
<1>1. << >> \in Seq(DOMAIN log)
  BY EmptySeq
<1>2. NoTick \in Ticks /\ NoTick.at = "idle" /\ NoTick.safeTip = 0
  BY <1>1, ShapeAssumption DEF NoTick, Ticks, Steps, Ledgers
<1>3. tick \in [Listeners -> Ticks] /\ \A l \in Listeners : tick[l] = NoTick
  BY <1>2 DEF Init
<1>4. Types
  <2>1. overlapped \in BOOLEAN
    BY DEF Init
  <2>2. log \in Logs /\ tip \in Ledgers /\ cursor \in [Instances -> {Null} \cup Ledgers]
    BY ShapeAssumption DEF Init, Ledgers
  <2>3. /\ claimed \subseteq DOMAIN log /\ projected \subseteq DOMAIN log
        /\ status \in [Intents -> Statuses] /\ bookable \subseteq Slots
    BY ShapeAssumption DEF Init
  <2>4. applied \in [DOMAIN log -> Nat] /\ faults \in 0..MaxFaults
    BY ShapeAssumption DEF Init
  <2> QED BY <1>3, <2>1, <2>2, <2>3, <2>4 DEF Types
<1>5. \A l \in Listeners : Steady(l) /\ ~Working(l)
  BY <1>2, <1>3 DEF Steady, Working
<1>6. \A n \in DOMAIN log : applied[n] = 0
  BY DEF Init
<1> QED BY <1>4, <1>5, <1>6 DEF FinalInv, ClaimInv, OnlyFinalEvents

\* The fields of a tick, and the safe tip it starts with.
LEMMA TickShape ==
  ASSUME FinalInv, NEW l \in Listeners
  PROVE  /\ tick[l] \in Ticks /\ tick[l].at \in Steps
         /\ tick[l].before \in {Null} \cup Ledgers /\ tick[l].max \in Ledgers
         /\ tick[l].safeTip \in Ledgers /\ CursorOf(l) \in {Null} \cup Ledgers
         /\ SafeTip \in Ledgers /\ (SafeTip = 0 \/ SafeTip + FinalityDepth <= tip)
         /\ Positive(tick[l].before) \in Ledgers
<1>1. tick[l] \in Ticks /\ tip \in Ledgers /\ cursor \in [Instances -> {Null} \cup Ledgers]
  BY DEF FinalInv, Types
<1>2. CursorOf(l) \in {Null} \cup Ledgers
  BY <1>1 DEF CursorOf, Instances
<1>3. SafeTip \in Ledgers /\ (SafeTip = 0 \/ SafeTip + FinalityDepth <= tip)
  BY <1>1, ShapeAssumption DEF SafeTip, Positive, Ledgers
<1>4. /\ tick[l].at \in Steps /\ tick[l].max \in Ledgers /\ tick[l].safeTip \in Ledgers
      /\ tick[l].before \in {Null} \cup Ledgers
  BY <1>1 DEF Ticks
<1>5. Positive(tick[l].before) \in Ledgers
  BY <1>4, ShapeAssumption DEF Ledgers, Positive, Null
<1> QED BY <1>1, <1>2, <1>3, <1>4, <1>5

\* A step that goes on soundly and applies no event.
LEMMA PlainStep ==
  ASSUME FinalInv, NEW l \in Listeners, NEW t, Sound(l, t),
         tick' = [tick EXCEPT ![l] = t],
         UNCHANGED <<log, tip, status, bookable, applied, overlapped>>,
         cursor' \in [Instances -> {Null} \cup Ledgers],
         claimed' \subseteq DOMAIN log, projected' \subseteq DOMAIN log,
         faults' \in 0..MaxFaults
  PROVE  FinalInv'
<1>1. tick' \in [Listeners -> Ticks'] /\ \A m \in Listeners : Steady(m)'
  BY TickMoves
<1>2. Types'
  BY <1>1 DEF FinalInv, Types
<1>3. OnlyFinalEvents'
  BY DEF FinalInv, OnlyFinalEvents
<1> QED BY <1>1, <1>2, <1>3 DEF FinalInv

\* Every step of a tick keeps final events final.
LEMMA TickStep ==
  ASSUME FinalInv, NEW l \in Listeners,
         runEscrowListenerTick(l) \/ tickFails(l) \/ claimThrows(l) \/ projectionThrows(l) \/ crash(l)
  PROVE  FinalInv'
<1> USE TickShape
<1>0. Types /\ Steady(l)
  BY DEF FinalInv
<1>1. CASE beginTick(l)
  <2> DEFINE t == [tick[l] EXCEPT !.at = "fetch", !.before = CursorOf(l), !.safeTip = SafeTip]
  <2>1. tick' = [tick EXCEPT ![l] = t]
    BY <1>0, <1>1 DEF beginTick, Types
  <2>2. t \in Ticks /\ t.at = "fetch" /\ t.safeTip = SafeTip
    BY DEF Ticks, Steps
  <2>3. Sound(l, t)
    BY <2>2 DEF Sound
  <2> HIDE DEF t
  <2> QED BY <1>0, <1>1, <2>1, <2>3, PlainStep DEF beginTick, durable, Types
<1>2. CASE returnAtTip(l)
  BY <1>2 DEF returnAtTip, vars, FinalInv, Types, Ticks, Steady, Working, Current, OnlyFinalEvents
<1>3. CASE fetchPage(l)
  <2> DEFINE before == Positive(tick[l].before)
             page == getEvents(before + 1)
             step == IF page = << >> THEN "advance" ELSE "claim"
             t == [tick[l] EXCEPT !.at = step, !.page = page, !.max = before]
  <2>1. before + 1 \in Nat
    BY ShapeAssumption DEF Ledgers
  <2>2. page \in Seq(DOMAIN log)
    BY <1>0, <2>1, PageShape
  <2>3. step \in Steps
    BY DEF Steps
  <2>4. tick' = [tick EXCEPT ![l] = t]
    BY <1>0, <1>3 DEF fetchPage, Types
  <2>5. t \in Ticks /\ t.at = step /\ t.page = page /\ t.safeTip = tick[l].safeTip
    <3> HIDE DEF page, step, before
    <3> QED BY <2>2, <2>3 DEF before, Ticks
  <2>6. Sound(l, t)
    <3> HIDE DEF page, before, t
    <3> QED BY <1>0, <2>5 DEF Sound, Steady
  <2> HIDE DEF t
  <2> QED BY <1>0, <1>3, <2>4, <2>6, PlainStep DEF fetchPage, durable, Types
<1>4. CASE skipUnsafe(l)
  <2>1. tick[l].page # << >>
    BY <1>0, <1>4 DEF skipUnsafe, Steady
  <2>2. Sound(l, Rest(l, tick[l].max))
    BY <2>1, RestSound
  <2> QED BY <1>0, <1>4, <2>2, PlainStep DEF skipUnsafe, durable, Types
<1>5. CASE skipDuplicate(l)
  <2>1. tick[l].page # << >> /\ log[Current(l)].ledger <= tick[l].safeTip
    BY <1>0, <1>5 DEF skipDuplicate, Safe, Steady
  <2>2. Sound(l, Rest(l, Later(log[Current(l)].ledger, tick[l].max)))
    BY <2>1, RestSound, LaterLedger
  <2> QED BY <1>0, <1>5, <2>2, PlainStep DEF skipDuplicate, durable, Types
<1>6. CASE claim(l)
  <2>1. tick[l].page # << >> /\ log[Current(l)].ledger <= tick[l].safeTip
    BY <1>0, <1>6 DEF claim, Safe, Steady
  <2>2. Sound(l, [tick[l] EXCEPT !.at = "project"]) /\ Current(l) \in DOMAIN log
    BY <2>1, GotoSound, LaterLedger DEF Steps
  <2>3. tick' = [tick EXCEPT ![l] = [tick[l] EXCEPT !.at = "project"]]
    BY <1>6 DEF claim, Goto
  <2>4. claimed' \subseteq DOMAIN log
    BY <1>0, <1>6, <2>2 DEF claim, Types
  <2> QED BY <1>0, <1>6, <2>2, <2>3, <2>4, PlainStep DEF claim, durable, Types
<1>7. CASE project(l)
  <2> DEFINE n == Current(l)
             i == Effect(log[n])
  <2>1. tick[l].page # << >> /\ log[n].ledger <= tick[l].safeTip
    BY <1>0, <1>7 DEF project, Working, Steady
  <2>2. n \in DOMAIN log /\ Later(log[n].ledger, tick[l].max) \in Ledgers
    BY <2>1, LaterLedger
  <2>3. CASE i = Undefined
    <3>1. Sound(l, Rest(l, Later(log[n].ledger, tick[l].max)))
      BY <2>1, <2>2, RestSound
    <3>2. tick' = [tick EXCEPT ![l] = Rest(l, Later(log[n].ledger, tick[l].max))]
      BY <1>7, <2>3 DEF project
    <3>3. projected' \subseteq DOMAIN log
      BY <1>0, <1>7, <2>2, <2>3 DEF project, Types
    <3> QED BY <1>0, <1>7, <3>1, <3>2, <3>3, PlainStep DEF project, durable, Types
  <2>4. CASE i # Undefined
    <3> DEFINE t == [tick[l] EXCEPT !.at = "transition", !.intent = i]
    <3>1. log[n] \in Events
      BY <1>0, <2>2, LogShape
    <3>2. i \in Intents \cup {Undefined}
      BY <3>1, FoundIntent DEF Effect
    <3>3. tick' = [tick EXCEPT ![l] = t] /\ projected' = projected
      BY <1>0, <1>7, <2>4 DEF project, Types
    <3>4. /\ t \in Ticks /\ t.at = "transition" /\ t.page = tick[l].page
          /\ t.safeTip = tick[l].safeTip
      <4> HIDE DEF i
      <4> QED BY <3>2 DEF Ticks, Steps
    <3>5. Sound(l, t)
      <4> HIDE DEF t
      <4> QED BY <1>0, <2>1, <3>4 DEF Sound, Steady, Current
    <3> HIDE DEF t
    <3> QED BY <1>0, <1>7, <3>3, <3>5, PlainStep DEF project, durable, Types
  <2> QED BY <2>3, <2>4
<1>8. CASE transition(l)
  <2> DEFINE n == Current(l)
             t == Rest(l, Later(log[n].ledger, tick[l].max))
  <2>1. tick[l].page # << >> /\ log[n].ledger <= tick[l].safeTip
    BY <1>0, <1>8 DEF transition, Working, Steady
  <2>2. /\ n \in DOMAIN log /\ Later(log[n].ledger, tick[l].max) \in Ledgers
        /\ log[n].ledger + FinalityDepth <= tip
    BY <2>1, LaterLedger
  <2>3. Sound(l, t) /\ tick' = [tick EXCEPT ![l] = t] /\ UNCHANGED <<log, tip>>
    BY <1>8, <2>1, <2>2, RestSound DEF transition
  <2>4. tick' \in [Listeners -> Ticks'] /\ \A m \in Listeners : Steady(m)'
    BY <2>3, TickMoves
  <2>5. log[n].kind \in Kinds /\ log[n].slot \in Slots
    BY <1>0, <2>2, LogShape
  <2>6. TARGET_BY_KIND[log[n].kind] \in Statuses
    BY <2>5 DEF TARGET_BY_KIND, Kinds, Statuses, Open, Terminal
  <2>7. status' \in [Intents -> Statuses]
    BY <1>0, <1>8, <2>6 DEF transition, Types
  <2>8. bookable' \subseteq Slots /\ projected' \subseteq DOMAIN log
    BY <1>0, <1>8, <2>2, <2>5 DEF transition, Types
  <2>9. applied' \in [DOMAIN log -> Nat] /\ \A k \in DOMAIN log : k # n => applied'[k] = applied[k]
    BY <1>0, <1>8, <2>2 DEF transition, Types
  <2>10. Types'
    BY <1>0, <1>8, <2>4, <2>7, <2>8, <2>9 DEF transition, Types
  <2>11. OnlyFinalEvents'
    BY <1>8, <2>2, <2>9 DEF transition, FinalInv, OnlyFinalEvents
  <2> QED BY <2>4, <2>10, <2>11 DEF FinalInv
<1> DEFINE Ends == /\ tick' = [tick EXCEPT ![l] = NoTick] /\ claimed' \subseteq DOMAIN log
                   /\ Fault
<1>9. ASSUME Ends PROVE FinalInv'
  <2>1. faults' \in 0..MaxFaults
    BY <1>0, <1>9, ShapeAssumption DEF Fault, Types
  <2> QED BY <1>0, <1>9, <2>1, NoTickSound, PlainStep DEF Fault, Types
<1>10. CASE safeRelease(l)
  <2>1. tick' = [tick EXCEPT ![l] = NoTick] /\ claimed' \subseteq DOMAIN log
    BY <1>0, <1>10 DEF safeRelease, EndTick, Types
  <2>2. CASE UNCHANGED <<durable, projected, applied>>
    BY <1>0, <2>1, <2>2, NoTickSound, PlainStep DEF durable, Types
  <2> QED BY <1>9, <1>10, <2>1, <2>2 DEF safeRelease
<1>11. CASE advanceCursor(l)
  <2>1. UNCHANGED <<durable, claimed, projected, applied>>
    BY <1>11 DEF advanceCursor
  <2>2. CASE tick' = [tick EXCEPT ![l] = NoTick]
    BY <1>0, <2>1, <2>2, NoTickSound, PlainStep DEF durable, Types
  <2> DEFINE t == [tick[l] EXCEPT !.at = "set", !.before = CursorOf(l)]
  <2>3. CASE tick' = [tick EXCEPT ![l] = t]
    <3>1. t \in Ticks /\ t.at = "set" /\ t.safeTip = tick[l].safeTip
      BY DEF Ticks, Steps
    <3> HIDE DEF t
    <3>2. Sound(l, t)
      BY <1>0, <3>1 DEF Sound, Steady
    <3> QED BY <1>0, <2>1, <2>3, <3>2, PlainStep DEF durable, Types
  <2> QED BY <1>0, <1>11, <2>2, <2>3 DEF advanceCursor, EndTick, Types
<1>12. CASE storeCursor(l)
  <2>1. cursor' \in [Instances -> {Null} \cup Ledgers] /\ tick' = [tick EXCEPT ![l] = NoTick]
    BY <1>0, <1>12 DEF storeCursor, setCursor, EndTick, Types
  <2> QED BY <1>0, <1>12, <2>1, NoTickSound, PlainStep DEF storeCursor, Types
<1>13. CASE tickFails(l) \/ crash(l)
  BY <1>0, <1>9, <1>13 DEF tickFails, crash, EndTick, Types
<1>14. CASE claimThrows(l)
  <2>1. Current(l) \in DOMAIN log
    BY <1>0, <1>14, CurrentShape DEF claimThrows, Safe, Steady
  <2> QED BY <1>0, <1>9, <1>14, <2>1 DEF claimThrows, EndTick, Types
<1>15. CASE projectionThrows(l)
  <2>1. tick[l].page # << >> /\ log[Current(l)].ledger <= tick[l].safeTip
    BY <1>0, <1>15 DEF projectionThrows, Working, Steady
  <2>2. Sound(l, [tick[l] EXCEPT !.at = "release"])
    BY <2>1, GotoSound DEF Steps
  <2>3. /\ faults' \in 0..MaxFaults
        /\ tick' = [tick EXCEPT ![l] = [tick[l] EXCEPT !.at = "release"]]
    BY <1>0, <1>15, ShapeAssumption DEF projectionThrows, Fault, Goto, Types
  <2> QED BY <1>0, <1>15, <2>2, <2>3, PlainStep DEF projectionThrows, Fault, Types
<1> QED
  BY <1>1, <1>2, <1>3, <1>4, <1>5, <1>6, <1>7, <1>8, <1>10, <1>11, <1>12, <1>13, <1>14, <1>15
     DEF runEscrowListenerTick

\* Every step of the system keeps final events final.
LEMMA FinalStep == FinalInv /\ [Next]_vars => FinalInv'
<1> SUFFICES ASSUME FinalInv, [Next]_vars PROVE FinalInv'
  OBVIOUS
<1>0. Types
  BY DEF FinalInv
<1> DEFINE Kept == UNCHANGED <<log, tick, applied>>
<1>1. ASSUME Kept, tip <= tip', tip' \in Ledgers
      PROVE  /\ tick' \in [Listeners -> Ticks'] /\ (\A l \in Listeners : Steady(l)')
             /\ OnlyFinalEvents'
  <2>1. Ticks' = Ticks
    BY <1>1 DEF Ticks
  <2>2. \A l \in Listeners : Steady(l)'
    BY <1>0, <1>1, ShapeAssumption DEF FinalInv, Types, Ticks, Steady, Working, Current, Ledgers
  <2>3. OnlyFinalEvents'
    <3>1. \A n \in DOMAIN log : log[n].ledger \in Nat
      BY <1>0, LogShape
    <3> QED BY <1>0, <1>1, <3>1, ShapeAssumption DEF FinalInv, Types, OnlyFinalEvents, Ledgers
  <2> QED BY <1>0, <1>1, <2>1, <2>2, <2>3 DEF Types
<1>2. ASSUME NEW l \in Listeners,
             runEscrowListenerTick(l) \/ tickFails(l) \/ claimThrows(l) \/ projectionThrows(l) \/ crash(l)
      PROVE  FinalInv'
  BY <1>2, TickStep
<1>3. CASE forget
  <2>1. Kept /\ tip <= tip' /\ tip' \in Ledgers
    BY <1>0, <1>3, ShapeAssumption DEF forget, Types, Ledgers
  <2>2. Types'
    BY <1>0, <1>1, <1>3, <2>1 DEF forget, Types
  <2> QED BY <1>1, <2>1, <2>2 DEF FinalInv
<1>4. CASE closeLedger
  <2>1. Kept /\ tip <= tip' /\ tip' \in Ledgers
    BY <1>0, <1>4, ShapeAssumption DEF closeLedger, Types, Ledgers
  <2>2. Types'
    BY <1>0, <1>1, <1>4, <2>1 DEF closeLedger, Types
  <2> QED BY <1>1, <2>1, <2>2 DEF FinalInv
<1>5. ASSUME NEW i \in Intents, cancelIntent(i) \/ createIntent(i)
      PROVE  FinalInv'
  <2>1. Kept /\ tip <= tip' /\ tip' \in Ledgers
    BY <1>0, <1>5, ShapeAssumption DEF cancelIntent, createIntent, Types, Ledgers
  <2>2. status' \in [Intents -> Statuses]
    BY <1>0, <1>5 DEF cancelIntent, createIntent, Types, Statuses, Open, Terminal
  <2>3. bookable' \subseteq Slots
    BY <1>0, <1>5 DEF cancelIntent, createIntent, Types, Slots
  <2>4. Types'
    BY <1>0, <1>1, <1>5, <2>1, <2>2, <2>3 DEF cancelIntent, createIntent, Overlaps, Types
  <2> QED BY <1>1, <2>1, <2>4 DEF FinalInv
<1>6. CASE UNCHANGED vars
  BY <1>6 DEF vars, FinalInv, Types, Ticks, Steady, Working, Current, OnlyFinalEvents
<1> QED BY <1>2, <1>3, <1>4, <1>5, <1>6 DEF Next

\* FinalInvariant: whatever listeners, logs, faults, crashes and outages there
\* are, the ticks keep their types, an event at hand lies at or below a safe
\* tip that the finality depth has passed, and bookings reflect final events
\* only (the safe tip of runEscrowListenerTick).
THEOREM FinalInvariant == Spec => []FinalInv
<1> USE DEF Spec
<1> QED BY FinalInit, FinalStep, PTL

\* ListenerTypes: the durable rows and what a tick remembers keep their types.
THEOREM ListenerTypes == Spec => []TypeOK
<1>1. FinalInv => TypeOK
  BY DEF FinalInv, Types, Ticks, TypeOK, Ledgers
<1> QED BY <1>1, FinalInvariant, PTL

\* OnlyFinalEventsHolds: no booking ever reflects an event of a ledger inside
\* the finality window, in every environment (Guarantee 3 of the listener).
THEOREM OnlyFinalEventsHolds == Spec => []OnlyFinalEvents
<1>1. FinalInv => OnlyFinalEvents
  BY DEF FinalInv
<1> QED BY <1>1, FinalInvariant, PTL

-----------------------------------------------------------------------------
(* At most once, as long as the claims are kept.                           *)

\* A tick that is through with an event, or at none, leaves the claims sound.
LEMMA LeaveClaims ==
  ASSUME FinalInv, ClaimInv, NEW l \in Listeners, NEW t,
         t.at \notin {"project", "transition", "release"},
         tick' = [tick EXCEPT ![l] = t], UNCHANGED <<log, claimed, applied>>
  PROVE  ClaimInv'
<1>1. tick \in [Listeners -> Ticks]
  BY DEF FinalInv, Types
<1>2. tick'[l] = t /\ \A m \in Listeners \ {l} : tick'[m] = tick[m]
  BY <1>1
<1>3. ~Working(l)' /\ \A m \in Listeners \ {l} : (Working(m)' <=> Working(m)) /\ Current(m)' = Current(m)
  BY <1>2 DEF Working, Current
<1> QED BY <1>3 DEF ClaimInv

\* A tick that goes on with the event it has claimed leaves the claims sound.
LEMMA KeepClaims ==
  ASSUME FinalInv, ClaimInv, NEW l \in Listeners, Working(l), NEW t, t.page = tick[l].page,
         tick' = [tick EXCEPT ![l] = t], UNCHANGED <<log, claimed, applied>>
  PROVE  ClaimInv'
<1>1. tick \in [Listeners -> Ticks]
  BY DEF FinalInv, Types
<1>2. tick'[l] = t /\ \A m \in Listeners \ {l} : tick'[m] = tick[m]
  BY <1>1
<1>3. \A m \in Listeners : (Working(m)' => Working(m)) /\ Current(m)' = Current(m)
  BY <1>2 DEF Working, Current
<1> QED BY <1>3 DEF ClaimInv

\* Every step of a tick keeps the claims sound.
LEMMA ClaimTickStep ==
  ASSUME FinalInv, ClaimInv, NEW l \in Listeners,
         runEscrowListenerTick(l) \/ tickFails(l) \/ claimThrows(l) \/ projectionThrows(l) \/ crash(l)
  PROVE  ClaimInv'
<1>0. /\ Types /\ Steady(l) /\ tick \in [Listeners -> Ticks] /\ tick[l] \in Ticks
      /\ tick[l].max \in Ledgers
  BY TickShape DEF FinalInv, Types
<1>1. NoTick.at \notin {"project", "transition", "release"}
  BY DEF NoTick
<1>2. CASE tick' = [tick EXCEPT ![l] = NoTick] /\ UNCHANGED <<log, claimed, applied>>
  BY <1>1, <1>2, LeaveClaims
<1>3. ASSUME tick[l].page # << >>, NEW max \in Ledgers, tick' = [tick EXCEPT ![l] = Rest(l, max)],
             UNCHANGED <<log, claimed, applied>>
      PROVE  ClaimInv'
  <2>1. Rest(l, max).at \notin {"project", "transition", "release"}
    BY <1>0, <1>3, RestShape
  <2> QED BY <1>3, <2>1, LeaveClaims
<1>4. CASE beginTick(l)
  <2> DEFINE t == [tick[l] EXCEPT !.at = "fetch", !.before = CursorOf(l), !.safeTip = SafeTip]
  <2>1. tick' = [tick EXCEPT ![l] = t] /\ UNCHANGED <<log, claimed, applied>>
    BY <1>0, <1>4 DEF beginTick, durable
  <2>2. t.at = "fetch"
    BY <1>0 DEF Ticks
  <2> HIDE DEF t
  <2> QED BY <2>1, <2>2, LeaveClaims
<1>5. CASE returnAtTip(l)
  BY <1>5 DEF returnAtTip, vars, ClaimInv, Working, Current
<1>6. CASE fetchPage(l)
  <2> DEFINE before == Positive(tick[l].before)
             page == getEvents(before + 1)
             step == IF page = << >> THEN "advance" ELSE "claim"
             t == [tick[l] EXCEPT !.at = step, !.page = page, !.max = before]
  <2>1. tick' = [tick EXCEPT ![l] = t] /\ UNCHANGED <<log, claimed, applied>>
    BY <1>0, <1>6 DEF fetchPage, durable
  <2>2. t.at \in {"advance", "claim"}
    <3>1. step \in {"advance", "claim"}
      OBVIOUS
    <3> HIDE DEF step, page, before
    <3> QED BY <1>0, <3>1 DEF Ticks
  <2> HIDE DEF t
  <2> QED BY <2>1, <2>2, LeaveClaims
<1>7. CASE skipUnsafe(l)
  BY <1>0, <1>3, <1>7 DEF skipUnsafe, Steady, durable
<1>8. CASE skipDuplicate(l)
  <2>1. tick[l].page # << >> /\ log[Current(l)].ledger <= tick[l].safeTip
    BY <1>0, <1>8 DEF skipDuplicate, Safe, Steady
  <2> QED BY <1>3, <1>8, <2>1, LaterLedger DEF skipDuplicate, durable
<1>9. CASE claim(l)
  <2> DEFINE n == Current(l)
  <2>1. tick[l].page # << >> /\ n \notin claimed
    BY <1>0, <1>9 DEF claim, Safe, Steady
  <2>2. n \in DOMAIN log
    BY <1>0, <2>1, CurrentShape
  <2>3. applied[n] = 0
    BY <1>0, <2>1, <2>2 DEF ClaimInv, Types
  <2>4. \A m \in Listeners : Current(m)' = Current(m) /\ (m # l => (Working(m)' <=> Working(m)))
    BY <1>0, <1>9 DEF claim, Goto, Current, Working, Ticks
  <2>5. claimed' = claimed \cup {n} /\ UNCHANGED <<log, applied>>
    BY <1>9 DEF claim, durable
  <2>6. \A m \in Listeners : m # l /\ Working(m)' => Current(m) \in claimed /\ Current(m) # n
    BY <2>1, <2>4 DEF ClaimInv
  <2> HIDE DEF n
  <2> QED BY <2>3, <2>4, <2>5, <2>6 DEF ClaimInv, n
<1>10. CASE project(l)
  <2> DEFINE n == Current(l)
             i == Effect(log[n])
  <2>1. Working(l) /\ tick[l].page # << >> /\ log[n].ledger <= tick[l].safeTip
    BY <1>0, <1>10 DEF project, Working, Steady
  <2>2. CASE i = Undefined
    <3>1. tick' = [tick EXCEPT ![l] = Rest(l, Later(log[n].ledger, tick[l].max))]
      BY <1>10, <2>2 DEF project
    <3> QED BY <1>3, <1>10, <2>1, <3>1, LaterLedger DEF project, durable
  <2>3. CASE i # Undefined
    <3> DEFINE t == [tick[l] EXCEPT !.at = "transition", !.intent = i]
    <3>1. tick' = [tick EXCEPT ![l] = t] /\ UNCHANGED <<log, claimed, applied>>
      BY <1>0, <1>10, <2>3 DEF project, durable
    <3>2. t.page = tick[l].page
      <4> HIDE DEF i
      <4> QED BY <1>0 DEF Ticks
    <3> HIDE DEF t
    <3> QED BY <2>1, <3>1, <3>2, KeepClaims
  <2> QED BY <2>2, <2>3
<1>11. CASE transition(l)
  <2> DEFINE n == Current(l)
             t == Rest(l, Later(log[n].ledger, tick[l].max))
  <2>1. Working(l) /\ tick[l].page # << >> /\ log[n].ledger <= tick[l].safeTip
    BY <1>0, <1>11 DEF transition, Working, Steady
  <2>2. n \in DOMAIN log /\ Later(log[n].ledger, tick[l].max) \in Ledgers
    BY <2>1, LaterLedger
  <2>3. t.at \notin {"project", "transition", "release"} /\ tick' = [tick EXCEPT ![l] = t]
    BY <1>0, <1>11, <2>1, <2>2, RestShape DEF transition
  <2>4. ~Working(l)' /\ \A m \in Listeners \ {l} : (Working(m)' <=> Working(m)) /\ Current(m)' = Current(m)
    <3> HIDE DEF t
    <3> QED BY <1>0, <2>3 DEF Working, Current
  <2>5. n \in claimed /\ applied[n] = 0 /\ UNCHANGED <<log, claimed>>
    BY <1>11, <2>1 DEF transition, ClaimInv
  <2>6. applied'[n] = 1 /\ \A k \in DOMAIN log : k # n => applied'[k] = applied[k]
    BY <1>0, <1>11, <2>2, <2>5 DEF transition, Types
  <2>7. \A m \in Listeners \ {l} : Working(m) => Current(m) # n /\ Current(m) \in DOMAIN log
    BY <2>1, CurrentShape DEF ClaimInv, FinalInv, Steady
  <2> HIDE DEF n, t
  <2> QED BY <2>4, <2>5, <2>6, <2>7 DEF ClaimInv
<1>12. CASE safeRelease(l)
  <2> DEFINE n == Current(l)
  <2>1. Working(l) /\ tick[l].page # << >>
    BY <1>0, <1>12 DEF safeRelease, Working, Steady
  <2>2. tick' = [tick EXCEPT ![l] = NoTick] /\ UNCHANGED <<log, applied>>
    BY <1>12 DEF safeRelease, EndTick, Fault, durable
  <2>3. ~Working(l)' /\ \A m \in Listeners \ {l} : (Working(m)' <=> Working(m)) /\ Current(m)' = Current(m)
    BY <1>0, <1>1, <2>2 DEF Working, Current
  <2>4. claimed \ {n} \subseteq claimed'
    BY <1>12 DEF safeRelease
  <2>5. applied[n] = 0 /\ \A m \in Listeners \ {l} : Working(m) => Current(m) # n
    BY <2>1 DEF ClaimInv
  <2> HIDE DEF n
  <2> QED BY <2>2, <2>3, <2>4, <2>5 DEF ClaimInv
<1>13. CASE advanceCursor(l)
  <2> DEFINE t == [tick[l] EXCEPT !.at = "set", !.before = CursorOf(l)]
  <2>1. UNCHANGED <<log, claimed, applied>>
    BY <1>13 DEF advanceCursor, durable
  <2>2. CASE tick' = [tick EXCEPT ![l] = t]
    <3>1. t.at = "set"
      BY <1>0 DEF Ticks
    <3> HIDE DEF t
    <3> QED BY <2>1, <2>2, <3>1, LeaveClaims
  <2> QED BY <1>0, <1>2, <1>13, <2>1, <2>2 DEF advanceCursor, EndTick
<1>14. CASE projectionThrows(l)
  <2> DEFINE t == [tick[l] EXCEPT !.at = "release"]
  <2>1. Working(l) /\ tick' = [tick EXCEPT ![l] = t] /\ UNCHANGED <<log, claimed, applied>>
    BY <1>14 DEF projectionThrows, Goto, Fault, Working
  <2>2. t.page = tick[l].page
    BY <1>0 DEF Ticks
  <2> HIDE DEF t
  <2> QED BY <2>1, <2>2, KeepClaims
<1>15. CASE storeCursor(l) \/ tickFails(l) \/ crash(l)
  BY <1>2, <1>15 DEF storeCursor, setCursor, tickFails, crash, EndTick, Fault
<1>16. CASE claimThrows(l)
  <2>1. tick' = [tick EXCEPT ![l] = NoTick] /\ UNCHANGED <<log, applied>> /\ claimed \subseteq claimed'
    BY <1>16 DEF claimThrows, EndTick, Fault
  <2>2. ~Working(l)' /\ \A m \in Listeners \ {l} : (Working(m)' <=> Working(m)) /\ Current(m)' = Current(m)
    BY <1>0, <1>1, <2>1 DEF Working, Current
  <2> QED BY <2>1, <2>2 DEF ClaimInv
<1> QED
  BY <1>4, <1>5, <1>6, <1>7, <1>8, <1>9, <1>10, <1>11, <1>12, <1>13, <1>14, <1>15, <1>16
     DEF runEscrowListenerTick

\* With the claims kept, every step of the system keeps them sound.
LEMMA ClaimStep ==
  ASSUME ~MayForget
  PROVE  FinalInv /\ ClaimInv /\ [Next]_vars => ClaimInv'
<1> SUFFICES ASSUME FinalInv, ClaimInv, [Next]_vars PROVE ClaimInv'
  OBVIOUS
<1>1. ASSUME NEW l \in Listeners,
             runEscrowListenerTick(l) \/ tickFails(l) \/ claimThrows(l) \/ projectionThrows(l) \/ crash(l)
      PROVE  ClaimInv'
  BY <1>1, ClaimTickStep
<1>2. ~forget
  BY DEF forget
<1>3. CASE closeLedger \/ (\E i \in Intents : cancelIntent(i) \/ createIntent(i)) \/ UNCHANGED vars
  <2>1. UNCHANGED <<log, tick, claimed, applied>>
    BY <1>3 DEF closeLedger, cancelIntent, createIntent, vars
  <2> QED BY <2>1 DEF ClaimInv, Working, Current
<1> QED BY <1>1, <1>2, <1>3 DEF Next

\* OnlyFinalOnceHolds: as long as no claim outlives its TTL, bookings reflect
\* final events only and no event changes a booking twice, for any number of
\* listeners that share the keys, crash, and fail to set or release a claim (claim
\* before project in runEscrowListenerTick; Guarantees 1 and 3).
THEOREM OnlyFinalOnceHolds ==
  ASSUME ~MayForget
  PROVE  Spec => []OnlyFinalOnce
<1>1. FinalInv /\ ClaimInv => OnlyFinalOnce
  BY DEF FinalInv, ClaimInv, OnlyFinalOnce, AppliedAtMostOnce
<1>2. Init => FinalInv /\ ClaimInv
  BY FinalInit
<1>3. FinalInv /\ ClaimInv /\ [Next]_vars => FinalInv' /\ ClaimInv'
  BY FinalStep, ClaimStep
<1> QED BY <1>1, <1>2, <1>3, PTL DEF Spec
===============================================================================
