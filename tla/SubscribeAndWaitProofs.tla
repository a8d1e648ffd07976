----------------------- MODULE SubscribeAndWaitProofs -----------------------
(***************************************************************************)
(* Proofs about SubscribeAndWait for any scopes over one shared handle, any *)
(* conditions, payloads and time-outs, and any steps in which time passes.  *)
(***************************************************************************)
EXTENDS SubscribeAndWait, TopicFeedProofs

USE HandleAssumption, WaitAssumption

\* What is left in the buffer comes from the stream: it was parsed, and is in the history.
Parsed(w) ==
  /\ \A i \in 1 .. Len(stream[w]) : Json[stream[w][i]] # Undefined
  /\ buffer[w] # None => buffer[w] \in heard[w] /\ Json[buffer[w]] # Undefined
  /\ firings[w] > 0 => buffer[w] # None

\* The remaining time is ahead of the time that has passed by what is left of a frame at most.
Timed(w) ==
  /\ passed[w] <= Timeout[w]
  /\ remaining[w] # None =>
       passed[w] = Timeout[w] \/ remaining[w] + passed[w] + MaxFrame >= Timeout[w] + sinceFrame
  /\ timer[w] = "due" => passed[w] + MaxFrame >= Timeout[w]

\* Nothing of a scope is there before it is started or after it has ended.
Scoped(w) ==
  /\ ~Running(w) => /\ stream[w] = <<>> /\ buffer[w] = None /\ firings[w] = 0
                    /\ remaining[w] = None /\ timer[w] = "off"
  /\ scope[w] \in {"idle", "running"} => output[w] = None

\* The last frame of a countdown takes the remaining time below 0 by less than a frame.
Counted(w) ==
  remaining[w] # None =>
    /\ remaining[w] \in Int
    /\ remaining[w] <= 0 /\ Timeout[w] # 0 =>
         timer[w] = "due" /\ remaining[w] + MaxFrame > 0

ScopesTyped ==
  /\ scope \in [Subscribers -> {"idle", "running", "matched", "timeout", "cancelled"}]
  /\ stream \in [Subscribers -> Seq(Data)]
  /\ buffer \in [Subscribers -> Data \cup {None}]
  /\ firings \in [Subscribers -> Nat]
  /\ DOMAIN remaining = Subscribers
  /\ timer \in [Subscribers -> {"off", "asked", "due"}]
  /\ output \in [Subscribers -> Data \cup {None}]
  /\ heard \in [Subscribers -> SUBSET Data]
  /\ passed \in [Subscribers -> Nat]
  /\ sinceFrame \in 0 .. MaxFrame

\* The state of one scope is sound.
Sound(w) == Parsed(w) /\ Timed(w) /\ Scoped(w) /\ Counted(w)

WaitInv == IInv /\ ScopesTyped /\ \A w \in Subscribers : Sound(w)

LEMMA WaitInvTyped == WaitInv => WaitTypeOK
BY DEF WaitInv, IInv, TypeInv, ScopesTyped, Sound, Counted, WaitTypeOK

-----------------------------------------------------------------------------
(* Steps *)

\* What the scopes do to the handle is a step of the handle.
LEMMA WaitStepsOfHandle ==
  ASSUME [WaitNext]_allVars
  PROVE  [Next]_vars
<1>1. ASSUME NEW w \in Subscribers, ListenStep(w) \/ Drop(w) PROVE Next
  <2>1. CheckMap(w) \/ Recv(w) \/ BadQos(w) \/ SendRequest(w) \/ Insert(w) \/ RecvClosed(w) \/ Leave(w)
    BY <1>1 DEF ListenStep, StartListen, Hear, Drop
  <2> QED
    BY <2>1 DEF Next, Subscribe, Receive
<1>2. ASSUME NEW w \in Subscribers, Start(w) \/ ScopeStep(w) \/ Cancel(w) PROVE UNCHANGED vars
  BY <1>2 DEF Start, ScopeStep, StoreTime, AskTimer, BufferMessage, Consume, TimeOut, Cancel, Terminate
<1>3. ASSUME Frame \/ \E d \in Ticks : Tick(d) PROVE UNCHANGED vars
  BY <1>3 DEF Frame, CountDown, Tick
<1>4. ASSUME NEW p \in Publishers, PublishNode(p) PROVE Next
  BY <1>4 DEF PublishNode, Next
<1>5. ASSUME HandleStep PROVE Next
  BY <1>5 DEF HandleStep, Next
<1>6. ASSUME UNCHANGED allVars PROVE UNCHANGED vars
  BY <1>6 DEF allVars
<1> QED
  BY <1>1, <1>2, <1>3, <1>4, <1>5, <1>6 DEF WaitNext

\* The steps that change a scope.
LEMMA WaitSteps ==
  ASSUME [WaitNext]_allVars
  PROVE  \/ UNCHANGED waitVars
         \/ \E w \in Subscribers : \/ Start(w) \/ StoreTime(w) \/ AskTimer(w) \/ Hear(w) \/ BufferMessage(w)
                                  \/ Consume(w) \/ TimeOut(w) \/ Cancel(w)
         \/ \E d \in Ticks : Tick(d)
         \/ Frame
BY DEF WaitNext, ScopeStep, ListenStep, StartListen, Drop, PublishNode, allVars

\* A scope that a step leaves alone.
Untouched(w) ==
  /\ scope'[w] = scope[w] /\ stream'[w] = stream[w] /\ buffer'[w] = buffer[w]
  /\ firings'[w] = firings[w] /\ remaining'[w] = remaining[w] /\ timer'[w] = timer[w]
  /\ output'[w] = output[w] /\ heard'[w] = heard[w] /\ passed'[w] = passed[w]
  /\ sinceFrame' = sinceFrame

LEMMA UntouchedSound ==
  ASSUME NEW w \in Subscribers, Sound(w), Untouched(w)
  PROVE  Sound(w)'
<1>1. Parsed(w)'
  BY DEF Sound, Untouched, Parsed
<1>2. Timed(w)'
  BY DEF Sound, Untouched, Timed
<1>3. Scoped(w)'
  BY DEF Sound, Untouched, Scoped, Running
<1>4. Counted(w)'
  BY DEF Sound, Untouched, Counted
<1> QED
  BY <1>1, <1>2, <1>3, <1>4 DEF Sound

\* What a step of scope w leaves to show: the types, the other scopes, and the scope itself.
Kept(w) == ScopesTyped' /\ (\A v \in Subscribers : v # w => Untouched(v)) /\ Sound(w)'

LEMMA StartKeeps ==
  ASSUME ScopesTyped, NEW w \in Subscribers, Sound(w), Start(w)
  PROVE  Kept(w)
<1>1. scope[w] = "idle" /\ scope' = [scope EXCEPT ![w] = "running"]
  BY DEF Start
<1>2. UNCHANGED <<stream, buffer, firings, remaining, timer, output, heard, passed, sinceFrame>>
  BY DEF Start, timeVars
<1>3. Running(w)' /\ output[w] = None
  BY <1>1 DEF ScopesTyped, Running, Sound, Scoped
<1>4. ScopesTyped'
  BY <1>1, <1>2 DEF ScopesTyped
<1>5. \A v \in Subscribers : v # w => Untouched(v)
  BY <1>1, <1>2 DEF ScopesTyped, Untouched
<1>6. Sound(w)'
  BY <1>2, <1>3 DEF Sound, Parsed, Timed, Scoped, Counted
<1> QED
  BY <1>4, <1>5, <1>6 DEF Kept

LEMMA StoreTimeKeeps ==
  ASSUME ScopesTyped, NEW w \in Subscribers, Sound(w), StoreTime(w)
  PROVE  Kept(w)
<1>1. Running(w) /\ remaining' = [remaining EXCEPT ![w] = Timeout[w]]
  BY DEF StoreTime
<1>2. UNCHANGED <<scope, stream, buffer, firings, timer, output, heard, passed, sinceFrame>>
  BY DEF StoreTime, timeVars
<1>3. remaining'[w] = Timeout[w] /\ Timeout[w] \in Nat /\ passed[w] \in Nat /\ passed'[w] = passed[w]
  BY <1>1, <1>2 DEF ScopesTyped
<1>4. ScopesTyped'
  BY <1>1, <1>2 DEF ScopesTyped
<1>5. \A v \in Subscribers : v # w => Untouched(v)
  BY <1>1, <1>2 DEF ScopesTyped, Untouched
<1>6. Parsed(w)' /\ Scoped(w)'
  BY <1>1, <1>2 DEF Sound, Parsed, Scoped, Running
<1>7. Timed(w)'
  <2>1. sinceFrame \in Nat /\ sinceFrame <= MaxFrame /\ MaxFrame \in Nat
    BY DEF ScopesTyped
  <2>2. remaining'[w] + passed'[w] + MaxFrame >= Timeout[w] + sinceFrame'
    BY <1>2, <1>3, <2>1
  <2> QED
    BY <1>2, <2>2 DEF Sound, Timed
<1>8. Counted(w)'
  BY <1>3 DEF Counted
<1> QED
  BY <1>4, <1>5, <1>6, <1>7, <1>8 DEF Kept, Sound

LEMMA AskTimerKeeps ==
  ASSUME ScopesTyped, NEW w \in Subscribers, Sound(w), AskTimer(w)
  PROVE  Kept(w)
<1>1. Running(w) /\ timer[w] = "off" /\ timer' = [timer EXCEPT ![w] = "asked"]
  BY DEF AskTimer
<1>2. UNCHANGED <<scope, stream, buffer, firings, remaining, output, heard, passed, sinceFrame>>
  BY DEF AskTimer, timeVars
<1>3. timer'[w] = "asked"
  BY <1>1 DEF ScopesTyped
<1>4. ScopesTyped'
  BY <1>1, <1>2 DEF ScopesTyped
<1>5. \A v \in Subscribers : v # w => Untouched(v)
  BY <1>1, <1>2 DEF ScopesTyped, Untouched
<1>6. Parsed(w)' /\ Timed(w)' /\ Scoped(w)'
  BY <1>1, <1>2, <1>3 DEF Sound, Parsed, Timed, Scoped, Running
<1>7. Counted(w)'
  BY <1>1, <1>2 DEF Sound, Counted
<1> QED
  BY <1>4, <1>5, <1>6, <1>7 DEF Kept, Sound

LEMMA HearKeeps ==
  ASSUME TypeInv, ScopesTyped, NEW w \in Subscribers, Sound(w), Hear(w)
  PROVE  Kept(w)
<1> DEFINE data == Head(inbox[w]).data
<1>1. /\ Running(w)
      /\ stream' = [stream EXCEPT ![w] = IF Json[data] = Undefined THEN @ ELSE Append(@, data)]
  BY DEF Hear
<1>2. UNCHANGED <<scope, buffer, firings, remaining, timer, output, heard, passed, sinceFrame>>
  BY DEF Hear, timeVars
<1>3. data \in Data
  <2>1. inbox[w] \in Seq(Message) /\ inbox[w] # <<>>
    BY DEF Hear, Recv, TypeInv, TypeOK
  <2>2. Head(inbox[w]) \in Message
    BY <2>1, TailFacts
  <2> QED
    BY <2>2, MessageFields DEF Data
<1> HIDE DEF data
<1>4. stream[w] \in Seq(Data) /\ Len(stream[w]) \in Nat
  BY LenProperties DEF ScopesTyped
<1>5. /\ Append(stream[w], data) \in Seq(Data)
      /\ Len(Append(stream[w], data)) = Len(stream[w]) + 1
      /\ \A i \in 1 .. Len(stream[w]) : Append(stream[w], data)[i] = stream[w][i]
      /\ Append(stream[w], data)[Len(stream[w]) + 1] = data
  BY <1>3, <1>4, AppendProperties
<1>6. stream'[w] = IF Json[data] = Undefined THEN stream[w] ELSE Append(stream[w], data)
  BY <1>1 DEF ScopesTyped
<1>7. ScopesTyped'
  <2>1. stream'[w] \in Seq(Data)
    BY <1>4, <1>5, <1>6
  <2> QED
    BY <1>1, <1>2, <2>1 DEF ScopesTyped
<1>8. \A v \in Subscribers : v # w => Untouched(v)
  BY <1>1, <1>2 DEF ScopesTyped, Untouched
<1>9. \A i \in 1 .. Len(stream'[w]) : Json[stream'[w][i]] # Undefined
  BY <1>4, <1>5, <1>6 DEF Sound, Parsed
<1>10. Parsed(w)' /\ Timed(w)' /\ Scoped(w)' /\ Counted(w)'
  BY <1>1, <1>2, <1>9 DEF Sound, Parsed, Timed, Scoped, Counted, Running
<1> QED
  BY <1>7, <1>8, <1>10 DEF Kept, Sound

LEMMA BufferMessageKeeps ==
  ASSUME ScopesTyped, NEW w \in Subscribers, Sound(w), BufferMessage(w)
  PROVE  /\ Kept(w) /\ Running(w)
         /\ buffer'[w] \in Data /\ firings'[w] > 0 /\ heard' = [heard EXCEPT ![w] = @ \cup {buffer'[w]}]
<1> DEFINE data == Head(stream[w])
<1>1. /\ stream[w] # <<>>
      /\ stream' = [stream EXCEPT ![w] = Tail(@)]
      /\ buffer' = [buffer EXCEPT ![w] = data]
      /\ firings' = [firings EXCEPT ![w] = @ + 1]
      /\ heard' = [heard EXCEPT ![w] = @ \cup {data}]
      /\ UNCHANGED <<scope, remaining, timer, output, passed, sinceFrame>>
  BY DEF BufferMessage, timeVars
<1>2. /\ data = stream[w][1] /\ data \in Data
      /\ Tail(stream[w]) \in Seq(Data)
      /\ Len(stream[w]) \in Nat /\ Len(stream[w]) >= 1 /\ Len(Tail(stream[w])) = Len(stream[w]) - 1
      /\ \A i \in 1 .. Len(stream[w]) - 1 : Tail(stream[w])[i] = stream[w][i + 1]
  BY <1>1, TailFacts DEF ScopesTyped
<1> HIDE DEF data
<1>3. /\ stream'[w] = Tail(stream[w]) /\ buffer'[w] = data
      /\ firings'[w] = firings[w] + 1 /\ firings[w] \in Nat
      /\ data \in heard'[w]
  BY <1>1 DEF ScopesTyped
<1>4. Running(w)
  BY <1>1 DEF Sound, Scoped
<1>5. ScopesTyped'
  BY <1>1, <1>2 DEF ScopesTyped
<1>6. \A v \in Subscribers : v # w => Untouched(v)
  BY <1>1 DEF ScopesTyped, Untouched
<1>7. \A i \in 1 .. Len(stream[w]) : Json[stream[w][i]] # Undefined
  BY DEF Sound, Parsed
<1>8. Json[data] # Undefined
  BY <1>2, <1>7
<1>9. ASSUME NEW i \in 1 .. Len(stream'[w]) PROVE Json[stream'[w][i]] # Undefined
  <2>1. i \in 1 .. Len(stream[w]) - 1 /\ i + 1 \in 1 .. Len(stream[w])
    BY <1>2, <1>3
  <2> QED
    BY <1>2, <1>3, <1>7, <2>1
<1>10. Parsed(w)'
  BY <1>2, <1>3, <1>8, <1>9 DEF Parsed
<1>11. Timed(w)' /\ Scoped(w)' /\ Counted(w)'
  BY <1>1, <1>4 DEF Sound, Timed, Scoped, Counted, Running
<1>12. firings'[w] > 0
  BY <1>3
<1> QED
  BY <1>1, <1>2, <1>3, <1>4, <1>5, <1>6, <1>10, <1>11, <1>12 DEF Kept, Sound

\* A scope ends with everything that was in it.
LEMMA TerminateKeeps ==
  ASSUME ScopesTyped, NEW w \in Subscribers, Sound(w), NEW how \in {"matched", "timeout", "cancelled"},
         NEW value \in Data \cup {None}, Terminate(w, how, value)
  PROVE  Kept(w)
<1>1. /\ scope' = [scope EXCEPT ![w] = how] /\ output' = [output EXCEPT ![w] = value]
      /\ stream' = [stream EXCEPT ![w] = <<>>] /\ buffer' = [buffer EXCEPT ![w] = None]
      /\ firings' = [firings EXCEPT ![w] = 0] /\ remaining' = [remaining EXCEPT ![w] = None]
      /\ timer' = [timer EXCEPT ![w] = "off"]
      /\ UNCHANGED <<heard, passed, sinceFrame>>
  BY DEF Terminate, timeVars
<1>2. <<>> \in Seq(Data) /\ Len(<<>>) = 0
  BY EmptySeq
<1>3. ScopesTyped'
  BY <1>1, <1>2 DEF ScopesTyped
<1>4. \A v \in Subscribers : v # w => Untouched(v)
  BY <1>1 DEF ScopesTyped, Untouched
<1>5. /\ scope'[w] = how /\ stream'[w] = <<>> /\ buffer'[w] = None /\ firings'[w] = 0
      /\ remaining'[w] = None /\ timer'[w] = "off" /\ UNCHANGED <<passed, sinceFrame>>
  BY <1>1 DEF ScopesTyped
<1>6. Parsed(w)'
  BY <1>2, <1>5 DEF Parsed
<1>7. Timed(w)'
  BY <1>5 DEF Sound, Timed
<1>8. Scoped(w)' /\ Counted(w)'
  BY <1>5 DEF Scoped, Counted
<1> QED
  BY <1>3, <1>4, <1>6, <1>7, <1>8 DEF Kept, Sound

LEMMA ConsumeKeeps ==
  ASSUME ScopesTyped, NEW w \in Subscribers, Sound(w), Consume(w)
  PROVE  Kept(w) /\ Running(w) /\ buffer[w] \in heard[w] /\ buffer[w] \in Data /\ Json[buffer[w]] # Undefined
<1>1. firings[w] > 0 /\ firings[w] \in Nat
  BY DEF Consume, ScopesTyped
<1>2. buffer[w] # None /\ buffer[w] \in heard[w] /\ Json[buffer[w]] # Undefined /\ buffer[w] \in Data
  BY <1>1 DEF Sound, Parsed, ScopesTyped
<1>3. Running(w)
  BY <1>1 DEF Sound, Scoped
<1>4. CASE Accepted(w, buffer[w])
  BY <1>2, <1>3, <1>4, TerminateKeeps DEF Consume
<1>5. CASE ~Accepted(w, buffer[w])
  <2>1. /\ firings' = [firings EXCEPT ![w] = @ - 1]
        /\ UNCHANGED <<scope, stream, buffer, remaining, timer, output, heard, passed, sinceFrame>>
    BY <1>5 DEF Consume, timeVars
  <2>2. firings[w] - 1 \in Nat
    BY <1>1
  <2>3. ScopesTyped'
    BY <2>1, <2>2 DEF ScopesTyped
  <2>4. \A v \in Subscribers : v # w => Untouched(v)
    BY <2>1 DEF ScopesTyped, Untouched
  <2>5. Sound(w)'
    BY <1>2, <1>3, <2>1 DEF Sound, Parsed, Timed, Scoped, Counted, Running
  <2> QED
    BY <1>2, <1>3, <2>3, <2>4, <2>5 DEF Kept
<1> QED
  BY <1>4, <1>5

\* As time passes, the time of a running scope grows with the time that the next frame takes off.
LEMMA TickKeeps ==
  ASSUME ScopesTyped, \A v \in Subscribers : Sound(v), NEW d \in Ticks, Tick(d)
  PROVE  /\ ScopesTyped' /\ (\A v \in Subscribers : Sound(v)')
         /\ \A v \in Subscribers : passed'[v] >= passed[v]
<1>0. d \in Nat /\ d > 0 /\ MaxFrame \in Nat
  <2>1. d \in 1 .. MaxFrame
    BY WaitAssumption, Zenon
  <2> QED
    BY <2>1
<1>1. /\ sinceFrame' = sinceFrame + d /\ sinceFrame + d <= MaxFrame
      /\ passed' = [v \in Subscribers |->
                      IF ~Running(v) THEN passed[v]
                      ELSE IF passed[v] + d < Timeout[v] THEN passed[v] + d ELSE Timeout[v]]
      /\ UNCHANGED <<scope, stream, buffer, firings, remaining, timer, output, heard>>
  BY DEF Tick, scopeVars
<1>2. sinceFrame \in Nat /\ sinceFrame' \in 0 .. MaxFrame
  BY <1>0, <1>1 DEF ScopesTyped
<1>3. ASSUME NEW v \in Subscribers
      PROVE  /\ passed[v] \in Nat /\ Timeout[v] \in Nat /\ passed[v] <= Timeout[v]
             /\ passed'[v] \in Nat /\ passed'[v] >= passed[v] /\ passed'[v] <= Timeout[v]
             /\ Running(v) => passed'[v] = Timeout[v] \/ passed'[v] = passed[v] + d
  <2>1. passed[v] \in Nat /\ Timeout[v] \in Nat /\ passed[v] <= Timeout[v]
    BY DEF ScopesTyped, Sound, Timed
  <2>2. passed'[v] = IF ~Running(v) THEN passed[v]
                     ELSE IF passed[v] + d < Timeout[v] THEN passed[v] + d ELSE Timeout[v]
    BY <1>1
  <2> QED
    BY <1>0, <2>1, <2>2
<1>4. ScopesTyped'
  BY <1>1, <1>2, <1>3 DEF ScopesTyped
<1>5. ASSUME NEW v \in Subscribers PROVE Sound(v)'
  <2>1. Parsed(v)' /\ Scoped(v)' /\ Counted(v)'
    BY <1>1 DEF Sound, Parsed, Scoped, Counted, Running
  <2>2. ASSUME remaining[v] # None
        PROVE  passed'[v] = Timeout[v] \/ remaining[v] + passed'[v] + MaxFrame >= Timeout[v] + sinceFrame'
    <3>1. remaining[v] \in Int /\ Running(v)
      BY <2>2 DEF Sound, Counted, Scoped
    <3>2. passed[v] = Timeout[v] \/ remaining[v] + passed[v] + MaxFrame >= Timeout[v] + sinceFrame
      BY <2>2 DEF Sound, Timed
    <3> QED
      BY <1>0, <1>1, <1>2, <1>3, <3>1, <3>2
  <2>3. ASSUME timer[v] = "due" PROVE passed'[v] + MaxFrame >= Timeout[v]
    <3>1. passed[v] + MaxFrame >= Timeout[v]
      BY <2>3 DEF Sound, Timed
    <3> QED
      BY <1>0, <1>3, <3>1
  <2>4. Timed(v)'
    BY <1>1, <1>3, <2>2, <2>3 DEF Timed
  <2> QED
    BY <2>1, <2>4 DEF Sound
<1> QED
  BY <1>3, <1>4, <1>5

\* A frame takes off the time since the one before it.
LEMMA FrameKeeps ==
  ASSUME ScopesTyped, \A v \in Subscribers : Sound(v), Frame
  PROVE  ScopesTyped' /\ \A v \in Subscribers : Sound(v)'
<1>0. sinceFrame \in Nat /\ sinceFrame > 0 /\ sinceFrame <= MaxFrame /\ MaxFrame \in Nat /\ sinceFrame' = 0
  BY DEF ScopesTyped, Frame, CountDown
<1>1. /\ remaining' = [v \in Subscribers |->
                         IF v \in Counting THEN [w \in Counting |-> remaining[w] - sinceFrame][v] ELSE remaining[v]]
      /\ timer' = [v \in Subscribers |->
                     IF v \in Counting /\ [w \in Counting |-> remaining[w] - sinceFrame][v] <= 0
                       THEN "due" ELSE timer[v]]
      /\ UNCHANGED <<scope, stream, buffer, firings, output, heard, passed>>
  BY DEF Frame, CountDown
<1>2. ASSUME NEW v \in Subscribers
      PROVE  /\ remaining'[v] = IF v \in Counting THEN remaining[v] - sinceFrame ELSE remaining[v]
             /\ timer'[v] = IF v \in Counting /\ remaining[v] - sinceFrame <= 0 THEN "due" ELSE timer[v]
  BY <1>1
<1>3. ScopesTyped'
  BY <1>0, <1>1 DEF ScopesTyped
<1>4. ASSUME NEW v \in Subscribers PROVE Sound(v)'
  <2>1. Parsed(v)'
    BY <1>1 DEF Sound, Parsed
  <2>2. Scoped(v)'
    <3>1. v \in Counting => Running(v)
      BY DEF Counting
    <3> QED
      BY <1>1, <1>2, <3>1 DEF Sound, Scoped, Running
  <2>3. passed[v] \in Nat /\ Timeout[v] \in Nat /\ passed[v] <= Timeout[v] /\ passed'[v] = passed[v]
    BY <1>1 DEF ScopesTyped, Sound, Timed
  <2>4. CASE v \in Counting
    <3>1. timer[v] = "asked" /\ remaining[v] # None
      BY <2>4 DEF Counting
    <3>2. /\ remaining[v] \in Int
          /\ remaining[v] > 0 \/ Timeout[v] = 0
          /\ passed[v] = Timeout[v] \/ remaining[v] + passed[v] + MaxFrame >= Timeout[v] + sinceFrame
      BY <3>1 DEF Sound, Counted, Timed
    <3>3. /\ remaining'[v] = remaining[v] - sinceFrame /\ remaining'[v] \in Int
          /\ timer'[v] = IF remaining'[v] <= 0 THEN "due" ELSE "asked"
      BY <1>0, <1>2, <2>4, <3>1, <3>2
    <3>4. passed[v] = Timeout[v] \/ remaining'[v] + passed[v] + MaxFrame >= Timeout[v] + 0
      BY <1>0, <2>3, <3>2, <3>3
    <3>5. timer'[v] = "due" => passed[v] + MaxFrame >= Timeout[v]
      BY <1>0, <2>3, <3>3, <3>4
    <3>6. remaining[v] > 0 => remaining'[v] + MaxFrame > 0
      BY <1>0, <3>2, <3>3
    <3>7. Timed(v)'
      BY <1>0, <2>3, <3>4, <3>5 DEF Timed
    <3>8. Counted(v)'
      BY <3>2, <3>3, <3>6 DEF Counted
    <3> QED
      BY <2>1, <2>2, <3>7, <3>8 DEF Sound
  <2>5. CASE v \notin Counting
    <3>1. remaining'[v] = remaining[v] /\ timer'[v] = timer[v]
      BY <1>2, <2>5
    <3>2. Counted(v)'
      BY <3>1 DEF Sound, Counted
    <3>3. ASSUME remaining[v] # None
          PROVE  passed[v] = Timeout[v] \/ remaining[v] + passed[v] + MaxFrame >= Timeout[v] + 0
      <4>1. remaining[v] \in Int
        BY <3>3 DEF Sound, Counted
      <4>2. passed[v] = Timeout[v] \/ remaining[v] + passed[v] + MaxFrame >= Timeout[v] + sinceFrame
        BY <3>3 DEF Sound, Timed
      <4> QED
        BY <1>0, <2>3, <4>1, <4>2
    <3>4. timer[v] = "due" => passed[v] + MaxFrame >= Timeout[v]
      BY DEF Sound, Timed
    <3>5. Timed(v)'
      BY <1>0, <2>3, <3>1, <3>3, <3>4 DEF Timed
    <3> QED
      BY <2>1, <2>2, <3>2, <3>5 DEF Sound
  <2> QED
    BY <2>4, <2>5
<1> QED
  BY <1>3, <1>4

LEMMA WaitInvInit == WaitInit => WaitInv
<1> SUFFICES ASSUME WaitInit PROVE WaitInv
  OBVIOUS
<1>1. IInv
  <2>1. EntryBacked /\ InsertBacked
    BY DEF WaitInit, Init, EntryBacked, InsertBacked
  <2> QED
    BY <2>1, TypeInvInit, OrderInvInit DEF IInv, WaitInit
<1>2. <<>> \in Seq(Data) /\ Len(<<>>) = 0
  BY EmptySeq
<1>3. ScopesTyped
  BY <1>2 DEF WaitInit, ScopesTyped
<1>4. ASSUME NEW w \in Subscribers PROVE Sound(w)
  <2>1. Parsed(w)
    BY <1>2 DEF WaitInit, Parsed
  <2>2. Timed(w)
    BY DEF WaitInit, Timed
  <2>3. Scoped(w) /\ Counted(w)
    BY DEF WaitInit, Scoped, Counted, Running
  <2> QED
    BY <2>1, <2>2, <2>3 DEF Sound
<1> QED
  BY <1>1, <1>3, <1>4 DEF WaitInv

LEMMA WaitInvStep ==
  ASSUME WaitInv, [WaitNext]_allVars
  PROVE  WaitInv'
<1>0. TypeInv /\ ScopesTyped /\ \A w \in Subscribers : Sound(w)
  BY DEF WaitInv, IInv
<1>1. IInv'
  BY WaitStepsOfHandle, TypeInvStep, OrderInvStep, BackedInvStep DEF WaitInv, IInv
<1>2. ASSUME UNCHANGED waitVars PROVE ScopesTyped' /\ \A w \in Subscribers : Sound(w)'
  <2>1. UNCHANGED <<scope, stream, buffer, firings, remaining, timer, output, heard, passed, sinceFrame>>
    BY <1>2 DEF waitVars, scopeVars, timeVars
  <2>2. ScopesTyped'
    BY <1>0, <2>1 DEF ScopesTyped
  <2>3. \A w \in Subscribers : Untouched(w)
    BY <2>1 DEF Untouched
  <2> QED
    BY <1>0, <2>2, <2>3, UntouchedSound
<1>3. ASSUME NEW w \in Subscribers,
             \/ Start(w) \/ StoreTime(w) \/ AskTimer(w) \/ Hear(w) \/ BufferMessage(w)
             \/ Consume(w) \/ TimeOut(w) \/ Cancel(w)
      PROVE  ScopesTyped' /\ \A v \in Subscribers : Sound(v)'
  <2>1. ASSUME TimeOut(w) \/ Cancel(w) PROVE Kept(w)
    BY <1>0, <2>1, TerminateKeeps DEF TimeOut, Cancel
  <2>2. Kept(w)
    BY <1>0, <1>3, <2>1, StartKeeps, StoreTimeKeeps, AskTimerKeeps, HearKeeps, BufferMessageKeeps, ConsumeKeeps
  <2> QED
    BY <1>0, <2>2, UntouchedSound DEF Kept
<1>4. ASSUME Frame \/ \E d \in Ticks : Tick(d) PROVE ScopesTyped' /\ \A w \in Subscribers : Sound(w)'
  BY <1>0, <1>4, FrameKeeps, TickKeeps
<1> QED
  BY <1>1, <1>2, <1>3, <1>4, WaitSteps DEF WaitInv

LEMMA WaitInductive == WaitSafety => []WaitInv
BY WaitInvInit, WaitInvStep, PTL DEF WaitSafety

\* Every scope and its clock keep their types; a countdown is due once, when its time has passed.
THEOREM WaitTypeCorrect == WaitSafety => []WaitTypeOK
BY WaitInductive, WaitInvTyped, PTL

\* The listen nodes of the scopes are receivers of the handle like any others: what MqttHandle
\* promises about the order of their messages and about the map holds under the scopes.
THEOREM ScopesReceiveInOrder == WaitSafety => [](InOrder /\ EntryBacked)
<1>1. WaitInv => InOrder /\ EntryBacked
  BY DEF WaitInv, IInv, OrderInv
<1> QED
  BY <1>1, WaitInductive, PTL

-----------------------------------------------------------------------------
(* What the condition accepts *)

\* A variable of the expression is a field of the message, or the message unless a field hides it.
LEMMA VariableOfContext ==
  ASSUME NEW message, NEW name
  PROVE  Member(Context(message), name) =
           IF name = "message" /\ ~(message.kind = "object" /\ name \in DOMAIN message.fields)
             THEN message ELSE Member(message, name)
<1> DEFINE fields == IF message.kind = "object" THEN DOMAIN message.fields ELSE {}
<1> DEFINE variables == [v \in fields \cup {"message"} |-> IF v \in fields THEN message.fields[v] ELSE message]
<1>1. Context(message) = [kind |-> "object", fields |-> variables]
  BY DEF Context, Object
<1>2. Context(message).kind = "object" /\ Context(message).fields = variables
  BY <1>1
<1>3. DOMAIN variables = fields \cup {"message"}
  OBVIOUS
<1>4. Member(Context(message), name) =
        IF name \in fields \cup {"message"} THEN variables[name] ELSE Undefined
  BY <1>2, <1>3 DEF Member
<1>5. CASE name \in fields
  <2>1. message.kind = "object" /\ name \in DOMAIN message.fields
    BY <1>5
  <2>2. Member(message, name) = message.fields[name]
    BY <2>1 DEF Member
  <2> QED
    BY <1>4, <1>5, <2>1, <2>2
<1>6. CASE name \notin fields /\ name = "message"
  <2>1. ~(message.kind = "object" /\ name \in DOMAIN message.fields)
    BY <1>6
  <2> QED
    BY <1>4, <1>6, <2>1
<1>7. CASE name # "message" /\ name \notin fields
  <2>1. Member(message, name) = Undefined
    BY <1>7 DEF Member
  <2> QED
    BY <1>4, <1>7, <2>1
<1> QED
  BY <1>5, <1>6, <1>7

\* What the node accepts, of any data: what the docs say, but for the fields that hide the message.
LEMMA AcceptedAsRead ==
  ASSUME NEW v \in Subscribers, NEW d \in Data
  PROVE  Accepted(v, d) <=> IF Hidden(Condition[v], Json[d]) THEN MeansField(Condition[v], Json[d])
                            ELSE Means(Condition[v], Json[d])
<1> DEFINE c == Condition[v]
           m == Json[d]
           value == Resolve(m, c.path)
<1>1. /\ c.kind \in {"empty", "faulty", "equals"}
      /\ c.kind = "equals" => c.literal # Undefined
  OBVIOUS
<1>2. EvalCondition(c, m) = IF c.kind = "faulty" \/ value = Undefined THEN "error"
                            ELSE IF value = c.literal THEN "true" ELSE "false"
  BY DEF EvalCondition
<1>3. value = FoldLeft(Member, Member(Context(m), Head(c.path)), Tail(c.path))
  BY DEF Resolve
<1> HIDE DEF value
<1>4. Accepted(v, d) <=> c.kind = "empty" \/ (c.kind # "faulty" /\ value # Undefined /\ value = c.literal)
  BY <1>2 DEF Accepted, ConditionNode
<1>5. CASE c.kind # "equals"
  <2>1. ~Hidden(c, m) /\ (Means(c, m) <=> c.kind = "empty")
    BY <1>5 DEF Hidden, Means
  <2> QED
    BY <1>1, <1>4, <1>5, <2>1
<1>6. CASE c.kind = "equals"
  <2>1. Accepted(v, d) <=> value = c.literal
    BY <1>1, <1>4, <1>6
  <2>2. CASE Hidden(c, m)
    <3>1. /\ Head(c.path) = "message"
          /\ m.kind = "object" /\ "message" \in DOMAIN m.fields
      BY <2>2 DEF Hidden
    <3>2. Member(Context(m), Head(c.path)) = Member(m, "message")
      BY <3>1, VariableOfContext
    <3>3. Member(m, "message") = m.fields["message"]
      BY <3>1 DEF Member
    <3>4. MeansField(c, m) <=> value = c.literal
      BY <1>3, <3>2, <3>3 DEF MeansField
    <3> QED
      BY <2>1, <2>2, <3>4
  <2>3. CASE ~Hidden(c, m)
    <3>1. Member(Context(m), Head(c.path)) = IF Head(c.path) = "message" THEN m ELSE Member(m, Head(c.path))
      BY <1>6, <2>3, VariableOfContext DEF Hidden
    <3>2. Means(c, m) <=> value = c.literal
      BY <1>3, <1>6, <3>1 DEF Means
    <3> QED
      BY <2>1, <2>3, <3>2
  <2> QED
    BY <2>2, <2>3
<1> QED
  BY <1>5, <1>6

LEMMA NewestStep ==
  ASSUME WaitInv, NewestIsConsidered, [WaitNext]_allVars
  PROVE  NewestIsConsidered'
<1>0. ScopesTyped /\ TypeInv /\ (\A w \in Subscribers : Sound(w)) /\ ScopesTyped'
  BY WaitInvStep DEF WaitInv, IInv
<1>1. ASSUME NEW w \in Subscribers, scope'[w] = scope[w], firings'[w] = firings[w], buffer'[w] = buffer[w]
      PROVE  Running(w)' /\ firings'[w] = 0 => buffer'[w] \notin Accepting[w]
  BY <1>1 DEF NewestIsConsidered, Running
<1>2. ASSUME NEW w \in Subscribers, ~Running(w)' \/ buffer'[w] = None \/ firings'[w] > 0
      PROVE  Running(w)' /\ firings'[w] = 0 => buffer'[w] \notin Accepting[w]
  <2>1. ASSUME buffer'[w] = None PROVE buffer'[w] \notin Accepting[w]
    BY <2>1 DEF Accepting
  <2> QED
    BY <1>2, <2>1
<1>3. ASSUME NEW w \in Subscribers, UNCHANGED <<scope, firings, buffer>> \/ Untouched(w)
      PROVE  Running(w)' /\ firings'[w] = 0 => buffer'[w] \notin Accepting[w]
  BY <1>1, <1>3 DEF Untouched
<1>4. ASSUME NEW w \in Subscribers,
             \/ Start(w) \/ StoreTime(w) \/ AskTimer(w) \/ Hear(w) \/ BufferMessage(w)
             \/ Consume(w) \/ TimeOut(w) \/ Cancel(w)
      PROVE  Kept(w) /\ (Running(w)' /\ firings'[w] = 0 => buffer'[w] \notin Accepting[w])
  <2>1. CASE Start(w)
    <3>1. buffer'[w] = None
      BY <1>0, <2>1 DEF Start, Sound, Scoped, Running
    <3> QED
      BY <1>0, <1>2, <2>1, <3>1, StartKeeps
  <2>2. CASE StoreTime(w) \/ AskTimer(w) \/ Hear(w)
    <3>1. UNCHANGED <<scope, firings, buffer>>
      BY <2>2 DEF StoreTime, AskTimer, Hear
    <3> QED
      BY <1>0, <1>3, <2>2, <3>1, StoreTimeKeeps, AskTimerKeeps, HearKeeps
  <2>3. CASE BufferMessage(w)
    BY <1>0, <1>2, <2>3, BufferMessageKeeps
  <2>4. ASSUME NEW how \in {"matched", "timeout", "cancelled"}, NEW value, Terminate(w, how, value)
        PROVE  Running(w)' /\ firings'[w] = 0 => buffer'[w] \notin Accepting[w]
    <3>1. ~Running(w)'
      BY <1>0, <2>4 DEF Terminate, ScopesTyped, Running
    <3> QED
      BY <1>2, <3>1
  <2>5. CASE TimeOut(w) \/ Cancel(w)
    BY <1>0, <2>4, <2>5, TerminateKeeps DEF TimeOut, Cancel
  <2>6. CASE Consume(w)
    <3>1. Kept(w) /\ buffer[w] \in Data /\ Json[buffer[w]] # Undefined
      BY <1>0, <2>6, ConsumeKeeps
    <3>2. CASE Accepted(w, buffer[w])
      BY <2>4, <2>6, <3>1, <3>2 DEF Consume
    <3>3. CASE ~Accepted(w, buffer[w])
      <4>1. buffer[w] \notin Accepting[w]
        BY <3>1, <3>3 DEF Accepting
      <4>2. UNCHANGED buffer
        BY <2>6, <3>3 DEF Consume
      <4> QED
        BY <3>1, <4>1, <4>2
    <3> QED
      BY <3>2, <3>3
  <2> QED
    BY <1>4, <2>1, <2>2, <2>3, <2>5, <2>6
<1>5. ASSUME UNCHANGED waitVars \/ Frame \/ \E d \in Ticks : Tick(d) PROVE UNCHANGED <<scope, firings, buffer>>
  BY <1>5 DEF waitVars, scopeVars, Frame, CountDown, Tick
<1>6. \A w \in Subscribers : Running(w)' /\ firings'[w] = 0 => buffer'[w] \notin Accepting[w]
  <2>1. CASE UNCHANGED waitVars \/ Frame \/ \E d \in Ticks : Tick(d)
    BY <1>3, <1>5, <2>1
  <2>2. ASSUME NEW w \in Subscribers,
               \/ Start(w) \/ StoreTime(w) \/ AskTimer(w) \/ Hear(w) \/ BufferMessage(w)
               \/ Consume(w) \/ TimeOut(w) \/ Cancel(w),
               NEW v \in Subscribers
        PROVE  Running(v)' /\ firings'[v] = 0 => buffer'[v] \notin Accepting[v]
    <3>1. CASE v = w
      BY <1>4, <2>2, <3>1
    <3>2. CASE v # w
      <4>1. Untouched(v)
        BY <1>4, <2>2, <3>2 DEF Kept
      <4> QED
        BY <1>3, <4>1
    <3> QED
      BY <3>1, <3>2
  <2> QED
    BY <2>1, <2>2, WaitSteps
<1>7. Accepting' = Accepting
  BY DEF Accepting, Accepted
<1> QED
  BY <1>6, <1>7 DEF NewestIsConsidered

\* Each condition accepts of the messages in the buffers just those of which it holds as the docs
\* read it, with the prefix message or without it; of a message with a field of that name the form
\* with the prefix reads the field, whatever the message and wherever it comes from.
THEOREM ConditionAsDocumented == WaitSafety => []ReadAsDocumented
<1>1. ASSUME WaitInv PROVE ReadAsDocumented
  <2>1. ASSUME NEW w \in Subscribers, buffer[w] # None PROVE buffer[w] \in Data
    BY <1>1, <2>1 DEF WaitInv, ScopesTyped
  <2> QED
    BY <2>1, AcceptedAsRead DEF ReadAsDocumented
<1> QED
  BY <1>1, WaitInductive, PTL

\* With no trigger outstanding the newest message in the buffer is none that ends the wait,
\* whatever the order in which messages, triggers and the condition come to run.
THEOREM NewestConsidered == WaitSafety => []NewestIsConsidered
<1>1. WaitInit => NewestIsConsidered
  BY DEF WaitInit, NewestIsConsidered, Running
<1>2. WaitInv /\ NewestIsConsidered /\ [WaitNext]_allVars => NewestIsConsidered'
  BY NewestStep
<1> QED
  BY <1>1, <1>2, WaitInductive, PTL DEF WaitSafety

-----------------------------------------------------------------------------
(* The promise *)

LEMMA InitKeepsPromise == WaitInit => Promise!Init
BY DEF WaitInit, Promise!Init

\* Each step of the scopes is a step of WaitForMatch or none.
LEMMA StepKeepsPromise ==
  ASSUME WaitInv, [WaitNext]_allVars
  PROVE  [Promise!Next]_(Promise!vars)
<1>0. ScopesTyped /\ TypeInv /\ \A w \in Subscribers : Sound(w)
  BY DEF WaitInv, IInv
<1>1. ASSUME NEW w \in Subscribers, Start(w) PROVE Promise!Next
  <2>1. Promise!Begin(w)
    BY <1>1 DEF Start, timeVars, Promise!Begin
  <2> QED
    BY <2>1 DEF Promise!Next
<1>2. ASSUME NEW w \in Subscribers, StoreTime(w) \/ AskTimer(w) \/ Hear(w) PROVE UNCHANGED Promise!vars
  BY <1>2 DEF StoreTime, AskTimer, Hear, timeVars, Promise!vars
<1>3. ASSUME NEW w \in Subscribers, BufferMessage(w) PROVE Promise!Next
  <2>1. /\ Running(w) /\ buffer'[w] \in Data
        /\ heard' = [heard EXCEPT ![w] = @ \cup {buffer'[w]}]
    BY <1>0, <1>3, BufferMessageKeeps
  <2>2. PICK m \in Data : m = buffer'[w]
    BY <2>1
  <2>3. Promise!Hear(w, m)
    BY <1>3, <2>1, <2>2 DEF BufferMessage, timeVars, Promise!Hear, Running
  <2> QED
    BY <2>3 DEF Promise!Next
<1>4. ASSUME NEW w \in Subscribers, Consume(w) PROVE [Promise!Next]_(Promise!vars)
  <2>1. Running(w) /\ buffer[w] \in heard[w] /\ buffer[w] \in Data /\ Json[buffer[w]] # Undefined
    BY <1>0, <1>4, ConsumeKeeps
  <2>2. CASE Accepted(w, buffer[w])
    <3>1. buffer[w] \in Accepting[w]
      BY <2>1, <2>2 DEF Accepting
    <3>2. Promise!Match(w, buffer[w])
      BY <1>4, <2>1, <2>2, <3>1 DEF Consume, Terminate, timeVars, Promise!Match, Running
    <3> QED
      BY <2>1, <3>2 DEF Promise!Next
  <2>3. CASE ~Accepted(w, buffer[w])
    BY <1>4, <2>3 DEF Consume, timeVars, Promise!vars
  <2> QED
    BY <2>2, <2>3
\* The output of a scope that is dropped without one stays as it was, None.
<1>5. ASSUME NEW w \in Subscribers, NEW how, Running(w), Terminate(w, how, None)
      PROVE  /\ scope[w] = "running" /\ scope' = [scope EXCEPT ![w] = how]
             /\ UNCHANGED <<output, heard, passed>>
  <2>1. output[w] = None /\ output \in [Subscribers -> Data \cup {None}]
    BY <1>0, <1>5 DEF Sound, Scoped, Running, ScopesTyped
  <2>2. output' = [output EXCEPT ![w] = None]
    BY <1>5 DEF Terminate
  <2>3. output' = output
    BY <2>1, <2>2
  <2> QED
    BY <1>5, <2>3 DEF Terminate, Running, timeVars
<1>6. ASSUME NEW w \in Subscribers, TimeOut(w) PROVE Promise!Next
  <2>1. Running(w) /\ passed[w] + MaxFrame >= Timeout[w]
    BY <1>0, <1>6 DEF TimeOut, Sound, Scoped, Timed
  <2>2. Promise!TimeOut(w)
    BY <1>5, <1>6, <2>1 DEF TimeOut, Promise!TimeOut
  <2> QED
    BY <2>2 DEF Promise!Next
<1>7. ASSUME NEW w \in Subscribers, Cancel(w) PROVE Promise!Next
  <2>1. Promise!Cancel(w)
    BY <1>5, <1>7 DEF Cancel, Promise!Cancel
  <2> QED
    BY <2>1 DEF Promise!Next
<1>8. ASSUME NEW d \in Ticks, Tick(d) PROVE Promise!Next
  <2>1. ScopesTyped' /\ \A w \in Subscribers : passed'[w] >= passed[w]
    BY <1>0, <1>8, TickKeeps
  <2>2. Promise!TimePasses
    BY <1>8, <2>1 DEF Tick, scopeVars, ScopesTyped, Promise!TimePasses
  <2> QED
    BY <2>2 DEF Promise!Next
<1>9. ASSUME Frame \/ UNCHANGED waitVars PROVE UNCHANGED Promise!vars
  BY <1>9 DEF Frame, CountDown, waitVars, scopeVars, timeVars, Promise!vars
<1> QED
  BY <1>1, <1>2, <1>3, <1>4, <1>6, <1>7, <1>8, <1>9, WaitSteps

\* A scope ends once, with a message that has arrived and that its condition accepts, or with a
\* time-out at most one frame before its time has passed: for any scopes, messages and frames.
THEOREM ScopesKeepPromise == WaitSafety => KeepsPromise
<1>1. WaitInv /\ [WaitNext]_allVars => [Promise!Next]_(Promise!vars)
  BY StepKeepsPromise
<1> QED
  BY <1>1, InitKeepsPromise, WaitInductive, PTL DEF WaitSafety, KeepsPromise, Promise!Spec

\* The scopes drive the handle only through its own operations.
THEOREM ScopesUseHandle == WaitSafety => Safety
<1>1. WaitInit => Init
  BY DEF WaitInit
<1>2. [WaitNext]_allVars => [Next]_vars
  BY WaitStepsOfHandle
<1> QED
  BY <1>1, <1>2, PTL DEF WaitSafety, Safety

\* So the listen node of each scope is fed as TopicFeed says: what it reads continues what it has
\* read, unless it lags by more than a channel or the connection was lost.
THEOREM ScopesAreFed == WaitSafety => KeepsFeed
BY ScopesUseHandle, ImplementsFeed
=============================================================================
