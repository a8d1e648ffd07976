---------------------------- MODULE StartupProofs ----------------------------
(***************************************************************************)
(* Proofs about Startup for every set of diagrams with any number of MQTT   *)
(* nodes, on every machine.                                                 *)
(***************************************************************************)
EXTENDS Startup, TLAPS

USE StartupAssumption

Commands == {Ensure} \cup {Run(d) : d \in Workflows}

\* The thread starts with a configuration that main has loaded, so its own call loads nothing.
LoadedBefore ==
  /\ main = "loading" => loads = 0 /\ ~config
  /\ main # "loading" /\ main # "ended" => config
  /\ loads <= 1

\* What the two threads know of each other.
ThreadsAgree ==
  /\ router = "sent" <=> thread = "looping"
  /\ thread = "off" => main \in {"loading", "configured", "ended"}
  /\ main \in {"loading", "configured"} => thread = "off"
  /\ main \in {"routed", "connected", "consuming", "serving"} => thread = "looping"

\* The settings are there until they are taken for the one connection.
SettingsOrHandle ==
  /\ thread \in {"registered", "looping"} => settings \/ handle
  /\ settings => ~handle
  /\ connects = IF handle THEN 1 ELSE 0
  /\ thread \in {"off", "building"} => ~handle

\* HandleBeforeUse is not inductive: a request in the queue whose nodes have no handle yet has a
\* command of its nodes ahead of it.
Guarded(i) ==
  commands[i].kind = "run" /\ MqttNodes[commands[i].workflow] > 0 =>
    handle \/ \E j \in 1 .. i - 1 : commands[j].kind = "ensure"

RunsGuarded == \A i \in 1 .. Len(commands) : Guarded(i)

IInv ==
  /\ TypeOK
  /\ LoadedBefore
  /\ ThreadsAgree
  /\ SettingsOrHandle
  /\ RunsGuarded
  /\ HandleBeforeUse

LEMMA CommandFields ==
  /\ Ensure \in Commands /\ Ensure.kind = "ensure"
  /\ \A d \in Workflows : Run(d) \in Commands /\ Run(d).kind = "run" /\ Run(d).workflow = d
  /\ \A c \in Commands : \/ c.kind = "ensure"
                         \/ c.kind = "run" /\ \E d \in Workflows : c = Run(d)
<1>1. Ensure \in Commands /\ Ensure.kind = "ensure"
  BY DEF Commands, Ensure
<1>2. ASSUME NEW d \in Workflows PROVE Run(d) \in Commands
  BY DEF Commands
<1>3. ASSUME NEW d \in Workflows PROVE Run(d).kind = "run" /\ Run(d).workflow = d
  BY DEF Run
<1>4. ASSUME NEW c \in Commands PROVE c = Ensure \/ \E d \in Workflows : c = Run(d)
  BY Zenon DEF Commands
<1> QED
  BY <1>1, <1>2, <1>3, <1>4

\* What is queued for a diagram: the commands of its nodes, and behind them its request.
LEMMA QueuedCommands ==
  ASSUME NEW d \in Workflows, NEW n \in Nat, NEW ok \in BOOLEAN
  PROVE  /\ Queued(d, n, ok) \in Seq(Commands)
         /\ Len(Queued(d, n, ok)) = IF ok THEN n + 1 ELSE n
         /\ \A i \in 1 .. n : Queued(d, n, ok)[i] = Ensure
         /\ ok => Queued(d, n, ok)[n + 1] = Run(d)
<1> DEFINE nodes == [i \in 1 .. n |-> Ensure]
<1>1. nodes \in Seq(Commands) /\ Len(nodes) = n /\ \A i \in 1 .. n : nodes[i] = Ensure
  BY CommandFields
<1> HIDE DEF nodes
<1>2. CASE ok
  <2>1. Queued(d, n, ok) = nodes \o <<Run(d)>>
    BY <1>2 DEF Queued, nodes
  <2>2. <<Run(d)>> \in Seq(Commands) /\ Len(<<Run(d)>>) = 1 /\ <<Run(d)>>[1] = Run(d)
    BY CommandFields
  <2>3. /\ nodes \o <<Run(d)>> \in Seq(Commands)
        /\ Len(nodes \o <<Run(d)>>) = n + 1
        /\ \A i \in 1 .. n : (nodes \o <<Run(d)>>)[i] = Ensure
        /\ (nodes \o <<Run(d)>>)[n + 1] = Run(d)
    BY <1>1, <2>2
  <2> QED
    BY <1>2, <2>1, <2>3
<1>3. CASE ~ok
  <2>1. Queued(d, n, ok) = nodes \o <<>>
    BY <1>3 DEF Queued, nodes
  <2>2. /\ nodes \o <<>> \in Seq(Commands)
        /\ Len(nodes \o <<>>) = n
        /\ \A i \in 1 .. n : (nodes \o <<>>)[i] = Ensure
    BY <1>1
  <2> QED
    BY <1>3, <2>1, <2>2
<1> QED
  BY <1>2, <1>3

LEMMA IInvInit == Init => IInv
<1> SUFFICES ASSUME Init PROVE IInv
  OBVIOUS
<1>1. TypeOK
  <2>1. config \in BOOLEAN /\ settings \in BOOLEAN /\ handle \in BOOLEAN /\ (settings => ~handle)
    BY Zenon DEF Init
  <2>2. commands \in Seq({Ensure} \cup {Run(d) : d \in Workflows})
    BY DEF Init
  <2> QED
    BY <2>1, <2>2 DEF Init, TypeOK
<1>2. LoadedBefore /\ ThreadsAgree /\ SettingsOrHandle /\ RunsGuarded /\ HandleBeforeUse
  BY DEF Init, LoadedBefore, ThreadsAgree, SettingsOrHandle, RunsGuarded, HandleBeforeUse
<1> QED
  BY <1>1, <1>2 DEF IInv

\* The steps of main.
LEMMA MainKeeps ==
  ASSUME IInv, MainStep \/ ServeFails
  PROVE  IInv'
<1>0. TypeOK /\ LoadedBefore /\ ThreadsAgree /\ SettingsOrHandle /\ RunsGuarded /\ HandleBeforeUse
  BY DEF IInv
<1>1. UNCHANGED bevyVars
  BY DEF MainStep, ServeFails, LoadConfig, SpawnExecutor, AwaitRouter, MainGoesOn
<1>2. UNCHANGED <<settings, handle, commands, workflow, connects>>
  BY <1>1 DEF bevyVars
<1>3. RunsGuarded' /\ HandleBeforeUse'
  BY <1>0, <1>2 DEF RunsGuarded, Guarded, HandleBeforeUse
<1>4. CASE LoadConfig
  <2>1. config' \in BOOLEAN
    BY <1>0, <1>4 DEF LoadConfig, Load, Loadable, TypeOK, Machines
  <2>2. UNCHANGED <<machine, thread, router>> /\ main' \in {"configured", "ended"} /\ (main' = "configured" => config')
    BY <1>4 DEF LoadConfig, threadVars
  <2>3. loads' = 1 /\ main = "loading"
    BY <1>0, <1>4 DEF LoadConfig, Load, LoadedBefore
  <2>4. TypeOK'
    BY <1>0, <1>2, <2>1, <2>2, <2>3 DEF TypeOK
  <2>5. LoadedBefore' /\ ThreadsAgree' /\ SettingsOrHandle'
    BY <1>0, <1>2, <2>2, <2>3 DEF LoadedBefore, ThreadsAgree, SettingsOrHandle, TypeOK
  <2> QED
    BY <1>3, <2>4, <2>5 DEF IInv
<1>5. CASE SpawnExecutor \/ AwaitRouter \/ MainGoesOn \/ ServeFails
  <2>1. UNCHANGED <<machine, config, loads>> /\ main # "loading" /\ main # "ended" /\ main' # "loading"
    BY <1>5 DEF SpawnExecutor, AwaitRouter, MainGoesOn, ServeFails
  <2>2. TypeOK'
    BY <1>0, <1>2, <1>5, <2>1 DEF TypeOK, SpawnExecutor, AwaitRouter, MainGoesOn, ServeFails, threadVars, ThreadsAgree
  <2>3. LoadedBefore'
    <3>1. config' /\ loads' <= 1
      BY <1>0, <2>1 DEF LoadedBefore
    <3> QED
      BY <2>1, <3>1 DEF LoadedBefore
  <2>4. ThreadsAgree'
    BY <1>0, <1>5 DEF ThreadsAgree, TypeOK, SpawnExecutor, AwaitRouter, MainGoesOn, ServeFails, threadVars
  <2>5. thread' = thread \/ (thread = "off" /\ thread' = "building")
    BY <1>0, <1>5 DEF ThreadsAgree, SpawnExecutor, AwaitRouter, MainGoesOn, ServeFails, threadVars
  <2>6. SettingsOrHandle'
    BY <1>0, <1>2, <2>5 DEF SettingsOrHandle
  <2> QED
    BY <1>3, <2>2, <2>3, <2>4, <2>6 DEF IInv
<1> QED
  BY <1>4, <1>5 DEF MainStep

\* The Bevy thread up to its loop, and the requests.
LEMMA SetupKeeps ==
  ASSUME IInv, RegisterNodes \/ SendRouter \/ \E d \in Workflows : Request(d)
  PROVE  IInv'
<1>0. TypeOK /\ LoadedBefore /\ ThreadsAgree /\ SettingsOrHandle /\ RunsGuarded /\ HandleBeforeUse
  BY DEF IInv
<1>1. CASE RegisterNodes
  <2>1. thread = "building" /\ main # "ended" /\ main # "loading"
    BY <1>0, <1>1 DEF RegisterNodes, Alive, ThreadsAgree
  <2>2. config
    BY <1>0, <2>1, Zenon DEF LoadedBefore
  <2>3. UNCHANGED <<config, loads, machine, main, handle, commands, workflow, connects>>
    BY <1>1, <2>2 DEF RegisterNodes, Load
  <2>4. LoadedBefore' /\ RunsGuarded' /\ HandleBeforeUse'
    BY <1>0, <2>3 DEF LoadedBefore, RunsGuarded, Guarded, HandleBeforeUse
  <2>5. ~handle /\ router # "closed" /\ router # "sent"
    BY <1>0, <2>1 DEF SettingsOrHandle, TypeOK, ThreadsAgree
  <2>6. CASE thread' = "registered" /\ settings' = TRUE /\ UNCHANGED router
    <3>1. TypeOK'
      BY <1>0, <2>3, <2>5, <2>6 DEF TypeOK
    <3>2. ThreadsAgree' /\ SettingsOrHandle'
      BY <1>0, <2>1, <2>3, <2>5, <2>6 DEF ThreadsAgree, SettingsOrHandle
    <3> QED
      BY <2>4, <3>1, <3>2 DEF IInv
  <2>7. CASE thread' = "panicked" /\ router' = "closed" /\ UNCHANGED settings
    <3>1. TypeOK'
      BY <1>0, <2>3, <2>7 DEF TypeOK
    <3>2. ThreadsAgree' /\ SettingsOrHandle'
      BY <1>0, <2>1, <2>3, <2>5, <2>7 DEF ThreadsAgree, SettingsOrHandle
    <3> QED
      BY <2>4, <3>1, <3>2 DEF IInv
  <2> QED
    BY <1>1, <2>6, <2>7 DEF RegisterNodes
<1>2. CASE SendRouter
  <2>1. UNCHANGED <<machine, main, config, loads, settings, handle, commands, workflow, connects>>
    BY <1>2 DEF SendRouter, bevyVars
  <2>2. TypeOK'
    BY <1>0, <1>2, <2>1 DEF SendRouter, TypeOK
  <2>3. LoadedBefore' /\ RunsGuarded' /\ HandleBeforeUse'
    BY <1>0, <2>1 DEF LoadedBefore, RunsGuarded, Guarded, HandleBeforeUse
  <2>4. ThreadsAgree' /\ SettingsOrHandle'
    BY <1>0, <1>2, <2>1 DEF SendRouter, TypeOK, ThreadsAgree, SettingsOrHandle
  <2> QED
    BY <2>2, <2>3, <2>4 DEF IInv
<1>3. ASSUME NEW d \in Workflows, Request(d) PROVE IInv'
  <2>1. UNCHANGED <<machine, main, config, loads, thread, router, settings, handle, commands, connects>>
    BY <1>3 DEF Request, threadVars
  <2>2. workflow' = [workflow EXCEPT ![d] = "requested"]
    BY <1>3 DEF Request
  <2>3. TypeOK'
    BY <1>0, <2>1, <2>2 DEF TypeOK
  <2>4. HandleBeforeUse'
    BY <1>0, <2>1, <2>2 DEF TypeOK, HandleBeforeUse
  <2> QED
    BY <1>0, <2>1, <2>3, <2>4 DEF IInv, LoadedBefore, ThreadsAgree, SettingsOrHandle, RunsGuarded, Guarded
<1> QED
  BY <1>1, <1>2, <1>3

\* A diagram is built: what is queued keeps the requests behind the commands.
LEMMA BuildKeeps ==
  ASSUME IInv, NEW d \in Workflows, Build(d)
  PROVE  IInv'
<1>0. TypeOK /\ LoadedBefore /\ ThreadsAgree /\ SettingsOrHandle /\ RunsGuarded /\ HandleBeforeUse
  BY DEF IInv
<1>1. UNCHANGED <<machine, main, config, loads, thread, router, settings, handle, connects>>
  BY DEF Build, threadVars
<1>2. PICK n \in 0 .. MqttNodes[d], ok \in BOOLEAN :
        /\ ok => n = MqttNodes[d]
        /\ commands' = commands \o Queued(d, n, ok)
        /\ workflow' = [workflow EXCEPT ![d] = IF ok THEN "built" ELSE "rejected"]
  BY DEF Build
<1>3. n \in Nat /\ MqttNodes[d] \in Nat
  BY <1>2
<1> DEFINE q == Queued(d, n, ok)
<1>4. /\ q \in Seq(Commands)
      /\ Len(q) = IF ok THEN n + 1 ELSE n
      /\ \A i \in 1 .. n : q[i] = Ensure
      /\ ok => q[n + 1] = Run(d)
  BY <1>3, QueuedCommands
<1>5. commands \in Seq(Commands)
  BY <1>0 DEF TypeOK, Commands
<1>6. commands' = commands \o q
  BY <1>2
<1> HIDE DEF q
<1>7. /\ commands \o q \in Seq(Commands)
      /\ Len(commands \o q) = Len(commands) + Len(q)
      /\ \A i \in 1 .. Len(commands) : (commands \o q)[i] = commands[i]
      /\ \A i \in 1 .. Len(q) : (commands \o q)[Len(commands) + i] = q[i]
  BY <1>4, <1>5
<1>8. /\ commands' \in Seq(Commands)
      /\ Len(commands') = Len(commands) + Len(q)
      /\ \A i \in 1 .. Len(commands) : commands'[i] = commands[i]
      /\ \A i \in 1 .. Len(q) : commands'[Len(commands) + i] = q[i]
  BY <1>6, <1>7
<1>9. TypeOK'
  <2>1. workflow' \in [Workflows -> {"none", "requested", "built", "rejected", "running"}]
    BY <1>0, <1>2 DEF TypeOK
  <2> QED
    BY <1>0, <1>1, <1>8, <2>1 DEF TypeOK, Commands
<1>10. HandleBeforeUse'
  <2>1. workflow'[d] # "running" /\ \A e \in Workflows : e # d => workflow'[e] = workflow[e]
    BY <1>0, <1>2 DEF TypeOK
  <2> QED
    BY <1>0, <1>1, <2>1 DEF HandleBeforeUse
<1>11. RunsGuarded'
  <2> SUFFICES ASSUME NEW i \in 1 .. Len(commands'), commands'[i].kind = "run",
                      MqttNodes[commands'[i].workflow] > 0, ~handle
               PROVE  \E j \in 1 .. i - 1 : commands'[j].kind = "ensure"
    BY <1>1 DEF RunsGuarded, Guarded
  <2>0. Len(commands) \in Nat /\ Len(q) \in Nat
    BY <1>4, <1>5
  <2>1. CASE i \in 1 .. Len(commands)
    <3>1. PICK j \in 1 .. i - 1 : commands[j].kind = "ensure"
      BY <1>0, <1>8, <2>1 DEF RunsGuarded, Guarded
    <3> QED
      BY <1>8, <2>0, <2>1, <3>1
  <2>2. CASE i \notin 1 .. Len(commands)
    <3>1. PICK k \in 1 .. Len(q) : i = Len(commands) + k
      <4>1. i - Len(commands) \in 1 .. Len(q) /\ i = Len(commands) + (i - Len(commands))
        BY <1>8, <2>0, <2>2
      <4> QED
        BY <4>1
    <3>2. commands'[i] = q[k]
      BY <1>8, <3>1
    <3>3. k \notin 1 .. n
      BY <1>4, <3>2, CommandFields
    <3>4. ok /\ k = n + 1
      BY <1>3, <1>4, <3>1, <3>3
    <3>5. n > 0
      BY <1>2, <1>4, <3>2, <3>4, CommandFields
    <3>6. 1 \in 1 .. Len(q) /\ q[1] = Ensure
      BY <1>3, <1>4, <3>4, <3>5
    <3>7. commands'[Len(commands) + 1].kind = "ensure"
      BY <1>8, <3>6, CommandFields
    <3>8. Len(commands) + 1 \in 1 .. i - 1
      BY <1>3, <2>0, <3>1, <3>4, <3>5
    <3> QED
      BY <3>7, <3>8
  <2> QED
    BY <2>1, <2>2
<1>12. LoadedBefore' /\ ThreadsAgree' /\ SettingsOrHandle'
  BY <1>0, <1>1 DEF LoadedBefore, ThreadsAgree, SettingsOrHandle
<1> QED
  BY <1>9, <1>10, <1>11, <1>12 DEF IInv

\* A command is applied: an EnsureMqtt leaves a handle behind, whoever was first.
LEMMA ApplyKeeps ==
  ASSUME IInv, ApplyCommand
  PROVE  IInv'
<1>0. TypeOK /\ LoadedBefore /\ ThreadsAgree /\ SettingsOrHandle /\ RunsGuarded /\ HandleBeforeUse
  BY DEF IInv
<1>1. UNCHANGED <<machine, main, config, loads, thread, router>> /\ thread = "looping" /\ commands # <<>>
  BY DEF ApplyCommand, threadVars
<1>2. commands' = Tail(commands) /\ commands \in Seq(Commands)
  BY <1>0 DEF ApplyCommand, TypeOK, Commands
<1>3. /\ commands' \in Seq(Commands)
      /\ Len(commands) \in Nat /\ Len(commands') = Len(commands) - 1
      /\ \A i \in 1 .. Len(commands') : commands'[i] = commands[i + 1]
      /\ commands[1] = Head(commands) /\ Head(commands) \in Commands
  BY <1>1, <1>2
<1>4. LoadedBefore' /\ ThreadsAgree'
  BY <1>0, <1>1 DEF LoadedBefore, ThreadsAgree
<1>5. CASE Head(commands).kind = "ensure"
  <2>1. Apply /\ UNCHANGED workflow
    BY <1>5 DEF ApplyCommand
  <2>2. settings' = FALSE /\ handle' = TRUE /\ connects' = 1
    BY <1>0, <1>1, <2>1 DEF Apply, SettingsOrHandle, TypeOK
  <2>3. TypeOK'
    BY <1>0, <1>1, <1>3, <2>1, <2>2 DEF TypeOK, Commands
  <2>4. SettingsOrHandle' /\ RunsGuarded' /\ HandleBeforeUse'
    BY <1>1, <2>2 DEF SettingsOrHandle, RunsGuarded, Guarded, HandleBeforeUse
  <2> QED
    BY <1>4, <2>3, <2>4 DEF IInv
<1>6. CASE Head(commands).kind # "ensure"
  <2>1. PICK d \in Workflows : Head(commands) = Run(d)
    BY <1>3, <1>6, CommandFields
  <2>2. UNCHANGED <<settings, handle, connects>> /\ workflow' = [workflow EXCEPT ![d] = "running"]
    BY <1>6, <2>1, CommandFields DEF ApplyCommand
  <2>3. workflow' \in [Workflows -> {"none", "requested", "built", "rejected", "running"}]
    BY <1>0, <2>2 DEF TypeOK
  <2>4. TypeOK'
    BY <1>0, <1>1, <1>3, <2>2, <2>3 DEF TypeOK, Commands
  <2>5. MqttNodes[d] > 0 => handle
    <3>1. 1 \in 1 .. Len(commands)
      BY <1>1, <1>2, <1>3
    <3>2. Guarded(1) /\ commands[1].kind = "run" /\ commands[1].workflow = d
      BY <1>0, <1>3, <2>1, <3>1, CommandFields DEF RunsGuarded
    <3> QED
      BY <3>2 DEF Guarded
  <2>6. HandleBeforeUse'
    BY <1>0, <2>2, <2>5 DEF TypeOK, HandleBeforeUse
  <2>7. RunsGuarded'
    <3> SUFFICES ASSUME NEW i \in 1 .. Len(commands'), commands'[i].kind = "run",
                        MqttNodes[commands'[i].workflow] > 0, ~handle
                 PROVE  \E j \in 1 .. i - 1 : commands'[j].kind = "ensure"
      BY <2>2 DEF RunsGuarded, Guarded
    <3>1. i + 1 \in 1 .. Len(commands) /\ commands'[i] = commands[i + 1]
      BY <1>3
    <3>2. PICK j \in 1 .. (i + 1) - 1 : commands[j].kind = "ensure"
      BY <1>0, <3>1 DEF RunsGuarded, Guarded
    <3>3. j # 1
      BY <1>3, <1>6, <3>2
    <3>4. j - 1 \in 1 .. i - 1 /\ j - 1 \in 1 .. Len(commands') /\ (j - 1) + 1 = j
      BY <1>3, <3>2, <3>3
    <3>5. commands'[j - 1] = commands[j]
      BY <1>3, <3>4
    <3> QED
      BY <3>2, <3>4, <3>5
  <2>8. SettingsOrHandle'
    BY <1>0, <1>1, <2>2 DEF SettingsOrHandle
  <2> QED
    BY <1>4, <2>4, <2>6, <2>7, <2>8 DEF IInv
<1> QED
  BY <1>5, <1>6

LEMMA IInvStep == IInv /\ [Next]_vars => IInv'
<1> SUFFICES ASSUME IInv, [Next]_vars PROVE IInv'
  OBVIOUS
<1>1. CASE UNCHANGED vars
  <2>1. UNCHANGED <<machine, main, config, thread, router, settings, handle, commands, workflow, loads, connects>>
    BY <1>1 DEF vars, threadVars, bevyVars
  <2> QED
    BY <2>1 DEF IInv, TypeOK, LoadedBefore, ThreadsAgree, SettingsOrHandle, RunsGuarded, Guarded, HandleBeforeUse
<1>2. CASE Next
  BY <1>2, MainKeeps, SetupKeeps, BuildKeeps, ApplyKeeps DEF Next, ThreadStep
<1> QED
  BY <1>1, <1>2

LEMMA Invariance == Spec => []IInv
BY IInvInit, IInvStep, PTL DEF Spec

\* Every variable keeps its type, and the settings never outlive the connection.
THEOREM StartupTypeCorrect == Spec => []TypeOK
BY Invariance, PTL DEF IInv

\* However many callers load_base_configuration has on the two threads, the files are read once.
THEOREM ReadOnce == Spec => []LoadedOnce
<1>1. IInv => LoadedOnce
  BY DEF IInv, LoadedBefore, LoadedOnce
<1> QED
  BY <1>1, Invariance, PTL

\* However many nodes in however many diagrams queue an EnsureMqtt, one connects.
THEOREM ConnectsOnce == Spec => []OneConnection
<1>1. IInv => OneConnection
  BY DEF IInv, SettingsOrHandle, OneConnection
<1> QED
  BY <1>1, Invariance, PTL

\* No workflow with MQTT nodes runs before the resource that they need is there.
THEOREM HandleFirst == Spec => []HandleBeforeUse
BY Invariance, PTL DEF IInv

\* A process that consumes or serves has a Bevy thread that runs with all its nodes.
THEOREM ServesComplete == Spec => []ServesWithNodes
<1>1. IInv => ServesWithNodes
  BY DEF IInv, ThreadsAgree, ServesWithNodes
<1> QED
  BY <1>1, Invariance, PTL
=============================================================================
