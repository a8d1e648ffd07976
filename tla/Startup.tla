------------------------------- MODULE Startup -------------------------------
(***************************************************************************)
(* The start of the process and the one MQTT connection it may open: main   *)
(* of src/src/main.rs and load_base_configuration of src/src/config.rs on   *)
(* the main thread, spawn of src/src/executor/mod.rs with the Bevy thread,   *)
(* and the EnsureMqtt commands of src/src/client/clients/mqtt.rs that every *)
(* MQTT node queues when it is built.                                       *)
(*                                                                         *)
(* What the machine offers - files, sections of the configuration - is      *)
(* chosen in Init; whether a broker or a port answers, when it is asked.     *)
(***************************************************************************)
EXTENDS Naturals, Sequences

CONSTANTS
  Workflows,   \* diagrams that clients ask the executor to run
  MqttNodes    \* [Workflows -> number of MQTT nodes in the diagram]

ASSUME StartupAssumption == MqttNodes \in [Workflows -> Nat]

VARIABLES
  machine,      \* what the process finds
  main,         \* progress of main()
  config,       \* BASE_CONFIG holds a configuration
  thread,       \* progress of the Bevy thread
  router,       \* the oneshot channel on which it hands over the router
  settings,     \* EnsureMqtt still has the settings
  handle,       \* the resource MqttHandle is there
  commands,     \* Bevy's command queue
  workflow,     \* [Workflows -> progress of the request]
  loads,        \* history: CONFIG_CALLS
  connects      \* history: calls of MqttHandle::connect

threadVars == <<thread, router>>
bevyVars == <<settings, handle, commands, workflow, connects>>
vars == <<machine, main, config, threadVars, bevyVars, loads>>

Machines == [mode : {"development", "other"}, envFile : BOOLEAN, toml : BOOLEAN,
             settingsOK : BOOLEAN, mqttOK : BOOLEAN]
Ensure == [kind |-> "ensure"]
Run(d) == [kind |-> "run", workflow |-> d]

TypeOK ==
  /\ machine \in Machines
  /\ main \in {"loading", "configured", "waiting", "routed", "connected", "consuming", "serving", "ended"}
  /\ config \in BOOLEAN
  /\ thread \in {"off", "building", "registered", "looping", "panicked"}
  /\ router \in {"none", "open", "sent", "closed"}
  /\ settings \in BOOLEAN
  /\ handle \in BOOLEAN
  /\ commands \in Seq({Ensure} \cup {Run(d) : d \in Workflows})
  /\ workflow \in [Workflows -> {"none", "requested", "built", "rejected", "running"}]
  /\ loads \in Nat
  /\ connects \in Nat
  /\ settings => ~handle
  /\ thread = "panicked" <=> router = "closed"

Init ==
  /\ machine \in Machines
  /\ main = "loading"
  /\ config = FALSE
  /\ thread = "off"
  /\ router = "none"
  /\ settings = FALSE
  /\ handle = FALSE
  /\ commands = <<>>
  /\ workflow = [d \in Workflows |-> "none"]
  /\ loads = 0
  /\ connects = 0

-----------------------------------------------------------------------------
(* load_base_configuration *)

\* config.toml is read, and a missing env file is tolerated in development only.
Loadable == machine.toml /\ (machine.envFile \/ machine.mode = "development")

\* Defective variant: the configuration is read on each call.
LoadAlways ==
  /\ loads' = loads + 1
  /\ config' = Loadable

\* The first call fills BASE_CONFIG; when it cannot, unwrap panics and leaves it empty.
Load ==
  IF config THEN UNCHANGED <<config, loads>>
  ELSE loads' = loads + 1 /\ config' = Loadable

-----------------------------------------------------------------------------
(* main *)

\* The panic of Load, an error of try_deserialize.
LoadConfig ==
  /\ main = "loading"
  /\ Load
  /\ main' = IF config' /\ machine.settingsOK THEN "configured" ELSE "ended"
  /\ UNCHANGED <<machine, threadVars, bevyVars>>

\* spawn: create_amqp_client, then the thread and the channel for the router.
SpawnExecutor ==
  /\ main = "configured"
  /\ \/ main' = "waiting" /\ thread' = "building" /\ router' = "open"
     \/ main' = "ended" /\ UNCHANGED threadVars
  /\ UNCHANGED <<machine, config, bevyVars, loads>>

\* Defective variant: a sender is kept outside the thread, the channel never closes.
AwaitRouterOnly ==
  /\ main = "waiting"
  /\ router = "sent"
  /\ main' = "routed"
  /\ UNCHANGED <<machine, config, threadVars, bevyVars, loads>>

AwaitRouter ==
  /\ main = "waiting"
  /\ router \in {"sent", "closed"}
  /\ main' = IF router = "sent" THEN "routed" ELSE "ended"
  /\ UNCHANGED <<machine, config, threadVars, bevyVars, loads>>

\* AmqpConnection::new, the spawn of run_consumer, TcpListener::bind; serve may fail later.
MainGoesOn ==
  /\ \/ main = "routed" /\ main' \in {"connected", "ended"}
     \/ main = "connected" /\ main' = "consuming"
     \/ main = "consuming" /\ main' \in {"serving", "ended"}
  /\ UNCHANGED <<machine, config, threadVars, bevyVars, loads>>

ServeFails ==
  /\ main = "serving"
  /\ main' = "ended"
  /\ UNCHANGED <<machine, config, threadVars, bevyVars, loads>>

-----------------------------------------------------------------------------
(* The Bevy thread; nothing of it runs when main has ended *)

Alive == main # "ended"

\* node::mqtt::register: EnsureMqtt::new asks for the configuration, since main passes none,
\* and panics when there is none or its [mqtt] section does not fit.  The sender goes with the thread.
RegisterNodes ==
  /\ Alive
  /\ thread = "building"
  /\ Load
  /\ IF config' /\ machine.mqttOK
       THEN thread' = "registered" /\ settings' = TRUE /\ UNCHANGED router
       ELSE thread' = "panicked" /\ router' = "closed" /\ UNCHANGED settings
  /\ UNCHANGED <<machine, main, handle, commands, workflow, connects>>

\* Defective variant: the router is handed over before the nodes are registered.
SendRouterFirst ==
  /\ Alive
  /\ thread = "building"
  /\ router = "open"
  /\ router' = "sent"
  /\ UNCHANGED <<machine, main, config, thread, bevyVars, loads>>

SendRouter ==
  /\ Alive
  /\ thread = "registered"
  /\ thread' = "looping"
  /\ router' = "sent"
  /\ UNCHANGED <<machine, main, config, bevyVars, loads>>

\* POST /api/executor/run.
Request(d) ==
  /\ main = "serving"
  /\ workflow[d] = "none"
  /\ workflow' = [workflow EXCEPT ![d] = "requested"]
  /\ UNCHANGED <<machine, main, config, threadVars, settings, handle, commands, connects, loads>>

\* Defective variant: the request is queued before the nodes' commands.
QueuedRunFirst(d, n, ok) ==
  (IF ok THEN <<Run(d)>> ELSE <<>>) \o [i \in 1 .. n |-> Ensure]

\* What building the first n MQTT nodes queues, and then the request if all went well.
Queued(d, n, ok) ==
  [i \in 1 .. n |-> Ensure] \o (IF ok THEN <<Run(d)>> ELSE <<>>)

\* Each MQTT node queues its EnsureMqtt when it is built; one that cannot be built ends the
\* diagram, and what the nodes before it have queued stays queued.
Build(d) ==
  /\ Alive
  /\ thread = "looping"
  /\ workflow[d] = "requested"
  /\ \E n \in 0 .. MqttNodes[d], ok \in BOOLEAN :
       /\ ok => n = MqttNodes[d]
       /\ commands' = commands \o Queued(d, n, ok)
       /\ workflow' = [workflow EXCEPT ![d] = IF ok THEN "built" ELSE "rejected"]
  /\ UNCHANGED <<machine, main, config, threadVars, settings, handle, connects, loads>>

\* Defective variant: the settings are cloned instead of taken.
ApplyCloning ==
  /\ handle' = TRUE
  /\ connects' = connects + 1
  /\ UNCHANGED settings

\* Defective variant: take().unwrap(), a second command panics and nothing is applied any more.
ApplyUnwrapping ==
  /\ settings
  /\ settings' = FALSE
  /\ handle' = TRUE
  /\ connects' = connects + 1

\* EnsureMqtt::apply.
Apply ==
  IF settings THEN settings' = FALSE /\ handle' = TRUE /\ connects' = connects + 1
  ELSE UNCHANGED <<settings, handle, connects>>

\* Bevy applies the commands one after the other, with the world to itself.
ApplyCommand ==
  /\ Alive
  /\ thread = "looping"
  /\ commands # <<>>
  /\ commands' = Tail(commands)
  /\ IF Head(commands).kind = "ensure"
       THEN Apply /\ UNCHANGED workflow
       ELSE /\ workflow' = [workflow EXCEPT ![Head(commands).workflow] = "running"]
            /\ UNCHANGED <<settings, handle, connects>>
  /\ UNCHANGED <<machine, main, config, threadVars, loads>>

-----------------------------------------------------------------------------

MainStep == LoadConfig \/ SpawnExecutor \/ AwaitRouter \/ MainGoesOn
ThreadStep == RegisterNodes \/ SendRouter \/ ApplyCommand \/ \E d \in Workflows : Build(d)

Next ==
  \/ MainStep
  \/ ServeFails
  \/ ThreadStep
  \/ \E d \in Workflows : Request(d)

\* Each thread goes on; every await of main is answered, by a success or an error.
Fairness == WF_vars(MainStep) /\ WF_vars(ThreadStep)

Spec == Init /\ [][Next]_vars /\ Fairness

-----------------------------------------------------------------------------
(* Properties *)

\* The test of config.rs: main and, after it, the Bevy thread ask for the configuration, and it is
\* read once.
LoadedOnce == loads <= 1

\* The nodes of all diagrams share one connection: a second client with the same client_id
\* would make the broker close the first.
OneConnection == connects <= 1

\* A workflow that runs finds the resource that its MQTT nodes take as a parameter.
HandleBeforeUse ==
  \A d \in Workflows : workflow[d] = "running" /\ MqttNodes[d] > 0 => handle

\* Nothing is consumed or served by a process without its nodes: whatever goes wrong on the
\* Bevy thread before it hands over the router ends main.
ServesWithNodes ==
  main \in {"connected", "consuming", "serving"} => thread = "looping"

\* The start-up comes to an end, with a server or with the end of the process, whatever of
\* the configuration, the brokers and the port fails.
StartsOrEnds == main = "loading" ~> main \in {"serving", "ended"}

\* A request to the executor is rejected or runs, also when other diagrams have been there
\* before and took the settings.
RequestAnswered ==
  \A d \in Workflows : workflow[d] = "requested" ~> (workflow[d] \in {"rejected", "running"} \/ main = "ended")
=============================================================================
