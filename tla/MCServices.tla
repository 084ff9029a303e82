----------------------------- MODULE MCServices -----------------------------
(***************************************************************************)
(* What a run leans on: the stores that outlive it (sessions, checkpoints, *)
(* items), the model adapters, what agents talk through (the broker,       *)
(* topics, the event bus and the dead letters), and what comes in from     *)
(* outside (tools that are loaded, tokens that are streamed).  They share  *)
(* no state: a behaviour is about the one in focus, and the others stay as *)
(* they were at first.                                                     *)
(***************************************************************************)
EXTENDS SessionStores, CheckpointStores, KeyValueStores, ModelRequests, ModelStreams,
        Coordination, LiveTools, TokenStreams

CONSTANTS call1, call2
OneOrTwo == {<<call1>>, <<call1, call2>>}
ThePatterns == {<<"a", "**">>, <<"a", "*", "c">>}
TheTopics == {<<"a">>, <<"a", "b", "c">>}

VARIABLE focus
storesVars == <<sessionVars, checkpointVars, storeVars>>
modelVars == <<requestVars, streamVars>>
coordinationVars == <<brokerVars, topicVars, busVars, letterVars>>
outsideVars == <<liveVars, tokenVars>>
servicesVars == <<focus, storesVars, modelVars, coordinationVars, outsideVars>>

Foci == {"sessions", "checkpoints", "items", "chat", "stream", "broker", "topics", "bus", "letters",
         "tools", "tokens"}

ServicesInit ==
  /\ focus \in Foci
  /\ SessionInit /\ (focus = "sessions" \/ (backend = "sqlite" /\ holds = "sessions"))
  /\ CheckpointInit /\ (focus = "checkpoints" \/ kept = "table")
  /\ StoreInit /\ (focus = "items" \/ (store = "postgres" /\ ~embeds))
  /\ RequestInit
  /\ focus = "chat" \/ (provider = "google" /\ conversation = <<>> /\ params = Plain)
  /\ StreamInit /\ (focus = "stream" \/ source = "google")
  /\ BrokerInit /\ TopicInit /\ BusInit /\ LetterInit
  /\ LiveInit
  /\ TokenInit /\ (focus = "tokens" \/ strategy = "error")

ServicesNext ==
  /\ UNCHANGED focus
  /\ \/ /\ UNCHANGED <<modelVars, coordinationVars, outsideVars>>
        /\ \/ focus = "sessions" /\ SessionNext /\ UNCHANGED <<checkpointVars, storeVars>>
           \/ focus = "checkpoints" /\ CheckpointNext /\ UNCHANGED <<sessionVars, storeVars>>
           \/ focus = "items" /\ StoreNext /\ UNCHANGED <<sessionVars, checkpointVars>>
     \/ /\ UNCHANGED <<storesVars, coordinationVars, outsideVars>>
        /\ \/ focus = "chat" /\ RequestNext /\ UNCHANGED streamVars
           \/ focus = "stream" /\ StreamNext /\ UNCHANGED requestVars
     \/ /\ UNCHANGED <<storesVars, modelVars, outsideVars>>
        /\ \/ focus = "broker" /\ BrokerNext /\ UNCHANGED <<topicVars, busVars, letterVars>>
           \/ focus = "topics" /\ TopicNext /\ UNCHANGED <<brokerVars, busVars, letterVars>>
           \/ focus = "bus" /\ BusNext /\ UNCHANGED <<brokerVars, topicVars, letterVars>>
           \/ focus = "letters" /\ LetterNext /\ UNCHANGED <<brokerVars, topicVars, busVars>>
     \/ /\ UNCHANGED <<storesVars, modelVars, coordinationVars>>
        /\ \/ focus = "tools" /\ LiveNext /\ UNCHANGED tokenVars
           \/ focus = "tokens" /\ TokenNext /\ UNCHANGED liveVars

\* Timers fire, and what is called returns.
Timers == /\ \A r \in Requests : WF_brokerVars(RequestTimesOut(r))
          /\ \A w \in Waiters : WF_busVars(WaitTimesOut(w))
          /\ WF_busVars(CallListener) /\ WF_busVars(ListenerReturns) /\ WF_busVars(EmissionMovesOn)

ServicesSpec == ServicesInit /\ [][ServicesNext]_servicesVars /\ Timers

(* Checkpointers, long-term stores and the registry of tools: what is read  *)
(* was stored at some moment of the call, and what was deleted or unloaded  *)
(* does not come back.                                                      *)
StoresSound == SessionTypeOK /\ ReadsAreCurrent /\ DeletedStaysDeleted /\ LoadedToolsTrue

(* Model adapters: requests pair calls with answers whatever the provider's *)
(* form, and a reply, streamed or whole, says what the provider said.       *)
RepliesSound == AnswersFollowCalls /\ StopMatchesCalls /\ StreamTellsReply

(* Topics, the event bus and streams of tokens: nobody who is listening is  *)
(* left out, and nobody is told twice.                                      *)
EachOnce == DeliveredOnce /\ TokensTrue
=============================================================================
