------------------------------- MODULE Services -------------------------------
(***************************************************************************)
(* The background services the process starts beside the swarm              *)
(* (cmd/swarm/main.go): the Telegram notifier, the websocket hub of the API *)
(* server, and the price cache with its collector.  They share no state, so *)
(* a behaviour runs one of them.                                            *)
(***************************************************************************)
EXTENDS Notifier, Hub, PriceCache

CONSTANT Running \* the services a run looks at

ASSUME RunningAssumption == Running \subseteq {"notifier", "hub", "prices"}

VARIABLE service

vars == <<service, throttleVars, notifierVars, hubVars, priceVars>>

Init == service \in Running /\ NotifierInit /\ HubInit /\ PriceInit

NotifierStep ==
    service = "notifier" /\ NotifierNext /\ UNCHANGED <<service, hubVars, priceVars>>

OfHub(A) == service = "hub" /\ A /\ UNCHANGED <<service, throttleVars, notifierVars, priceVars>>

PriceStep ==
    service = "prices" /\ PriceNext /\ UNCHANGED <<service, throttleVars, notifierVars, hubVars>>

Next == NotifierStep \/ OfHub(HubNext) \/ PriceStep

\* The goroutines of the hub and of its clients run; nobody has to connect, to
\* leave or to publish.
Spec ==
    /\ Init /\ [][Next]_vars
    /\ WF_vars(OfHub(Broadcasting))
    /\ \A c \in Clients : WF_vars(OfHub(Serving(c)))

=============================================================================
