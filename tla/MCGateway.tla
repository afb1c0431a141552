----------------------------- MODULE MCGateway -----------------------------
(* The subscriptions of downstream streams, the webhook subscriptions and    *)
(* the changes of virtual services, for TLC.  A behaviour runs one of them   *)
(* and leaves the others in their initial state.                             *)
EXTENDS Subscriptions, Webhooks, VirtualChanges

VARIABLE kind  \* the component that runs

GatewayInit ==
  /\ kind \in {"stream", "webhook", "virtual"}
  /\ SubscriptionsInit /\ WebhooksInit /\ VirtualInit

GatewayNext ==
  /\ UNCHANGED kind
  /\ \/ kind = "stream" /\ SubscriptionsNext /\ UNCHANGED <<webhookVars, virtualVars>>
     \/ kind = "webhook" /\ WebhooksNext /\ UNCHANGED <<subscriptionVars, virtualVars>>
     \/ kind = "virtual" /\ VirtualNext /\ UNCHANGED <<subscriptionVars, webhookVars>>

GatewaySpec ==
  GatewayInit /\ [][GatewayNext]_<<kind, subscriptionVars, webhookVars, virtualVars>>
===============================================================================
