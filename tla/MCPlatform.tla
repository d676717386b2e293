------------------------------ MODULE MCPlatform -------------------------------
(***************************************************************************)
(* What surrounds the handlers, for TLC: the way of a request through      *)
(* middleware and routes, rate limits, the settings with their caches, the *)
(* prices they set, and mail. They share no state, so each behaviour is of *)
(* one of them, chosen at the start, and the others stand still.           *)
(***************************************************************************)
EXTENDS Gateway, Limits, Settings, Pricing, Mail

VARIABLE part

platformVars == <<gatewayVars, limitsVars, settingsVars, pricingVars, mailVars, part>>

Windows == [burst |-> 1, minute |-> 3, hour |-> 6, login |-> 4]
FeeChoices == {-1, 150}
CapChoices == {NoCap, 200}
Admitted == [burst |-> 2, minute |-> 3, hour |-> 5, login |-> 2]

(* Of what stands still, one initial state stands for all. *)
PlatformInit ==
  /\ GatewayInit /\ LimitsInit /\ SettingsInit /\ PricingInit /\ MailInit
  /\ part \in {"gateway", "limits", "settings", "pricing", "mail"}
  /\ part # "gateway" => redisUp /\ ~closed
  /\ part # "limits" => "login" \in asks
  /\ part # "pricing" =>
       /\ coupon = CHOOSE c \in Coupons : TRUE
       /\ terms = CHOOSE t \in Terms : t.fee >= 0
  /\ part # "mail" => ready /\ \A o \in Occasions : about[o] = "order"

GatewayMoves ==
  /\ part = "gateway" /\ GatewayNext
  /\ UNCHANGED <<limitsVars, settingsVars, pricingVars, mailVars>>
LimitsMove ==
  /\ part = "limits" /\ LimitsNext
  /\ UNCHANGED <<gatewayVars, settingsVars, pricingVars, mailVars>>
SettingsMove ==
  /\ part = "settings" /\ SettingsNext
  /\ UNCHANGED <<gatewayVars, limitsVars, pricingVars, mailVars>>
PricesMove ==
  /\ part = "pricing" /\ PricingNext
  /\ UNCHANGED <<gatewayVars, limitsVars, settingsVars, mailVars>>
MailMoves ==
  /\ part = "mail" /\ MailNext
  /\ UNCHANGED <<gatewayVars, limitsVars, settingsVars, pricingVars>>

PlatformNext ==
  /\ GatewayMoves \/ LimitsMove \/ SettingsMove \/ PricesMove \/ MailMoves
  /\ UNCHANGED part

PlatformSpec == PlatformInit /\ [][PlatformNext]_platformVars

FairPlatformSpec == PlatformSpec /\ SettingsFairness /\ MailFairness

(* What the chef saves is what customers are charged and shown in the end,  *)
(* and whoever asked for something that is mailed about gets an answer.    *)
PlatformSettles == SettingsSettle /\ ClientsAnswered

=============================================================================
