-------------------------------- MODULE Billing --------------------------------
(***************************************************************************)
(* Paying for calls of marketplace services: billing/billing.go, its use   *)
(* in internal/mcp/handler/gateway_handler.go, and the statements of       *)
(* model/user.go and model/api_key.go it is made of.                       *)
(*                                                                         *)
(* One user account, the API keys of that user and one priced entry.  No   *)
(* transaction covers a call: every statement commits on its own, others   *)
(* come between any two of them, a statement may fail (most results are    *)
(* ignored) and a call may end at any point with its process.  Beside the  *)
(* calls the account is changed by redemption codes, by the administrator  *)
(* and by edits that read the whole row and save it again.                 *)
(***************************************************************************)
EXTENDS Integers, FiniteSets

CONSTANTS Calls,      \* requests in flight at a time, until their log row is written
          BudgetKeys, \* API keys with a budget
          OpenKeys,   \* API keys with UnlimitedQuota
          NoKey,      \* ApiKeyID 0: a manual test, no API key
          Rids,       \* request ids (the idempotency key)
          LongRids,   \* those longer than the 64 bytes a log row keeps
          Price,      \* UnitPriceQuota of the entry
          Hold,       \* Max(Price, PreConsumedQuota): what PreConsume takes
          Trust,      \* TrustQuota
          Budget,     \* Quota of a budgeted key
          Start,      \* Quota of the account at first
          Face,       \* value of the redemption code
          Cut,        \* value of the administrator's "sub"
          MaxCalls,   \* bound on the requests of a behaviour
          MaxSlips,   \* bound on failed statements and abandoned calls
          MaxSaves    \* bound on whole-row saves and administrator changes

ASSUME PriceAssumption == Price \in Nat \ {0} /\ Hold \in Nat /\ Price <= Hold
ASSUME QuotaAssumption ==
  Trust \in Nat /\ Budget \in Nat /\ Start \in Nat /\ Face \in Nat /\ Cut \in Nat
ASSUME KeysAssumption == BudgetKeys \cap OpenKeys = {} /\ NoKey \notin BudgetKeys \cup OpenKeys
ASSUME RidsAssumption == Rids # {} /\ LongRids \subseteq Rids
ASSUME CallsAssumption == IsFiniteSet(Calls)
ASSUME BoundsAssumption == MaxCalls \in Nat /\ MaxSlips \in Nat /\ MaxSaves \in Nat

ApiKeys == BudgetKeys \cup OpenKeys
WholeRids == Rids \ LongRids
NoRid == CHOOSE r \in Rids : TRUE  \* in place of the id of a request that is not there

VARIABLES
  quota, used,    \* users.quota and users.used_quota
  keyUsed,        \* api_keys.used_quota
  logged,         \* <<key, request id>> of the rows with billing_status "charged"
                  \* that keep the whole id
  code,           \* status of the redemption code
  at, key, rid,   \* a call: its program point, ApiKeyID, RequestID
  seen, mode,     \* its userQuota, and how its session stands
  admin, adminSaw,\* AdjustUserQuota: program point, user.Quota as read
  saver, row,     \* a whole-row edit of the user: program point, the row as read
  codeEdit,       \* UpdateStatus of the code: program point
  granted,        \* all that was put into the account (history)
  charges,        \* charges of an API key and request id that fits (history)
  slips,          \* statements without effect and abandoned calls (history)
  stale,          \* whole-row saves that undid another change (history)
  redeemed,       \* redemptions of the code (history)
  restored,       \* saves that made a redeemed code usable again (history)
  begun, saves    \* counted against the bounds

account == <<quota, used>>
callId == <<key, rid>>
edits == <<admin, adminSaw, saver, row, codeEdit, saves>>
ghosts == <<stale, redeemed, restored>>
vars == <<account, keyUsed, logged, code, at, callId, seen, mode, edits,
          granted, charges, slips, ghosts, begun>>

Points == {"idle", "check", "user", "key", "take", "takeKey", "giveBack", "upstream",
           "debitUser", "debitKey", "excessUser", "excessKey", "used", "log",
           "backUser", "backKey"}

\* "held": quota was taken; "trusted": it will be; "free" and "debt": it never is.
\* "short" and "error" say why giveBack returns what was taken.
Modes == {"none", "held", "trusted", "free", "debt", "short", "error"}

TypeOK ==
  /\ quota \in Int /\ used \in Int
  /\ keyUsed \in [ApiKeys -> Int]
  /\ logged \subseteq ApiKeys \X WholeRids
  /\ code \in {"available", "disabled", "redeemed"}
  /\ at \in [Calls -> Points]
  /\ key \in [Calls -> ApiKeys \cup {NoKey}]
  /\ rid \in [Calls -> Rids]
  /\ seen \in [Calls -> Int]
  /\ mode \in [Calls -> Modes]
  /\ admin \in {"idle", "write"} /\ adminSaw \in Int
  /\ saver \in {"idle", "write"} /\ row \in [quota : Int, used : Int]
  /\ codeEdit \in {"idle", "write"}
  /\ granted \in Int
  /\ charges \in [ApiKeys \X WholeRids -> Nat]
  /\ slips \in Nat /\ stale \in Nat /\ redeemed \in Nat /\ restored \in Nat
  /\ begun \in Nat /\ saves \in Nat

Init ==
  /\ quota = Start /\ used = 0
  /\ keyUsed = [k \in ApiKeys |-> 0]
  /\ logged = {}
  /\ code = "available"
  /\ at = [c \in Calls |-> "idle"]
  /\ key = [c \in Calls |-> NoKey]
  /\ rid = [c \in Calls |-> NoRid]
  /\ seen = [c \in Calls |-> 0]
  /\ mode = [c \in Calls |-> "none"]
  /\ admin = "idle" /\ adminSaw = 0
  /\ saver = "idle" /\ row = [quota |-> 0, used |-> 0]
  /\ codeEdit = "idle"
  /\ granted = Start
  /\ charges = [p \in ApiKeys \X WholeRids |-> 0]
  /\ slips = 0 /\ stale = 0 /\ redeemed = 0 /\ restored = 0
  /\ begun = 0 /\ saves = 0

-----------------------------------------------------------------------------
(* Steps of a call.                                                        *)

Step(c, l) == at' = [at EXCEPT ![c] = l] /\ UNCHANGED <<callId, mode>>

\* Arguments swapped (to test the checks).
StepSwapped(c, l, m) ==
  /\ at' = [at EXCEPT ![c] = m] /\ mode' = [mode EXCEPT ![c] = l]
  /\ UNCHANGED callId

StepAs(c, l, m) ==
  /\ at' = [at EXCEPT ![c] = l] /\ mode' = [mode EXCEPT ![c] = m]
  /\ UNCHANGED callId

\* The request is answered, or gone: nothing of it is left.
Return(c) ==
  /\ at' = [at EXCEPT ![c] = "idle"]
  /\ key' = [key EXCEPT ![c] = NoKey]
  /\ rid' = [rid EXCEPT ![c] = NoRid]
  /\ mode' = [mode EXCEPT ![c] = "none"]

Keyed(c) == key[c] # NoKey
Quiet == UNCHANGED <<slips, edits, ghosts, granted, code>>

\* A statement that takes effect, or one that does not and whose error nobody
\* looks at.
Statement(ok) ==
  /\ ok \/ slips < MaxSlips
  /\ slips' = IF ok THEN slips ELSE slips + 1
  /\ UNCHANGED <<edits, ghosts, granted, code>>

AddToQuota(ok, amount) == quota' = IF ok THEN quota + amount ELSE quota
AddToKey(c, ok, amount) ==
  keyUsed' = IF ok THEN [keyUsed EXCEPT ![key[c]] = @ + amount] ELSE keyUsed

\* A check can find the log row of the call: none asks for calls without an API key, nor
\* for what is left of a long id, which is cut before it is stored.
Findable(c) == Keyed(c) /\ rid[c] \notin LongRids

\* HasChargedRequest, which is asked for the whole id.
AlreadyCharged(c) == Keyed(c) /\ <<key[c], rid[c]>> \in logged

\* A request for the priced entry, with an API key or without, where no id is asked for.
Begin(c) ==
  /\ at[c] = "idle" /\ begun < MaxCalls
  /\ \E k \in ApiKeys \cup {NoKey}, r \in Rids :
       /\ k = NoKey => r = NoRid
       /\ key' = [key EXCEPT ![c] = k] /\ rid' = [rid EXCEPT ![c] = r]
  /\ begun' = begun + 1
  /\ at' = [at EXCEPT ![c] = "check"] /\ UNCHANGED mode
  /\ UNCHANGED <<account, keyUsed, logged, seen, charges>> /\ Quiet

\* A check that does not look at the log (to test the checks).
CheckChargedNever(c) ==
  /\ at[c] = "check"
  /\ Step(c, "user")
  /\ UNCHANGED <<account, keyUsed, logged, seen, charges, begun>> /\ Quiet

\* The same request id was charged: this call is free.
CheckCharged(c) ==
  /\ at[c] = "check"
  /\ IF AlreadyCharged(c) THEN StepAs(c, "upstream", "free")
     ELSE Step(c, "user")
  /\ UNCHANGED <<account, keyUsed, logged, seen, charges, begun>> /\ Quiet

\* Count fails and leaves 0: the log seems to have no such row.
CheckFails(c) ==
  /\ at[c] = "check" /\ AlreadyCharged(c)
  /\ Step(c, "user")
  /\ UNCHANGED <<account, keyUsed, logged, seen, charges, begun>>
  /\ Statement(FALSE)

\* GetUserQuota.
ReadUser(c) ==
  /\ at[c] = "user"
  /\ seen' = [seen EXCEPT ![c] = quota]
  /\ Step(c, "key")
  /\ UNCHANGED <<account, keyUsed, logged, charges, begun>> /\ Quiet

KeyTrusted(c) == key[c] \in BudgetKeys => Budget - keyUsed[key[c]] > Trust

\* keyTrustOK and the balance of the account.
Trusts(c) == seen[c] > Trust /\ KeyTrusted(c)

\* GetApiKeyByID, the trust decision and the check of the balance as read; userQuota
\* is not used after this.
Decide(c) ==
  /\ at[c] = "key"
  /\ \/ Trusts(c) /\ StepAs(c, "upstream", "trusted")
     \/ ~ Trusts(c) /\ seen[c] >= Hold /\ Step(c, "take")
     \/ ~ Trusts(c) /\ seen[c] < Hold /\ Return(c)
  /\ seen' = [seen EXCEPT ![c] = 0]
  /\ UNCHANGED <<account, keyUsed, logged, charges, begun>> /\ Quiet

\* handleBillingDBError: the call is refused, or goes on as a debt (BillingFailOpen).
Give(c) ==
  \/ Return(c)
  \/ StepAs(c, "upstream", "debt")

\* A read fails, or the first update does.
DbError(c) ==
  /\ at[c] \in {"user", "take"} \/ (at[c] = "key" /\ Keyed(c))
  /\ Give(c)
  /\ seen' = [seen EXCEPT ![c] = 0]
  /\ UNCHANGED <<account, keyUsed, logged, charges, begun>> /\ Quiet

\* DecreaseUserQuotaAtomic: guarded by the balance at that moment.
TakeUser(c) ==
  /\ at[c] = "take"
  /\ \/ /\ quota < Hold
        /\ Return(c) /\ UNCHANGED quota
     \/ /\ quota >= Hold
        /\ quota' = quota - Hold
        /\ IF Keyed(c) THEN Step(c, "takeKey")
                       ELSE StepAs(c, "upstream", "held")
  /\ UNCHANGED <<used, keyUsed, logged, seen, charges, begun>> /\ Quiet

\* The update commits and its answer is lost: an error, and nothing is given back.
TakeUserUnanswered(c) ==
  /\ at[c] = "take" /\ quota >= Hold
  /\ quota' = quota - Hold
  /\ Give(c)
  /\ UNCHANGED <<used, keyUsed, logged, seen, charges, begun>>
  /\ Statement(FALSE)

\* DecreaseApiKeyQuotaAtomic for a budgeted key: its budget, or a failure.
TakeBudget(c) ==
  /\ at[c] = "takeKey" /\ key[c] \in BudgetKeys
  /\ \/ /\ Budget - keyUsed[key[c]] >= Hold
        /\ AddToKey(c, TRUE, Hold)
        /\ StepAs(c, "upstream", "held")
     \/ /\ Budget - keyUsed[key[c]] < Hold
        /\ StepAs(c, "giveBack", "short") /\ UNCHANGED keyUsed
     \/ StepAs(c, "giveBack", "error") /\ UNCHANGED keyUsed
     \/ /\ Budget - keyUsed[key[c]] >= Hold       \* applied, but the answer is lost
        /\ AddToKey(c, TRUE, Hold)
        /\ StepAs(c, "giveBack", "error")
  /\ UNCHANGED <<account, logged, seen, charges, begun>> /\ Quiet

\* AdjustApiKeyUsedQuota for a key without a budget.
TakeOpen(c) ==
  /\ at[c] = "takeKey" /\ key[c] \in OpenKeys
  /\ \E ok \in BOOLEAN : Statement(ok) /\ AddToKey(c, ok, Hold)
  /\ StepAs(c, "upstream", "held")
  /\ UNCHANGED <<account, logged, seen, charges, begun>>

\* A refusal that keeps what was taken from the account (to test the checks).
GiveBackForgotten(c) ==
  /\ at[c] = "giveBack"
  /\ Return(c)
  /\ UNCHANGED <<account, keyUsed, logged, seen, charges, begun>> /\ Quiet

\* IncreaseUserQuota after the key had no budget, or failed.
GiveBack(c) ==
  /\ at[c] = "giveBack"
  /\ \E ok \in BOOLEAN : Statement(ok) /\ AddToQuota(ok, Hold)
  /\ IF mode[c] = "error" THEN Give(c) ELSE Return(c)
  /\ UNCHANGED <<used, keyUsed, logged, seen, charges, begun>>

\* The upstream call of a session that took nothing and will take nothing.
CallUnpaid(c) ==
  /\ at[c] = "upstream" /\ mode[c] \in {"free", "debt"}
  /\ Return(c)
  /\ UNCHANGED <<account, keyUsed, logged, seen, charges, begun>> /\ Quiet

Charge(c) ==
  charges' = IF Findable(c) THEN [charges EXCEPT ![<<key[c], rid[c]>>] = @ + 1] ELSE charges

\* ShouldChargeCall is true: Confirm.
CallCharged(c) ==
  /\ at[c] = "upstream" /\ mode[c] \in {"held", "trusted"}
  /\ IF mode[c] = "trusted" THEN Step(c, "debitUser")
     ELSE IF Hold > Price THEN Step(c, "excessUser") ELSE Step(c, "used")
  /\ Charge(c)
  /\ UNCHANGED <<account, keyUsed, logged, seen, begun>> /\ Quiet

\* ShouldChargeCall is false: Refund, which has nothing to do when trusted.
CallRefunded(c) ==
  /\ at[c] = "upstream" /\ mode[c] \in {"held", "trusted"}
  /\ IF mode[c] = "trusted" THEN Return(c) ELSE Step(c, "backUser")
  /\ UNCHANGED <<account, keyUsed, logged, seen, charges, begun>> /\ Quiet

\* A debit that is sent again although it was applied (to test the checks).
DebitRepeated(c) ==
  /\ at[c] = "debitUser"
  /\ \E ok \in BOOLEAN : Statement(ok) /\ AddToQuota(ok, - 2 * Price)
  /\ IF Keyed(c) THEN Step(c, "debitKey") ELSE Step(c, "used")
  /\ UNCHANGED <<used, keyUsed, logged, seen, charges, begun>>

\* Confirm of a trusted call: DecreaseUserQuotaUnguarded.
DebitUser(c) ==
  /\ at[c] = "debitUser"
  /\ \E ok \in BOOLEAN : Statement(ok) /\ AddToQuota(ok, - Price)
  /\ IF Keyed(c) THEN Step(c, "debitKey") ELSE Step(c, "used")
  /\ UNCHANGED <<used, keyUsed, logged, seen, charges, begun>>

\* The debit of the key that is sent again although it was applied (to test the checks).
DebitKeyRepeated(c) ==
  /\ at[c] = "debitKey"
  /\ \E ok \in BOOLEAN : Statement(ok) /\ AddToKey(c, ok, 2 * Price)
  /\ Step(c, "used")
  /\ UNCHANGED <<account, logged, seen, charges, begun>>

DebitKey(c) ==
  /\ at[c] = "debitKey"
  /\ \E ok \in BOOLEAN : Statement(ok) /\ AddToKey(c, ok, Price)
  /\ Step(c, "used")
  /\ UNCHANGED <<account, logged, seen, charges, begun>>

\* Confirm of a held call: the surplus of the hold goes back.
ExcessUser(c) ==
  /\ at[c] = "excessUser"
  /\ \E ok \in BOOLEAN : Statement(ok) /\ AddToQuota(ok, Hold - Price)
  /\ IF Keyed(c) THEN Step(c, "excessKey") ELSE Step(c, "used")
  /\ UNCHANGED <<used, keyUsed, logged, seen, charges, begun>>

ExcessKey(c) ==
  /\ at[c] = "excessKey"
  /\ \E ok \in BOOLEAN : Statement(ok) /\ AddToKey(c, ok, Price - Hold)
  /\ Step(c, "used")
  /\ UNCHANGED <<account, logged, seen, charges, begun>>

\* AdjustUserUsedQuota.
AddUsed(c) ==
  /\ at[c] = "used"
  /\ \E ok \in BOOLEAN : Statement(ok) /\ used' = IF ok THEN used + Price ELSE used
  /\ Step(c, "log")
  /\ UNCHANGED <<quota, keyUsed, logged, seen, charges, begun>>

\* recordLog, in a goroutine of its own after the answer; queueLog drops it at
\* shutdown.
WriteLog(c) ==
  /\ at[c] = "log"
  /\ \E ok \in BOOLEAN :
       Statement(ok) /\ logged' = IF ok /\ Findable(c) THEN logged \cup {<<key[c], rid[c]>>} ELSE logged
  /\ Return(c)
  /\ UNCHANGED <<account, keyUsed, seen, charges, begun>>

BackUser(c) ==
  /\ at[c] = "backUser"
  /\ \E ok \in BOOLEAN : Statement(ok) /\ AddToQuota(ok, Hold)
  /\ IF Keyed(c) THEN Step(c, "backKey") ELSE Return(c)
  /\ UNCHANGED <<used, keyUsed, logged, seen, charges, begun>>

BackKey(c) ==
  /\ at[c] = "backKey"
  /\ \E ok \in BOOLEAN : Statement(ok) /\ AddToKey(c, ok, - Hold)
  /\ Return(c)
  /\ UNCHANGED <<account, logged, seen, charges, begun>>

\* The goroutine ends where it is: its process stops, or the upstream call panics.
Abandon(c) ==
  /\ at[c] # "idle" /\ slips < MaxSlips
  /\ Return(c)
  /\ seen' = [seen EXCEPT ![c] = 0]
  /\ slips' = slips + 1
  /\ UNCHANGED <<account, keyUsed, logged, charges, begun,
                 edits, ghosts, granted, code>>

CallStep(c) ==
  \/ Begin(c) \/ CheckCharged(c) \/ CheckFails(c) \/ ReadUser(c) \/ Decide(c) \/ DbError(c)
  \/ TakeUser(c) \/ TakeUserUnanswered(c) \/ TakeBudget(c) \/ TakeOpen(c) \/ GiveBack(c)
  \/ CallUnpaid(c) \/ CallCharged(c) \/ CallRefunded(c)
  \/ DebitUser(c) \/ DebitKey(c) \/ ExcessUser(c) \/ ExcessKey(c) \/ AddUsed(c) \/ WriteLog(c)
  \/ BackUser(c) \/ BackKey(c) \/ Abandon(c)

-----------------------------------------------------------------------------
(* Everybody else who changes the account.                                 *)

callVars == <<at, callId, seen, mode, charges, slips, begun, keyUsed, logged>>

\* A claim that does not look at the status (to test the checks).
RedeemUnclaimed ==
  /\ code # "disabled" /\ redeemed < 2
  /\ code' = "redeemed"
  /\ quota' = quota + Face /\ granted' = granted + Face
  /\ redeemed' = redeemed + 1
  /\ UNCHANGED <<used, callVars, edits, stale, restored>>

\* Redemption.Redeem: the claim and the credit are one transaction.
Redeem ==
  /\ code = "available"
  /\ code' = "redeemed"
  /\ quota' = quota + Face /\ granted' = granted + Face
  /\ redeemed' = redeemed + 1
  /\ UNCHANGED <<used, callVars, edits, stale, restored>>

\* RedemptionService.UpdateStatus reads the row and refuses a redeemed code ...
CodeRead ==
  /\ codeEdit = "idle" /\ code # "redeemed" /\ saves < MaxSaves
  /\ codeEdit' = "write" /\ saves' = saves + 1
  /\ UNCHANGED <<account, callVars, admin, adminSaw, saver, row, granted, ghosts, code>>

\* ... and then saves all of it.
CodeSave ==
  /\ codeEdit = "write"
  /\ code' \in {"available", "disabled"}
  /\ codeEdit' = "idle"
  /\ restored' = IF code = "redeemed" THEN restored + 1 ELSE restored
  /\ UNCHANGED <<account, callVars, admin, adminSaw, saver, row, saves, granted, stale, redeemed>>

\* AdjustUserQuota "sub" reads the row ...
AdminRead ==
  /\ admin = "idle" /\ saves < MaxSaves
  /\ adminSaw' = quota /\ admin' = "write" /\ saves' = saves + 1
  /\ UNCHANGED <<account, callVars, saver, row, codeEdit, granted, ghosts, code>>

\* ... and subtracts without a guard, or sets 0.
AdminWrite ==
  /\ admin = "write"
  /\ quota' = IF adminSaw >= Cut THEN quota - Cut ELSE 0
  /\ granted' = granted + (quota' - quota)
  /\ admin' = "idle" /\ adminSaw' = 0
  /\ UNCHANGED <<used, callVars, saver, row, codeEdit, saves, ghosts, code>>

\* UpdateProfile, ChangePassword and the administrator's UpdateUser read the row ...
SaveRead ==
  /\ saver = "idle" /\ saves < MaxSaves
  /\ row' = [quota |-> quota, used |-> used] /\ saver' = "write" /\ saves' = saves + 1
  /\ UNCHANGED <<account, callVars, admin, adminSaw, codeEdit, granted, ghosts, code>>

\* ... and save every column of it: User.Update.
SaveRow ==
  /\ saver = "write"
  /\ quota' = row.quota /\ used' = row.used
  /\ stale' = IF row = [quota |-> quota, used |-> used] THEN stale ELSE stale + 1
  /\ saver' = "idle" /\ row' = [quota |-> 0, used |-> 0]
  /\ UNCHANGED <<callVars, admin, adminSaw, codeEdit, saves, granted, redeemed,
                 restored, code>>

Next ==
  \/ \E c \in Calls : CallStep(c)
  \/ Redeem \/ CodeRead \/ CodeSave \/ AdminRead \/ AdminWrite \/ SaveRead \/ SaveRow

Spec == Init /\ [][Next]_vars

-----------------------------------------------------------------------------
(* What has been taken from the account for calls that are not settled.    *)

Holds(l, m) ==
  \/ l \in {"takeKey", "giveBack", "excessUser", "backUser"}
  \/ l = "upstream" /\ m = "held"
Settles(l) == l \in {"debitKey", "excessKey", "used"}
Holders == {c \in Calls : Holds(at[c], mode[c])}
Settlers == {c \in Calls : Settles(at[c])}

\* What the account lacks when everything in flight is counted.
InFlight == Hold * Cardinality(Holders) + Price * Cardinality(Settlers)
Missing == granted - (quota + used + InFlight)

\* Money is neither lost nor made: what was granted is in the account, spent, or held
\* by a call in flight.  A statement that does not take effect, or a call that ends
\* half-way, costs the user at most one hold and the platform at most one price, so the
\* error never grows by more than that however the calls interleave.
MoneyAccounted ==
  stale = 0 => - (Price * slips) <= Missing /\ Missing <= Hold * slips

\* Trusted calls are debited without a guard, from a balance read long before: the
\* account may be overdrawn, but by no more than the calls in flight can cost at once,
\* however many calls there are in all.
OverdraftBounded ==
  stale = 0 => quota >= - (Price * Cardinality(Calls) + Cut)

\* The same for the budget of a key.
KeyOverspendBounded ==
  \A k \in BudgetKeys : keyUsed[k] <= Budget + Price * Cardinality(Calls)

\* A budgeted key is never given back more than was taken from it: at any time its
\* used_quota covers the holds of the calls in flight, whichever statements failed.
HoldsKey(l, m) ==
  \/ l \in {"excessUser", "excessKey", "backUser", "backKey"}
  \/ l = "upstream" /\ m = "held"
KeyHolders(k) == {c \in Calls : key[c] = k /\ HoldsKey(at[c], mode[c])}
KeyCoversHolds ==
  \A k \in BudgetKeys : keyUsed[k] >= Hold * Cardinality(KeyHolders(k))

\* A request id that its log row keeps whole is charged again only to calls that overlap
\* the one that was charged first: once the row is there a retry is free, so there are at
\* most as many charges as calls in flight, and one more for each lost row or failed
\* check.  A longer id is never found again, and each of its retries is charged.
RetryChargesBounded ==
  \A k \in ApiKeys, r \in WholeRids : charges[<<k, r>>] <= Cardinality(Calls) + slips

\* A redemption code pays once, and once more for every status edit that saved a row
\* it had read before the redemption.
CodePaysOnce == redeemed <= 1 + restored

\* docs/COMMERCIALIZATION.md: the balance is conserved, deductions equal consumption
\* and refunds.  Without any failure nothing may be missing.
QuotaConserved == slips = 0 => Missing = 0

=============================================================================
