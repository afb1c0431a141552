---------------------------- MODULE BillingProofs ----------------------------
(* Proofs about Billing: its types, and that money, overdraft, key budgets  *)
(* and repeated charges stay within their bounds for any number of calls.   *)
EXTENDS Billing, FiniteSetTheorems, TLAPS

USE PriceAssumption, QuotaAssumption, KeysAssumption

-----------------------------------------------------------------------------
(* Counting.                                                               *)

\* Sets that differ at most in c differ in size by whether c is in them.
LEMMA CountOne ==
  ASSUME NEW c \in Calls, NEW A \in SUBSET Calls, NEW B \in SUBSET Calls,
         A \ {c} = B \ {c}
  PROVE  /\ Cardinality(A) \in Nat /\ Cardinality(B) \in Nat
         /\ Cardinality(B) + (IF c \in A THEN 1 ELSE 0)
              = Cardinality(A) + (IF c \in B THEN 1 ELSE 0)
<1>1. IsFiniteSet(A) /\ IsFiniteSet(B) /\ IsFiniteSet(A \ {c})
  BY CallsAssumption, FS_Subset
<1>2. Cardinality(A) \in Nat /\ Cardinality(B) \in Nat /\ Cardinality(A \ {c}) \in Nat
  BY <1>1, FS_CardinalityType
<1>3. Cardinality(A \ {c}) = IF c \in A THEN Cardinality(A) - 1 ELSE Cardinality(A)
  BY <1>1, FS_RemoveElement
<1>4. Cardinality(B \ {c}) = IF c \in B THEN Cardinality(B) - 1 ELSE Cardinality(B)
  BY <1>1, FS_RemoveElement
<1>5. Cardinality(A) = Cardinality(A \ {c}) + (IF c \in A THEN 1 ELSE 0)
  BY <1>2, <1>3
<1>6. Cardinality(B \ {c}) = Cardinality(A \ {c})
  BY Zenon
<1>7. Cardinality(B) = Cardinality(B \ {c}) + (IF c \in B THEN 1 ELSE 0)
  BY <1>2, <1>4, <1>6
<1>8. QED BY <1>2, <1>5, <1>6, <1>7

\* No set of calls is larger than the set of calls, nor are two disjoint ones together.
LEMMA CountAll ==
  ASSUME NEW A \in SUBSET Calls, NEW B \in SUBSET Calls, A \cap B = {}
  PROVE  /\ Cardinality(A) \in Nat /\ Cardinality(B) \in Nat /\ Cardinality(Calls) \in Nat
         /\ Cardinality(A) + Cardinality(B) <= Cardinality(Calls)
<1>1. IsFiniteSet(A) /\ IsFiniteSet(B) /\ IsFiniteSet(A \cup B)
  BY CallsAssumption, FS_Subset
<1>2. Cardinality(A) \in Nat /\ Cardinality(B) \in Nat /\ Cardinality(Calls) \in Nat
  BY <1>1, CallsAssumption, FS_CardinalityType
<1>3. Cardinality(A \cup B) <= Cardinality(Calls)
  BY CallsAssumption, FS_Subset
<1>4. Cardinality(A \cup B) = Cardinality(A) + Cardinality(B) - Cardinality(A \cap B)
  BY <1>1, FS_Union
<1>5. Cardinality(A \cap B) = 0
  BY FS_EmptySet
<1>6. QED BY <1>2, <1>3, <1>4, <1>5

-----------------------------------------------------------------------------
(* Types.                                                                  *)

\* There is an id to stand for none.
LEMMA NoRidThere == NoRid \in Rids
BY RidsAssumption DEF NoRid

\* Adding to the used_quota of a key keeps it an integer.
LEMMA AddToKeyTyped ==
  ASSUME TypeOK, NEW c \in Calls, NEW ok \in BOOLEAN, NEW amount \in Int,
         AddToKey(c, ok, amount)
  PROVE  keyUsed' \in [ApiKeys -> Int]
<1>1. CASE key[c] \in ApiKeys
  BY <1>1 DEF TypeOK, AddToKey
<1>2. CASE key[c] \notin ApiKeys
  BY <1>2 DEF TypeOK, AddToKey
<1>3. QED BY <1>1, <1>2

\* A step of a call keeps every variable in its type.
LEMMA CallTyped ==
  ASSUME TypeOK, NEW c \in Calls, CallStep(c)
  PROVE  TypeOK'
<1> USE NoRidThere DEF TypeOK, Points, Modes, Step, StepAs, Return, Quiet, Statement,
            AddToQuota, Keyed, Give, Charge, edits, ghosts, callId, account
<1>1. CASE Begin(c)
  BY <1>1 DEF Begin
<1>2. CASE CheckCharged(c)
  BY <1>2 DEF CheckCharged
<1>3. CASE CheckFails(c)
  BY <1>3 DEF CheckFails
<1>4. CASE ReadUser(c)
  BY <1>4 DEF ReadUser
<1>5. CASE Decide(c)
  BY <1>5 DEF Decide
<1>6. CASE DbError(c)
  BY <1>6 DEF DbError
<1>7. CASE TakeUser(c)
  BY <1>7 DEF TakeUser
<1>8. CASE TakeUserUnanswered(c)
  <2>1. /\ at' \in [Calls -> Points] /\ mode' \in [Calls -> Modes]
        /\ key' \in [Calls -> ApiKeys \cup {NoKey}] /\ rid' \in [Calls -> Rids]
    BY <1>8 DEF TakeUserUnanswered
  <2>2. quota' \in Int
    BY <1>8 DEF TakeUserUnanswered
  <2>3. QED BY <1>8, <2>1, <2>2 DEF TakeUserUnanswered
<1>9. CASE TakeBudget(c)
  <2>1. AddToKey(c, TRUE, Hold) \/ UNCHANGED keyUsed
    BY <1>9 DEF TakeBudget
  <2>2. keyUsed' \in [ApiKeys -> Int]
    BY <2>1, Hold \in Int, AddToKeyTyped
  <2>3. QED BY <1>9, <2>2 DEF TakeBudget
<1>10. CASE TakeOpen(c)
  BY <1>10 DEF TakeOpen, AddToKey
<1>11. CASE GiveBack(c)
  BY <1>11 DEF GiveBack
<1>12. CASE CallUnpaid(c)
  BY <1>12 DEF CallUnpaid
<1>13. CASE CallCharged(c)
  BY <1>13 DEF CallCharged, Findable, WholeRids
<1>14. CASE CallRefunded(c)
  BY <1>14 DEF CallRefunded
<1>15. CASE DebitUser(c)
  BY <1>15 DEF DebitUser
<1>16. CASE DebitKey(c)
  <2>1. PICK ok \in BOOLEAN : AddToKey(c, ok, Price)
    BY <1>16 DEF DebitKey
  <2>2. keyUsed' \in [ApiKeys -> Int]
    BY <2>1, Price \in Int, AddToKeyTyped
  <2>3. QED BY <1>16, <2>2 DEF DebitKey
<1>17. CASE ExcessUser(c)
  <2>1. quota' \in Int
    BY <1>17 DEF ExcessUser
  <2>2. QED BY <1>17, <2>1 DEF ExcessUser
<1>18. CASE ExcessKey(c)
  <2>1. PICK ok \in BOOLEAN : AddToKey(c, ok, Price - Hold)
    BY <1>18 DEF ExcessKey
  <2>2. keyUsed' \in [ApiKeys -> Int]
    BY <2>1, Price - Hold \in Int, AddToKeyTyped
  <2>3. QED BY <1>18, <2>2 DEF ExcessKey
<1>19. CASE AddUsed(c)
  BY <1>19 DEF AddUsed
<1>20. CASE WriteLog(c)
  BY <1>20 DEF WriteLog, Findable, WholeRids
<1>21. CASE BackUser(c)
  BY <1>21 DEF BackUser
<1>22. CASE BackKey(c)
  <2>1. PICK ok \in BOOLEAN : AddToKey(c, ok, - Hold)
    BY <1>22 DEF BackKey
  <2>2. keyUsed' \in [ApiKeys -> Int]
    BY <2>1, - Hold \in Int, AddToKeyTyped
  <2>3. QED BY <1>22, <2>2 DEF BackKey
<1>23. CASE Abandon(c)
  BY <1>23 DEF Abandon
<1>24. QED
  BY <1>1, <1>2, <1>3, <1>4, <1>5, <1>6, <1>7, <1>8, <1>9, <1>10, <1>11, <1>12, <1>13, <1>14, <1>15, <1>16, <1>17, <1>18, <1>19, <1>20, <1>21, <1>22, <1>23 DEF CallStep

\* The other actors keep the types too.
LEMMA OthersTyped ==
  ASSUME TypeOK,
         Redeem \/ CodeRead \/ CodeSave \/ AdminRead \/ AdminWrite \/ SaveRead \/ SaveRow
  PROVE  TypeOK'
<1> USE DEF TypeOK, callVars, callId, account, edits, ghosts
<1>1. CASE Redeem
  BY <1>1 DEF Redeem
<1>2. CASE CodeRead
  BY <1>2 DEF CodeRead
<1>3. CASE CodeSave
  BY <1>3 DEF CodeSave
<1>4. CASE AdminRead
  BY <1>4 DEF AdminRead
<1>5. CASE AdminWrite
  BY <1>5 DEF AdminWrite
<1>6. CASE SaveRead
  BY <1>6 DEF SaveRead
<1>7. CASE SaveRow
  BY <1>7 DEF SaveRow
<1>8. QED BY <1>1, <1>2, <1>3, <1>4, <1>5, <1>6, <1>7

\* Every variable always has its type.
THEOREM TypeCorrect == Spec => []TypeOK
<1>1. Init => TypeOK
  BY NoRidThere DEF Init, TypeOK, Points, Modes
<1>2. TypeOK /\ [Next]_vars => TypeOK'
  <2> SUFFICES ASSUME TypeOK, [Next]_vars PROVE TypeOK'
    OBVIOUS
  <2>1. CASE \E c \in Calls : CallStep(c)
    BY <2>1, CallTyped
  <2>2. CASE Redeem \/ CodeRead \/ CodeSave \/ AdminRead \/ AdminWrite \/ SaveRead \/ SaveRow
    BY <2>2, OthersTyped
  <2>3. CASE UNCHANGED vars
    BY <2>3 DEF vars, TypeOK, callId, account, edits, ghosts
  <2>4. QED BY <2>1, <2>2, <2>3 DEF Next
<1>3. QED BY <1>1, <1>2, PTL DEF Spec

-----------------------------------------------------------------------------
(* What one step may touch.                                                *)

\* A step of one call leaves the others where they are.
LEMMA OthersStay ==
  ASSUME TypeOK, NEW c \in Calls, CallStep(c)
  PROVE  \A d \in Calls \ {c} :
           /\ at'[d] = at[d] /\ mode'[d] = mode[d] /\ key'[d] = key[d]
           /\ rid'[d] = rid[d] /\ seen'[d] = seen[d]
<1> USE DEF TypeOK, callId
<1>1. CASE Begin(c)
  BY <1>1 DEF Begin, Step, StepAs, Return, Keyed, Give
<1>2. CASE CheckCharged(c)
  BY <1>2 DEF CheckCharged, Step, StepAs, Return, Keyed, Give
<1>3. CASE CheckFails(c)
  BY <1>3 DEF CheckFails, Step, StepAs, Return, Keyed, Give
<1>4. CASE ReadUser(c)
  BY <1>4 DEF ReadUser, Step, StepAs, Return, Keyed, Give
<1>5. CASE Decide(c)
  BY <1>5 DEF Decide, Step, StepAs, Return, Keyed, Give
<1>6. CASE DbError(c)
  BY <1>6 DEF DbError, Step, StepAs, Return, Keyed, Give
<1>7. CASE TakeUser(c)
  BY <1>7 DEF TakeUser, Step, StepAs, Return, Keyed, Give
<1>8. CASE TakeUserUnanswered(c)
  BY <1>8 DEF TakeUserUnanswered, Step, StepAs, Return, Keyed, Give
<1>9. CASE TakeBudget(c)
  BY <1>9 DEF TakeBudget, Step, StepAs, Return, Keyed, Give
<1>10. CASE TakeOpen(c)
  BY <1>10 DEF TakeOpen, Step, StepAs, Return, Keyed, Give
<1>11. CASE GiveBack(c)
  BY <1>11 DEF GiveBack, Step, StepAs, Return, Keyed, Give
<1>12. CASE CallUnpaid(c)
  BY <1>12 DEF CallUnpaid, Step, StepAs, Return, Keyed, Give
<1>13. CASE CallCharged(c)
  BY <1>13 DEF CallCharged, Step, StepAs, Return, Keyed, Give
<1>14. CASE CallRefunded(c)
  BY <1>14 DEF CallRefunded, Step, StepAs, Return, Keyed, Give
<1>15. CASE DebitUser(c)
  BY <1>15 DEF DebitUser, Step, StepAs, Return, Keyed, Give
<1>16. CASE DebitKey(c)
  BY <1>16 DEF DebitKey, Step, StepAs, Return, Keyed, Give
<1>17. CASE ExcessUser(c)
  BY <1>17 DEF ExcessUser, Step, StepAs, Return, Keyed, Give
<1>18. CASE ExcessKey(c)
  BY <1>18 DEF ExcessKey, Step, StepAs, Return, Keyed, Give
<1>19. CASE AddUsed(c)
  BY <1>19 DEF AddUsed, Step, StepAs, Return, Keyed, Give
<1>20. CASE WriteLog(c)
  BY <1>20 DEF WriteLog, Step, StepAs, Return, Keyed, Give
<1>21. CASE BackUser(c)
  BY <1>21 DEF BackUser, Step, StepAs, Return, Keyed, Give
<1>22. CASE BackKey(c)
  BY <1>22 DEF BackKey, Step, StepAs, Return, Keyed, Give
<1>23. CASE Abandon(c)
  BY <1>23 DEF Abandon, Step, StepAs, Return, Keyed, Give
<1>24. QED
  BY <1>1, <1>2, <1>3, <1>4, <1>5, <1>6, <1>7, <1>8, <1>9, <1>10, <1>11, <1>12, <1>13, <1>14, <1>15, <1>16, <1>17, <1>18, <1>19, <1>20, <1>21, <1>22, <1>23 DEF CallStep

\* A step of a call leaves what the other actors keep.
LEMMA EditsStay ==
  ASSUME NEW c \in Calls, CallStep(c)
  PROVE  UNCHANGED <<edits, ghosts, granted, code>>
<1> USE DEF Quiet, Statement
<1>1. CASE Begin(c)
  BY <1>1 DEF Begin
<1>2. CASE CheckCharged(c)
  BY <1>2 DEF CheckCharged
<1>3. CASE CheckFails(c)
  BY <1>3 DEF CheckFails
<1>4. CASE ReadUser(c)
  BY <1>4 DEF ReadUser
<1>5. CASE Decide(c)
  BY <1>5 DEF Decide
<1>6. CASE DbError(c)
  BY <1>6 DEF DbError
<1>7. CASE TakeUser(c)
  BY <1>7 DEF TakeUser
<1>8. CASE TakeUserUnanswered(c)
  BY <1>8 DEF TakeUserUnanswered
<1>9. CASE TakeBudget(c)
  BY <1>9 DEF TakeBudget
<1>10. CASE TakeOpen(c)
  BY <1>10 DEF TakeOpen
<1>11. CASE GiveBack(c)
  BY <1>11 DEF GiveBack
<1>12. CASE CallUnpaid(c)
  BY <1>12 DEF CallUnpaid
<1>13. CASE CallCharged(c)
  BY <1>13 DEF CallCharged
<1>14. CASE CallRefunded(c)
  BY <1>14 DEF CallRefunded
<1>15. CASE DebitUser(c)
  BY <1>15 DEF DebitUser
<1>16. CASE DebitKey(c)
  BY <1>16 DEF DebitKey
<1>17. CASE ExcessUser(c)
  BY <1>17 DEF ExcessUser
<1>18. CASE ExcessKey(c)
  BY <1>18 DEF ExcessKey
<1>19. CASE AddUsed(c)
  BY <1>19 DEF AddUsed
<1>20. CASE WriteLog(c)
  BY <1>20 DEF WriteLog
<1>21. CASE BackUser(c)
  BY <1>21 DEF BackUser
<1>22. CASE BackKey(c)
  BY <1>22 DEF BackKey
<1>23. CASE Abandon(c)
  BY <1>23 DEF Abandon
<1>24. QED
  BY <1>1, <1>2, <1>3, <1>4, <1>5, <1>6, <1>7, <1>8, <1>9, <1>10, <1>11, <1>12, <1>13, <1>14, <1>15, <1>16, <1>17, <1>18, <1>19, <1>20, <1>21, <1>22, <1>23 DEF CallStep

\* The other actors leave every call where it is, and its keys and charges.
LEMMA CallsStay ==
  ASSUME Redeem \/ CodeRead \/ CodeSave \/ AdminRead \/ AdminWrite \/ SaveRead \/ SaveRow
  PROVE  UNCHANGED callVars
BY DEF Redeem, CodeRead, CodeSave, AdminRead, AdminWrite, SaveRead, SaveRow

-----------------------------------------------------------------------------
(* Money.                                                                  *)

\* What the account lacks because of a call at program point l in mode m.
Worth(l, m) == IF Holds(l, m) THEN Hold ELSE IF Settles(l) THEN Price ELSE 0

\* When one call moves, the money in flight changes by what its place is worth.
LEMMA InFlightMoves ==
  ASSUME TypeOK, NEW c \in Calls,
         \A d \in Calls \ {c} : at'[d] = at[d] /\ mode'[d] = mode[d]
  PROVE  /\ InFlight \in Int /\ InFlight' \in Int
         /\ InFlight' + Worth(at[c], mode[c]) = InFlight + Worth(at'[c], mode'[c])
<1> DEFINE h == IF c \in Holders THEN 1 ELSE 0
           hh == IF c \in Holders' THEN 1 ELSE 0
           s == IF c \in Settlers THEN 1 ELSE 0
           ss == IF c \in Settlers' THEN 1 ELSE 0
<1>1. /\ Cardinality(Holders) \in Nat /\ Cardinality(Holders') \in Nat
      /\ Cardinality(Holders') + h = Cardinality(Holders) + hh
  <2>1. Holders \in SUBSET Calls /\ Holders' \in SUBSET Calls
    BY DEF Holders
  <2>2. Holders \ {c} = Holders' \ {c}
    BY DEF Holders
  <2>3. QED BY <2>1, <2>2, CountOne
<1>2. /\ Cardinality(Settlers) \in Nat /\ Cardinality(Settlers') \in Nat
      /\ Cardinality(Settlers') + s = Cardinality(Settlers) + ss
  <2>1. Settlers \in SUBSET Calls /\ Settlers' \in SUBSET Calls
    BY DEF Settlers
  <2>2. Settlers \ {c} = Settlers' \ {c}
    BY DEF Settlers
  <2>3. QED BY <2>1, <2>2, CountOne
<1>3. Worth(at[c], mode[c]) = Hold * h + Price * s
  BY DEF Worth, Holders, Settlers, Holds, Settles
<1>4. Worth(at'[c], mode'[c]) = Hold * hh + Price * ss
  BY DEF Worth, Holders, Settlers, Holds, Settles
<1>5. h \in Int /\ hh \in Int /\ s \in Int /\ ss \in Int
  OBVIOUS
<1> HIDE DEF h, hh, s, ss
<1>6. /\ Hold * Cardinality(Holders') + Hold * h = Hold * Cardinality(Holders) + Hold * hh
      /\ Price * Cardinality(Settlers') + Price * s = Price * Cardinality(Settlers) + Price * ss
  BY <1>1, <1>2, <1>5
<1>7. /\ Hold * h \in Int /\ Hold * hh \in Int /\ Price * s \in Int /\ Price * ss \in Int
      /\ Hold * Cardinality(Holders) \in Int /\ Hold * Cardinality(Holders') \in Int
      /\ Price * Cardinality(Settlers) \in Int /\ Price * Cardinality(Settlers') \in Int
  BY <1>1, <1>2, <1>5
<1>8. InFlight' = Hold * Cardinality(Holders') + Price * Cardinality(Settlers')
  BY DEF InFlight
<1>9. InFlight \in Int /\ InFlight' \in Int
  BY <1>7, <1>8 DEF InFlight
<1>10. InFlight' + (Hold * h + Price * s) = InFlight + (Hold * hh + Price * ss)
  BY <1>6, <1>7, <1>8 DEF InFlight
<1>11. QED BY <1>3, <1>4, <1>9, <1>10

\* A statement that takes effect moves money between the account, used_quota and the
\* hold of its call; one that does not, or an abandoned call, is off by a hold or a price.
LEMMA StepBalanced ==
  ASSUME TypeOK, NEW c \in Calls, CallStep(c)
  PROVE  LET before == quota + used + Worth(at[c], mode[c])
             after  == quota' + used' + Worth(at'[c], mode'[c])
         IN  \/ slips' = slips /\ after = before
             \/ slips' = slips + 1 /\ before - after \in (- Price) .. Hold
<1> USE DEF TypeOK, Points, Modes, callId, account, Worth, Holds, Settles, Quiet, Statement, AddToQuota
<1>1. CASE Begin(c)
  BY <1>1 DEF Begin, Step, StepAs, Return, Keyed, Give
<1>2. CASE CheckCharged(c)
  BY <1>2 DEF CheckCharged, Step, StepAs, Return, Keyed, Give
<1>3. CASE CheckFails(c)
  BY <1>3 DEF CheckFails, Step, StepAs, Return, Keyed, Give
<1>4. CASE ReadUser(c)
  BY <1>4 DEF ReadUser, Step, StepAs, Return, Keyed, Give
<1>5. CASE Decide(c)
  BY <1>5 DEF Decide, Step, StepAs, Return, Keyed, Give
<1>6. CASE DbError(c)
  BY <1>6 DEF DbError, Step, StepAs, Return, Keyed, Give
<1>7. CASE TakeUser(c)
  BY <1>7 DEF TakeUser, Step, StepAs, Return, Keyed, Give
<1>8. CASE TakeUserUnanswered(c)
  BY <1>8 DEF TakeUserUnanswered, Step, StepAs, Return, Keyed, Give
<1>9. CASE TakeBudget(c)
  BY <1>9 DEF TakeBudget, Step, StepAs, Return, Keyed, Give
<1>10. CASE TakeOpen(c)
  BY <1>10 DEF TakeOpen, Step, StepAs, Return, Keyed, Give
<1>11. CASE GiveBack(c)
  BY <1>11 DEF GiveBack, Step, StepAs, Return, Keyed, Give
<1>12. CASE CallUnpaid(c)
  BY <1>12 DEF CallUnpaid, Step, StepAs, Return, Keyed, Give
<1>13. CASE CallCharged(c)
  BY <1>13 DEF CallCharged, Step, StepAs, Return, Keyed, Give
<1>14. CASE CallRefunded(c)
  BY <1>14 DEF CallRefunded, Step, StepAs, Return, Keyed, Give
<1>15. CASE DebitUser(c)
  BY <1>15 DEF DebitUser, Step, StepAs, Return, Keyed, Give
<1>16. CASE DebitKey(c)
  BY <1>16 DEF DebitKey, Step, StepAs, Return, Keyed, Give
<1>17. CASE ExcessUser(c)
  BY <1>17 DEF ExcessUser, Step, StepAs, Return, Keyed, Give
<1>18. CASE ExcessKey(c)
  BY <1>18 DEF ExcessKey, Step, StepAs, Return, Keyed, Give
<1>19. CASE AddUsed(c)
  BY <1>19 DEF AddUsed, Step, StepAs, Return, Keyed, Give
<1>20. CASE WriteLog(c)
  BY <1>20 DEF WriteLog, Step, StepAs, Return, Keyed, Give
<1>21. CASE BackUser(c)
  BY <1>21 DEF BackUser, Step, StepAs, Return, Keyed, Give
<1>22. CASE BackKey(c)
  BY <1>22 DEF BackKey, Step, StepAs, Return, Keyed, Give
<1>23. CASE Abandon(c)
  BY <1>23 DEF Abandon, Step, StepAs, Return, Keyed, Give
<1>24. QED
  BY <1>1, <1>2, <1>3, <1>4, <1>5, <1>6, <1>7, <1>8, <1>9, <1>10, <1>11, <1>12, <1>13, <1>14, <1>15, <1>16, <1>17, <1>18, <1>19, <1>20, <1>21, <1>22, <1>23 DEF CallStep

OtherStep ==
  Redeem \/ CodeRead \/ CodeSave \/ AdminRead \/ AdminWrite \/ SaveRead \/ SaveRow

\* The arithmetic of one step: g granted, a in the account and spent, i in flight, w worth of
\* the call, all before and (a2, i2, w2, m2) after it.
LEMMA StepArithmetic ==
  ASSUME NEW g \in Int, NEW a \in Int, NEW i \in Int, NEW w \in Int, NEW m \in Int,
         NEW a2 \in Int, NEW i2 \in Int, NEW w2 \in Int, NEW m2 \in Int,
         i2 + w = i + w2, m = g - (a + i), m2 = g - (a2 + i2)
  PROVE  m2 - m = (a + w) - (a2 + w2)
OBVIOUS

\* A step of a call keeps the account balanced up to the slips.
LEMMA MoneyKeptByCall ==
  ASSUME TypeOK, TypeOK', MoneyAccounted, NEW c \in Calls, CallStep(c)
  PROVE  MoneyAccounted'
<1>1. PICK w \in Int, w2 \in Int : w = Worth(at[c], mode[c]) /\ w2 = Worth(at'[c], mode'[c])
  BY DEF Worth
<1>2. PICK q2 \in Int, u2 \in Int, i2 \in Int, s2 \in Int :
        q2 = quota' /\ u2 = used' /\ i2 = InFlight' /\ s2 = slips'
  BY OthersStay, InFlightMoves DEF TypeOK
<1>3. InFlight \in Int /\ i2 + w = InFlight + w2
  BY <1>1, <1>2, OthersStay, InFlightMoves
<1>4. \/ s2 = slips /\ q2 + u2 + w2 = quota + used + w
      \/ s2 = slips + 1 /\ (quota + used + w) - (q2 + u2 + w2) \in (- Price) .. Hold
  BY <1>1, <1>2, StepBalanced
<1>5. granted' = granted /\ stale' = stale
  BY EditsStay DEF ghosts
<1>6. quota \in Int /\ used \in Int /\ granted \in Int /\ slips \in Nat
  BY DEF TypeOK
<1>7. PICK m \in Int, m2 \in Int :
        /\ m = Missing /\ m = granted - ((quota + used) + InFlight)
        /\ m2 = Missing' /\ m2 = granted - ((q2 + u2) + i2)
  <2>1. Missing = granted - ((quota + used) + InFlight) /\ Missing \in Int
    BY <1>3, <1>6 DEF Missing
  <2>2. Missing' = granted - ((q2 + u2) + i2)
    BY <1>2, <1>5 DEF Missing
  <2>3. granted - ((q2 + u2) + i2) \in Int
    BY <1>6
  <2>4. QED BY <2>1, <2>2, <2>3
<1>8. m2 - m = ((quota + used) + w) - ((q2 + u2) + w2)
  <2>1. quota + used \in Int /\ q2 + u2 \in Int
    BY <1>6
  <2>2. QED BY <1>3, <1>6, <1>7, <2>1, StepArithmetic
<1>9. \/ s2 = slips /\ m2 = m
      \/ s2 = slips + 1 /\ - Price <= m2 - m /\ m2 - m <= Hold
  BY <1>4, <1>6, <1>8
<1>10. CASE stale # 0
  BY <1>5, <1>10 DEF MoneyAccounted
<1>11. CASE stale = 0 /\ s2 = slips /\ m2 = m
  BY <1>2, <1>5, <1>7, <1>11 DEF MoneyAccounted
<1>12. CASE stale = 0 /\ s2 = slips + 1 /\ - Price <= m2 - m /\ m2 - m <= Hold
  <2>1. - (Price * slips) <= m /\ m <= Hold * slips
    BY <1>7, <1>12 DEF MoneyAccounted
  <2>2. PICK x \in Int, y \in Int : x = Price * slips /\ y = Hold * slips
    BY <1>6
  <2>3. Price * (slips + 1) = x + Price /\ Hold * (slips + 1) = y + Hold
    BY <1>6, <2>2
  <2>4. - (x + Price) <= m2 /\ m2 <= y + Hold
    BY <1>12, <2>1, <2>2
  <2>5. - (Price * s2) <= m2 /\ m2 <= Hold * s2
    BY <1>12, <2>3, <2>4
  <2>6. QED BY <1>2, <1>7, <2>5 DEF MoneyAccounted
<1>13. QED BY <1>9, <1>10, <1>11, <1>12

\* Redemptions, administrator changes and edits keep it balanced unless a stale row is saved.
LEMMA MoneyKeptByOthers ==
  ASSUME TypeOK, TypeOK', MoneyAccounted, OtherStep
  PROVE  MoneyAccounted'
<1>1. Holders' = Holders /\ Settlers' = Settlers /\ slips' = slips
  BY CallsStay DEF OtherStep, callVars, Holders, Settlers
<1>2. \/ quota' = quota /\ used' = used /\ granted' = granted
      \/ used' = used /\ \E d \in Int : quota' = quota + d /\ granted' = granted + d
      \/ stale' # 0
  <2> USE DEF TypeOK, callVars, account, edits, ghosts
  <2>1. CASE Redeem
    BY <2>1, Face \in Int DEF Redeem
  <2>2. CASE CodeRead \/ CodeSave \/ AdminRead \/ SaveRead
    BY <2>2 DEF CodeRead, CodeSave, AdminRead, SaveRead
  <2>3. CASE AdminWrite
    <3>1. PICK q2 \in Int : q2 = quota'
      OBVIOUS
    <3>2. used' = used /\ granted' = granted + (q2 - quota)
      BY <2>3, <3>1 DEF AdminWrite
    <3>3. q2 = quota + (q2 - quota) /\ q2 - quota \in Int
      OBVIOUS
    <3>4. QED BY <3>1, <3>2, <3>3
  <2>4. CASE SaveRow
    BY <2>4 DEF SaveRow
  <2>5. QED BY <2>1, <2>2, <2>3, <2>4 DEF OtherStep
<1>3. stale' = 0 => stale = 0
  <2> USE DEF TypeOK, ghosts
  <2>1. CASE SaveRow
    BY <2>1 DEF SaveRow
  <2>2. CASE ~ SaveRow
    BY <2>2 DEF OtherStep, Redeem, CodeRead, CodeSave, AdminRead, AdminWrite, SaveRead
  <2>3. QED BY <2>1, <2>2
<1>4. CASE stale' # 0
  BY <1>4 DEF MoneyAccounted
<1>5. CASE stale' = 0
  <2>1. InFlight \in Int
    <3>1. Cardinality(Holders) \in Nat /\ Cardinality(Settlers) \in Nat
      BY CountAll DEF Holders, Settlers, Holds, Settles
    <3>2. QED BY <3>1 DEF InFlight
  <2>2. Missing = granted - (quota + used + InFlight)
    BY DEF Missing
  <2>3. Missing' = granted' - (quota' + used' + InFlight)
    BY <1>1 DEF Missing, InFlight
  <2>4. Missing' = Missing
    <3>1. quota \in Int /\ used \in Int /\ granted \in Int
      BY DEF TypeOK
    <3>2. QED BY <1>2, <1>5, <2>1, <2>2, <2>3, <3>1
  <2>5. QED BY <1>1, <1>3, <1>5, <2>4 DEF MoneyAccounted
<1>6. QED BY <1>4, <1>5

\* In every reachable state the account, what was spent and what calls in flight hold
\* add up to what was granted, but for one hold or price per failed statement.
THEOREM MoneySafe == Spec => []MoneyAccounted
<1>1. Init => MoneyAccounted
  <2> SUFFICES ASSUME Init PROVE MoneyAccounted
    OBVIOUS
  <2>1. Holders = {} /\ Settlers = {}
    BY DEF Init, Holders, Settlers, Holds, Settles
  <2>2. Cardinality(Holders) = 0 /\ Cardinality(Settlers) = 0
    BY <2>1, FS_EmptySet
  <2>3. Missing = 0
    BY <2>2 DEF Missing, InFlight, Init
  <2>4. QED BY <2>3 DEF MoneyAccounted, Init
<1>2. TypeOK /\ TypeOK' /\ MoneyAccounted /\ [Next]_vars => MoneyAccounted'
  <2> SUFFICES ASSUME TypeOK, TypeOK', MoneyAccounted, [Next]_vars PROVE MoneyAccounted'
    OBVIOUS
  <2>1. CASE \E c \in Calls : CallStep(c)
    BY <2>1, MoneyKeptByCall
  <2>2. CASE OtherStep
    BY <2>2, MoneyKeptByOthers
  <2>3. CASE UNCHANGED vars
    BY <2>3 DEF vars, MoneyAccounted, Missing, InFlight, Holders, Settlers, Holds, Settles, account, ghosts
  <2>4. QED BY <2>1, <2>2, <2>3 DEF Next, OtherStep
<1>3. QED BY <1>1, <1>2, TypeCorrect, PTL DEF Spec

-----------------------------------------------------------------------------
(* Overdraft.                                                              *)

\* A call that has seen a balance above the trust limit and will still debit it.
Eyes(l, m, s) == (l = "key" /\ s > Trust) \/ l = "debitUser" \/ (l = "upstream" /\ m = "trusted")
Eyers == {c \in Calls : Eyes(at[c], mode[c], seen[c])}
AdminEyes == admin = "write" /\ adminSaw >= Cut

\* What may still be debited without a guard is not yet overdrawn.
OverInv ==
  stale = 0 =>
    quota >= - (Price * (Cardinality(Calls) - Cardinality(Eyers)) + (IF AdminEyes THEN 0 ELSE Cut))

\* A step leaves a balance that is not negative, or takes nothing and reserves nothing, or
\* debits one price of a call that was counted.
LEMMA StepOverdraws ==
  ASSUME TypeOK, NEW c \in Calls, CallStep(c)
  PROVE  \/ quota' >= 0
         \/ /\ quota' >= quota
            /\ Eyes(at'[c], mode'[c], seen'[c]) => Eyes(at[c], mode[c], seen[c])
         \/ /\ quota' = quota - Price
            /\ Eyes(at[c], mode[c], seen[c]) /\ ~ Eyes(at'[c], mode'[c], seen'[c])
<1> USE DEF TypeOK, Points, Modes, callId, account, Eyes, AddToQuota
<1>1. CASE Begin(c)
  BY <1>1 DEF Begin, Step, StepAs, Return, Keyed, Give
<1>2. CASE CheckCharged(c)
  BY <1>2 DEF CheckCharged, Step, StepAs, Return, Keyed, Give
<1>3. CASE CheckFails(c)
  BY <1>3 DEF CheckFails, Step, StepAs, Return, Keyed, Give
<1>4. CASE ReadUser(c)
  BY <1>4 DEF ReadUser, Step, StepAs, Return, Keyed, Give
<1>5. CASE Decide(c)
  BY <1>5 DEF Decide, Trusts, Step, StepAs, Return, Keyed, Give
<1>6. CASE DbError(c)
  BY <1>6 DEF DbError, Step, StepAs, Return, Keyed, Give
<1>7. CASE TakeUser(c)
  BY <1>7 DEF TakeUser, Step, StepAs, Return, Keyed, Give
<1>8. CASE TakeUserUnanswered(c)
  BY <1>8 DEF TakeUserUnanswered, Step, StepAs, Return, Keyed, Give
<1>9. CASE TakeBudget(c)
  <2>1. quota' = quota
    BY <1>9 DEF TakeBudget
  <2>2. /\ at'[c] \in {"upstream", "giveBack"}
        /\ at'[c] = "upstream" => mode'[c] = "held"
    BY <1>9 DEF TakeBudget, StepAs
  <2>3. QED BY <2>1, <2>2
<1>10. CASE TakeOpen(c)
  BY <1>10 DEF TakeOpen, Step, StepAs, Return, Keyed, Give
<1>11. CASE GiveBack(c)
  BY <1>11 DEF GiveBack, Step, StepAs, Return, Keyed, Give
<1>12. CASE CallUnpaid(c)
  BY <1>12 DEF CallUnpaid, Step, StepAs, Return, Keyed, Give
<1>13. CASE CallCharged(c)
  BY <1>13 DEF CallCharged, Step, StepAs, Return, Keyed, Give
<1>14. CASE CallRefunded(c)
  BY <1>14 DEF CallRefunded, Step, StepAs, Return, Keyed, Give
<1>15. CASE DebitUser(c)
  BY <1>15 DEF DebitUser, Step, StepAs, Return, Keyed, Give
<1>16. CASE DebitKey(c)
  BY <1>16 DEF DebitKey, Step, StepAs, Return, Keyed, Give
<1>17. CASE ExcessUser(c)
  BY <1>17 DEF ExcessUser, Step, StepAs, Return, Keyed, Give
<1>18. CASE ExcessKey(c)
  BY <1>18 DEF ExcessKey, Step, StepAs, Return, Keyed, Give
<1>19. CASE AddUsed(c)
  BY <1>19 DEF AddUsed, Step, StepAs, Return, Keyed, Give
<1>20. CASE WriteLog(c)
  BY <1>20 DEF WriteLog, Step, StepAs, Return, Keyed, Give
<1>21. CASE BackUser(c)
  BY <1>21 DEF BackUser, Step, StepAs, Return, Keyed, Give
<1>22. CASE BackKey(c)
  BY <1>22 DEF BackKey, Step, StepAs, Return, Keyed, Give
<1>23. CASE Abandon(c)
  BY <1>23 DEF Abandon, Step, StepAs, Return, Keyed, Give
<1>24. QED
  BY <1>1, <1>2, <1>3, <1>4, <1>5, <1>6, <1>7, <1>8, <1>9, <1>10, <1>11, <1>12, <1>13, <1>14, <1>15, <1>16, <1>17, <1>18, <1>19, <1>20, <1>21, <1>22, <1>23 DEF CallStep

\* A step of a call keeps the overdraft within what the counted calls may still debit.
LEMMA OverKeptByCall ==
  ASSUME TypeOK, TypeOK', OverInv, NEW c \in Calls, CallStep(c)
  PROVE  OverInv'
<1>1. PICK e \in Int, e2 \in Int, n \in Int :
        /\ e = Cardinality(Eyers) /\ e2 = Cardinality(Eyers') /\ n = Cardinality(Calls)
        /\ e2 <= n
        /\ e2 + (IF c \in Eyers THEN 1 ELSE 0) = e + (IF c \in Eyers' THEN 1 ELSE 0)
  <2>1. Eyers \in SUBSET Calls /\ Eyers' \in SUBSET Calls
    BY DEF Eyers
  <2>2. Eyers \ {c} = Eyers' \ {c}
    BY OthersStay DEF Eyers
  <2>3. /\ Cardinality(Eyers) \in Nat /\ Cardinality(Eyers') \in Nat
        /\ Cardinality(Eyers') + (IF c \in Eyers THEN 1 ELSE 0)
             = Cardinality(Eyers) + (IF c \in Eyers' THEN 1 ELSE 0)
    BY <2>1, <2>2, CountOne
  <2>4. Cardinality(Eyers') <= Cardinality(Calls) /\ Cardinality(Calls) \in Nat
    BY <2>1, CallsAssumption, FS_Subset, FS_CardinalityType
  <2>5. QED BY <2>3, <2>4
<1>2. /\ c \in Eyers <=> Eyes(at[c], mode[c], seen[c])
      /\ c \in Eyers' <=> Eyes(at'[c], mode'[c], seen'[c])
  BY DEF Eyers, Eyes
<1>3. PICK q2 \in Int : q2 = quota'
  BY DEF TypeOK
<1>4. stale' = stale /\ AdminEyes' = AdminEyes
  BY EditsStay DEF ghosts, edits, AdminEyes
<1>5. PICK a \in Nat : a = IF AdminEyes THEN 0 ELSE Cut
  OBVIOUS
<1>6. SUFFICES ASSUME stale = 0 PROVE q2 >= - (Price * (n - e2) + a)
  BY <1>1, <1>3, <1>4, <1>5 DEF OverInv
<1>7. quota \in Int /\ quota >= - (Price * (n - e) + a)
  BY <1>1, <1>5, <1>6 DEF OverInv, TypeOK
<1>8. CASE q2 >= 0
  <2>1. Price * (n - e2) \in Nat
    BY <1>1
  <2>2. QED BY <1>8, <2>1
<1>9. CASE q2 >= quota /\ (c \in Eyers' => c \in Eyers)
  <2>1. e2 <= e
    BY <1>1, <1>9
  <2>2. Price * (n - e2) >= Price * (n - e)
    BY <1>1, <2>1
  <2>3. Price * (n - e2) \in Int /\ Price * (n - e) \in Int
    BY <1>1
  <2>4. QED BY <1>7, <1>9, <2>2, <2>3
<1>10. CASE q2 = quota - Price /\ c \in Eyers /\ c \notin Eyers'
  <2>1. e2 = e - 1
    BY <1>1, <1>10
  <2>2. Price * (n - e2) = Price * (n - e) + Price
    BY <1>1, <2>1
  <2>3. Price * (n - e2) \in Int /\ Price * (n - e) \in Int
    BY <1>1
  <2>4. QED BY <1>7, <1>10, <2>2, <2>3
<1>11. QED BY <1>2, <1>3, <1>8, <1>9, <1>10, StepOverdraws

\* The other actors do, too, unless a stale row is saved.
LEMMA OverKeptByOthers ==
  ASSUME TypeOK, TypeOK', OverInv, OtherStep
  PROVE  OverInv'
<1>1. Eyers' = Eyers
  BY CallsStay DEF OtherStep, callVars, Eyers
<1>2. PICK b \in Nat : b = Price * (Cardinality(Calls) - Cardinality(Eyers))
  <2>1. Eyers \in SUBSET Calls
    BY DEF Eyers
  <2>2. /\ Cardinality(Eyers) \in Nat /\ Cardinality(Calls) \in Nat
        /\ Cardinality(Eyers) <= Cardinality(Calls)
    BY <2>1, CallsAssumption, FS_Subset, FS_CardinalityType
  <2>3. QED BY <2>2
<1>3. PICK q2 \in Int : q2 = quota'
  BY DEF TypeOK
<1>4. SUFFICES ASSUME stale' = 0
               PROVE  q2 >= - (b + (IF AdminEyes' THEN 0 ELSE Cut))
  BY <1>1, <1>2, <1>3 DEF OverInv
<1>5. stale = 0
  <2> USE DEF TypeOK, ghosts
  <2>1. CASE SaveRow
    BY <1>4, <2>1 DEF SaveRow
  <2>2. CASE ~ SaveRow
    BY <1>4, <2>2 DEF OtherStep, Redeem, CodeRead, CodeSave, AdminRead, AdminWrite, SaveRead
  <2>3. QED BY <2>1, <2>2
<1>6. quota \in Int /\ quota >= - (b + (IF AdminEyes THEN 0 ELSE Cut))
  BY <1>2, <1>5 DEF OverInv, TypeOK
<1> USE DEF AdminEyes, TypeOK, account, edits, ghosts
<1>7. CASE Redeem
  BY <1>3, <1>6, <1>7 DEF Redeem
<1>8. CASE CodeRead \/ CodeSave \/ SaveRead
  BY <1>3, <1>6, <1>8 DEF CodeRead, CodeSave, SaveRead
<1>9. CASE AdminRead
  BY <1>3, <1>6, <1>9 DEF AdminRead
<1>10. CASE AdminWrite
  BY <1>3, <1>6, <1>10 DEF AdminWrite
<1>11. CASE SaveRow
  BY <1>3, <1>4, <1>5, <1>6, <1>11 DEF SaveRow
<1>12. QED BY <1>7, <1>8, <1>9, <1>10, <1>11 DEF OtherStep

\* However many calls there are, the account is never overdrawn by more than the calls in
\* flight and one administrator's subtraction can cost.
THEOREM OverdraftSafe == Spec => []OverdraftBounded
<1>1. Init => OverInv
  <2> SUFFICES ASSUME Init PROVE OverInv
    OBVIOUS
  <2>1. Eyers = {}
    BY DEF Init, Eyers, Eyes
  <2>2. Cardinality(Eyers) = 0 /\ Cardinality(Calls) \in Nat
    BY <2>1, FS_EmptySet, CallsAssumption, FS_CardinalityType
  <2>3. Price * (Cardinality(Calls) - Cardinality(Eyers)) \in Nat
    BY <2>2
  <2>4. QED BY <2>3 DEF OverInv, Init
<1>2. TypeOK /\ TypeOK' /\ OverInv /\ [Next]_vars => OverInv'
  <2> SUFFICES ASSUME TypeOK, TypeOK', OverInv, [Next]_vars PROVE OverInv'
    OBVIOUS
  <2>1. CASE \E c \in Calls : CallStep(c)
    BY <2>1, OverKeptByCall
  <2>2. CASE OtherStep
    BY <2>2, OverKeptByOthers
  <2>3. CASE UNCHANGED vars
    BY <2>3 DEF vars, OverInv, Eyers, Eyes, AdminEyes, account, ghosts, edits
  <2>4. QED BY <2>1, <2>2, <2>3 DEF Next, OtherStep
<1>3. TypeOK /\ OverInv => OverdraftBounded
  <2> SUFFICES ASSUME TypeOK, OverInv, stale = 0
               PROVE  quota >= - (Price * Cardinality(Calls) + Cut)
    BY DEF OverdraftBounded
  <2>1. Eyers \in SUBSET Calls
    BY DEF Eyers
  <2>2. PICK n \in Nat, e \in Nat : n = Cardinality(Calls) /\ e = Cardinality(Eyers) /\ e <= n
    BY <2>1, CallsAssumption, FS_Subset, FS_CardinalityType
  <2>3. Price * (n - e) <= Price * n /\ Price * n \in Int /\ Price * (n - e) \in Int
    BY <2>2
  <2>4. quota >= - (Price * (n - e) + (IF AdminEyes THEN 0 ELSE Cut)) /\ quota \in Int
    BY <2>2 DEF OverInv, TypeOK
  <2>5. QED BY <2>2, <2>3, <2>4
<1>4. QED BY <1>1, <1>2, <1>3, TypeCorrect, PTL DEF Spec

-----------------------------------------------------------------------------
(* Key budgets.                                                            *)

\* A trusted call that will still add its price to the key.
Owes(l, m) == l \in {"debitUser", "debitKey"} \/ (l = "upstream" /\ m = "trusted")
KeyOwers(k) == {c \in Calls : key[c] = k /\ Owes(at[c], mode[c])}

KeyCeiling(k) == keyUsed[k] <= Budget + Price * (Cardinality(Calls) - Cardinality(KeyOwers(k)))
KeyFloor(k) == keyUsed[k] >= Hold * Cardinality(KeyHolders(k))
KeyInv == \A k \in BudgetKeys : KeyCeiling(k) /\ KeyFloor(k)

\* A step leaves a key within its budget, or adds nothing, or adds the price of a call that
\* was counted.
LEMMA StepOverspends ==
  ASSUME TypeOK, NEW c \in Calls, CallStep(c), NEW k \in BudgetKeys
  PROVE  \/ keyUsed'[k] <= Budget
         \/ /\ keyUsed'[k] <= keyUsed[k]
            /\ (key'[c] = k /\ Owes(at'[c], mode'[c])) => (key[c] = k /\ Owes(at[c], mode[c]))
         \/ /\ keyUsed'[k] = keyUsed[k] + Price
            /\ key[c] = k /\ Owes(at[c], mode[c])
            /\ ~ (key'[c] = k /\ Owes(at'[c], mode'[c]))
<1> USE DEF TypeOK, Points, Modes, callId, account, Owes, AddToKey, ApiKeys
<1>1. CASE Begin(c)
  BY <1>1 DEF Begin, Step, StepAs, Return, Keyed, Give
<1>2. CASE CheckCharged(c)
  BY <1>2 DEF CheckCharged, Step, StepAs, Return, Keyed, Give
<1>3. CASE CheckFails(c)
  BY <1>3 DEF CheckFails, Step, StepAs, Return, Keyed, Give
<1>4. CASE ReadUser(c)
  BY <1>4 DEF ReadUser, Step, StepAs, Return, Keyed, Give
<1>5. CASE Decide(c)
  BY <1>5 DEF Decide, Trusts, KeyTrusted, Step, StepAs, Return, Keyed, Give
<1>6. CASE DbError(c)
  BY <1>6 DEF DbError, Step, StepAs, Return, Keyed, Give
<1>7. CASE TakeUser(c)
  BY <1>7 DEF TakeUser, Step, StepAs, Return, Keyed, Give
<1>8. CASE TakeUserUnanswered(c)
  BY <1>8 DEF TakeUserUnanswered, Step, StepAs, Return, Keyed, Give
<1>9. CASE TakeBudget(c)
  BY <1>9 DEF TakeBudget, Step, StepAs, Return, Keyed, Give
<1>10. CASE TakeOpen(c)
  BY <1>10 DEF TakeOpen, Step, StepAs, Return, Keyed, Give
<1>11. CASE GiveBack(c)
  BY <1>11 DEF GiveBack, Step, StepAs, Return, Keyed, Give
<1>12. CASE CallUnpaid(c)
  BY <1>12 DEF CallUnpaid, Step, StepAs, Return, Keyed, Give
<1>13. CASE CallCharged(c)
  BY <1>13 DEF CallCharged, Step, StepAs, Return, Keyed, Give
<1>14. CASE CallRefunded(c)
  BY <1>14 DEF CallRefunded, Step, StepAs, Return, Keyed, Give
<1>15. CASE DebitUser(c)
  BY <1>15 DEF DebitUser, Step, StepAs, Return, Keyed, Give
<1>16. CASE DebitKey(c)
  BY <1>16 DEF DebitKey, Step, StepAs, Return, Keyed, Give
<1>17. CASE ExcessUser(c)
  BY <1>17 DEF ExcessUser, Step, StepAs, Return, Keyed, Give
<1>18. CASE ExcessKey(c)
  BY <1>18 DEF ExcessKey, Step, StepAs, Return, Keyed, Give
<1>19. CASE AddUsed(c)
  BY <1>19 DEF AddUsed, Step, StepAs, Return, Keyed, Give
<1>20. CASE WriteLog(c)
  BY <1>20 DEF WriteLog, Step, StepAs, Return, Keyed, Give
<1>21. CASE BackUser(c)
  BY <1>21 DEF BackUser, Step, StepAs, Return, Keyed, Give
<1>22. CASE BackKey(c)
  BY <1>22 DEF BackKey, Step, StepAs, Return, Keyed, Give
<1>23. CASE Abandon(c)
  BY <1>23 DEF Abandon, Step, StepAs, Return, Keyed, Give
<1>24. QED
  BY <1>1, <1>2, <1>3, <1>4, <1>5, <1>6, <1>7, <1>8, <1>9, <1>10, <1>11, <1>12, <1>13, <1>14, <1>15, <1>16, <1>17, <1>18, <1>19, <1>20, <1>21, <1>22, <1>23 DEF CallStep

\* A step gives a key back no more than the hold of a call that was counted.
LEMMA StepReturns ==
  ASSUME TypeOK, NEW c \in Calls, CallStep(c), NEW k \in BudgetKeys
  PROVE  \/ /\ keyUsed'[k] >= keyUsed[k]
            /\ (key'[c] = k /\ HoldsKey(at'[c], mode'[c])) => (key[c] = k /\ HoldsKey(at[c], mode[c]))
         \/ /\ keyUsed'[k] = keyUsed[k] + Hold
            /\ ~ (key[c] = k /\ HoldsKey(at[c], mode[c]))
         \/ /\ keyUsed'[k] >= keyUsed[k] - Hold
            /\ key[c] = k /\ HoldsKey(at[c], mode[c])
            /\ ~ (key'[c] = k /\ HoldsKey(at'[c], mode'[c]))
<1> USE DEF TypeOK, Points, Modes, callId, account, HoldsKey, AddToKey, ApiKeys
<1>1. CASE Begin(c)
  BY <1>1 DEF Begin, Step, StepAs, Return, Keyed, Give
<1>2. CASE CheckCharged(c)
  BY <1>2 DEF CheckCharged, Step, StepAs, Return, Keyed, Give
<1>3. CASE CheckFails(c)
  BY <1>3 DEF CheckFails, Step, StepAs, Return, Keyed, Give
<1>4. CASE ReadUser(c)
  BY <1>4 DEF ReadUser, Step, StepAs, Return, Keyed, Give
<1>5. CASE Decide(c)
  BY <1>5 DEF Decide, Step, StepAs, Return, Keyed, Give
<1>6. CASE DbError(c)
  BY <1>6 DEF DbError, Step, StepAs, Return, Keyed, Give
<1>7. CASE TakeUser(c)
  BY <1>7 DEF TakeUser, Step, StepAs, Return, Keyed, Give
<1>8. CASE TakeUserUnanswered(c)
  BY <1>8 DEF TakeUserUnanswered, Step, StepAs, Return, Keyed, Give
<1>9. CASE TakeBudget(c)
  BY <1>9 DEF TakeBudget, Step, StepAs, Return, Keyed, Give
<1>10. CASE TakeOpen(c)
  BY <1>10 DEF TakeOpen, Step, StepAs, Return, Keyed, Give
<1>11. CASE GiveBack(c)
  BY <1>11 DEF GiveBack, Step, StepAs, Return, Keyed, Give
<1>12. CASE CallUnpaid(c)
  BY <1>12 DEF CallUnpaid, Step, StepAs, Return, Keyed, Give
<1>13. CASE CallCharged(c)
  BY <1>13 DEF CallCharged, Step, StepAs, Return, Keyed, Give
<1>14. CASE CallRefunded(c)
  BY <1>14 DEF CallRefunded, Step, StepAs, Return, Keyed, Give
<1>15. CASE DebitUser(c)
  BY <1>15 DEF DebitUser, Step, StepAs, Return, Keyed, Give
<1>16. CASE DebitKey(c)
  BY <1>16 DEF DebitKey, Step, StepAs, Return, Keyed, Give
<1>17. CASE ExcessUser(c)
  BY <1>17 DEF ExcessUser, Step, StepAs, Return, Keyed, Give
<1>18. CASE ExcessKey(c)
  BY <1>18 DEF ExcessKey, Step, StepAs, Return, Keyed, Give
<1>19. CASE AddUsed(c)
  BY <1>19 DEF AddUsed, Step, StepAs, Return, Keyed, Give
<1>20. CASE WriteLog(c)
  BY <1>20 DEF WriteLog, Step, StepAs, Return, Keyed, Give
<1>21. CASE BackUser(c)
  BY <1>21 DEF BackUser, Step, StepAs, Return, Keyed, Give
<1>22. CASE BackKey(c)
  BY <1>22 DEF BackKey, Step, StepAs, Return, Keyed, Give
<1>23. CASE Abandon(c)
  BY <1>23 DEF Abandon, Step, StepAs, Return, Keyed, Give
<1>24. QED
  BY <1>1, <1>2, <1>3, <1>4, <1>5, <1>6, <1>7, <1>8, <1>9, <1>10, <1>11, <1>12, <1>13, <1>14, <1>15, <1>16, <1>17, <1>18, <1>19, <1>20, <1>21, <1>22, <1>23 DEF CallStep

\* A step of a call keeps a key below its budget and what was overspent in flight.
LEMMA CeilingKept ==
  ASSUME TypeOK, TypeOK', NEW c \in Calls, CallStep(c), NEW k \in BudgetKeys, KeyCeiling(k)
  PROVE  KeyCeiling(k)'
<1> DEFINE E == KeyOwers(k)
           E2 == {d \in Calls : key'[d] = k /\ Owes(at'[d], mode'[d])}
<1>1. PICK e \in Int, e2 \in Int, n \in Int :
        /\ e = Cardinality(E) /\ e2 = Cardinality(E2) /\ n = Cardinality(Calls) /\ e2 <= n
        /\ e2 + (IF c \in E THEN 1 ELSE 0) = e + (IF c \in E2 THEN 1 ELSE 0)
  <2>1. E \in SUBSET Calls /\ E2 \in SUBSET Calls
    BY DEF KeyOwers
  <2>2. E \ {c} = E2 \ {c}
    BY OthersStay DEF KeyOwers
  <2> HIDE DEF E, E2
  <2>3. /\ Cardinality(E) \in Nat /\ Cardinality(E2) \in Nat
        /\ Cardinality(E2) + (IF c \in E THEN 1 ELSE 0) = Cardinality(E) + (IF c \in E2 THEN 1 ELSE 0)
    BY <2>1, <2>2, CountOne
  <2>4. Cardinality(E2) <= Cardinality(Calls) /\ Cardinality(Calls) \in Nat
    BY <2>1, CallsAssumption, FS_Subset, FS_CardinalityType
  <2>5. QED BY <2>3, <2>4
<1>2. /\ c \in E <=> (key[c] = k /\ Owes(at[c], mode[c]))
      /\ c \in E2 <=> (key'[c] = k /\ Owes(at'[c], mode'[c]))
  BY DEF KeyOwers
<1>3. PICK u \in Int, u2 \in Int : u = keyUsed[k] /\ u2 = keyUsed'[k]
  BY DEF TypeOK, ApiKeys
<1>4. u <= Budget + Price * (n - e)
  BY <1>1, <1>3 DEF KeyCeiling
<1>5. SUFFICES u2 <= Budget + Price * (n - e2)
  BY <1>1, <1>3 DEF KeyCeiling, KeyOwers
<1> HIDE DEF E, E2
<1>6. Price * (n - e2) \in Nat /\ Price * (n - e) \in Int
  BY <1>1
<1>7. CASE u2 <= Budget
  BY <1>6, <1>7
<1>8. CASE u2 <= u /\ (c \in E2 => c \in E)
  <2>1. e2 <= e
    BY <1>1, <1>8
  <2>2. Price * (n - e2) >= Price * (n - e)
    BY <1>1, <2>1
  <2>3. QED BY <1>4, <1>6, <1>8, <2>2
<1>9. CASE u2 = u + Price /\ c \in E /\ c \notin E2
  <2>1. e2 = e - 1
    BY <1>1, <1>9
  <2>2. Price * (n - e2) = Price * (n - e) + Price
    BY <1>1, <2>1
  <2>3. QED BY <1>4, <1>6, <1>9, <2>2
<1>10. QED BY <1>2, <1>3, <1>7, <1>8, <1>9, StepOverspends

\* A step of a call keeps used_quota of a key above the holds in flight.
LEMMA FloorKept ==
  ASSUME TypeOK, TypeOK', NEW c \in Calls, CallStep(c), NEW k \in BudgetKeys, KeyFloor(k)
  PROVE  KeyFloor(k)'
<1> DEFINE E == KeyHolders(k)
           E2 == {d \in Calls : key'[d] = k /\ HoldsKey(at'[d], mode'[d])}
<1>1. PICK e \in Nat, e2 \in Nat :
        /\ e = Cardinality(E) /\ e2 = Cardinality(E2)
        /\ e2 + (IF c \in E THEN 1 ELSE 0) = e + (IF c \in E2 THEN 1 ELSE 0)
  <2>1. E \in SUBSET Calls /\ E2 \in SUBSET Calls
    BY DEF KeyHolders
  <2>2. E \ {c} = E2 \ {c}
    BY OthersStay DEF KeyHolders
  <2> HIDE DEF E, E2
  <2>3. QED BY <2>1, <2>2, CountOne
<1>2. /\ c \in E <=> (key[c] = k /\ HoldsKey(at[c], mode[c]))
      /\ c \in E2 <=> (key'[c] = k /\ HoldsKey(at'[c], mode'[c]))
  BY DEF KeyHolders
<1>3. PICK u \in Int, u2 \in Int : u = keyUsed[k] /\ u2 = keyUsed'[k]
  BY DEF TypeOK, ApiKeys
<1>4. u >= Hold * e
  BY <1>1, <1>3 DEF KeyFloor
<1>5. SUFFICES u2 >= Hold * e2
  BY <1>1, <1>3 DEF KeyFloor, KeyHolders
<1> HIDE DEF E, E2
<1>6. Hold * e2 \in Int /\ Hold * e \in Int
  BY <1>1
<1>7. CASE u2 >= u /\ (c \in E2 => c \in E)
  <2>1. e2 <= e
    BY <1>1, <1>7
  <2>2. Hold * e2 <= Hold * e
    BY <1>1, <2>1
  <2>3. QED BY <1>4, <1>6, <1>7, <2>2
<1>8. CASE u2 = u + Hold /\ c \notin E
  <2>1. e2 <= e + 1
    BY <1>1, <1>8
  <2>2. Hold * e2 <= Hold * e + Hold
    BY <1>1, <2>1
  <2>3. QED BY <1>4, <1>6, <1>8, <2>2
<1>9. CASE u2 >= u - Hold /\ c \in E /\ c \notin E2
  <2>1. e2 = e - 1
    BY <1>1, <1>9
  <2>2. Hold * e2 = Hold * e - Hold
    BY <1>1, <2>1
  <2>3. QED BY <1>4, <1>6, <1>9, <2>2
<1>10. QED BY <1>2, <1>3, <1>7, <1>8, <1>9, StepReturns

\* The two bounds of a budgeted key hold in every reachable state.
LEMMA KeyInvariant == Spec => []KeyInv
<1>1. Init => KeyInv
  <2> SUFFICES ASSUME Init, NEW k \in BudgetKeys PROVE KeyCeiling(k) /\ KeyFloor(k)
    BY DEF KeyInv
  <2>1. KeyOwers(k) = {} /\ KeyHolders(k) = {}
    BY DEF Init, KeyOwers, KeyHolders, Owes, HoldsKey
  <2>2. /\ Cardinality(KeyOwers(k)) = 0 /\ Cardinality(KeyHolders(k)) = 0
        /\ Cardinality(Calls) \in Nat
    BY <2>1, FS_EmptySet, CallsAssumption, FS_CardinalityType
  <2>3. Price * Cardinality(Calls) \in Nat /\ keyUsed[k] = 0
    BY <2>2 DEF Init, ApiKeys
  <2>4. QED BY <2>2, <2>3 DEF KeyCeiling, KeyFloor
<1>2. TypeOK /\ TypeOK' /\ KeyInv /\ [Next]_vars => KeyInv'
  <2> SUFFICES ASSUME TypeOK, TypeOK', KeyInv, [Next]_vars PROVE KeyInv'
    OBVIOUS
  <2>1. CASE \E c \in Calls : CallStep(c)
    <3>1. \A k \in BudgetKeys : KeyCeiling(k)' /\ KeyFloor(k)'
      BY <2>1, CeilingKept, FloorKept DEF KeyInv
    <3>2. QED BY <3>1 DEF KeyInv
  <2>2. CASE OtherStep \/ UNCHANGED vars
    <3>1. UNCHANGED <<at, mode, key, keyUsed>>
      BY <2>2, CallsStay DEF OtherStep, callVars, callId, vars
    <3>2. QED BY <3>1 DEF KeyInv, KeyCeiling, KeyFloor, KeyOwers, KeyHolders, Owes, HoldsKey
  <2>3. QED BY <2>1, <2>2 DEF Next, OtherStep
<1>3. QED BY <1>1, <1>2, TypeCorrect, PTL DEF Spec

\* A budgeted key is overspent by no more than the trusted calls in flight.
THEOREM KeyOverspendSafe == Spec => []KeyOverspendBounded
<1>1. TypeOK /\ KeyInv => KeyOverspendBounded
  <2> SUFFICES ASSUME TypeOK, KeyInv, NEW k \in BudgetKeys
               PROVE  keyUsed[k] <= Budget + Price * Cardinality(Calls)
    BY DEF KeyOverspendBounded
  <2>1. KeyOwers(k) \in SUBSET Calls
    BY DEF KeyOwers
  <2>2. PICK n \in Nat, e \in Nat : n = Cardinality(Calls) /\ e = Cardinality(KeyOwers(k)) /\ e <= n
    BY <2>1, CallsAssumption, FS_Subset, FS_CardinalityType
  <2>3. Price * (n - e) <= Price * n /\ Price * n \in Int /\ Price * (n - e) \in Int
    BY <2>2
  <2>4. keyUsed[k] <= Budget + Price * (n - e) /\ keyUsed[k] \in Int
    BY <2>2 DEF KeyInv, KeyCeiling, TypeOK, ApiKeys
  <2>5. QED BY <2>2, <2>3, <2>4
<1>2. QED BY <1>1, KeyInvariant, TypeCorrect, PTL

\* used_quota of a budgeted key covers the holds in flight, so no refund returns more than
\* was taken.
THEOREM KeyRefundSafe == Spec => []KeyCoversHolds
<1>1. KeyInv => KeyCoversHolds
  BY DEF KeyInv, KeyFloor, KeyCoversHolds
<1>2. QED BY <1>1, KeyInvariant, PTL

-----------------------------------------------------------------------------
(* Repeated charges.                                                       *)

\* A call past the check of the log that may still be charged; and a charged call whose
\* log row is not written.
Pending(l, m) == l \in {"user", "key", "take", "takeKey"} \/ (l = "upstream" /\ m \in {"held", "trusted"})
Owing(l) == l \in {"debitUser", "debitKey", "excessUser", "excessKey", "used", "log"}
Pendings(k, r) == {c \in Calls : key[c] = k /\ rid[c] = r /\ Pending(at[c], mode[c])}
Owings(k, r) == {c \in Calls : key[c] = k /\ rid[c] = r /\ Owing(at[c])}

\* Before the first log row each charge has its call still in flight; afterwards only the
\* calls that had passed the check can add one.
ChargeInv(k, r) ==
  IF <<k, r>> \in logged
  THEN charges[<<k, r>>] + Cardinality(Pendings(k, r)) <= Cardinality(Calls) + slips
  ELSE charges[<<k, r>>] <= Cardinality(Owings(k, r)) + slips

\* A step charges a call that was pending and now owes its row, or slips, or writes the
\* row, or neither adds a pending call to a logged pair nor loses an owing one.
LEMMA StepCharges ==
  ASSUME TypeOK, NEW c \in Calls, CallStep(c), NEW k \in ApiKeys, NEW r \in WholeRids
  PROVE  LET p   == <<k, r>>
             is  == key[c] = k /\ rid[c] = r
             is2 == key'[c] = k /\ rid'[c] = r
             pend == is /\ Pending(at[c], mode[c])
             pend2 == is2 /\ Pending(at'[c], mode'[c])
             owe == is /\ Owing(at[c])
             owe2 == is2 /\ Owing(at'[c])
         IN  \/ /\ charges'[p] = charges[p] /\ slips' = slips
                /\ p \in logged' <=> p \in logged
                /\ pend2 => pend \/ p \notin logged
                /\ owe => owe2 \/ p \in logged
             \/ /\ charges'[p] = charges[p] + 1 /\ slips' = slips
                /\ p \in logged' <=> p \in logged
                /\ pend /\ ~ pend2 /\ ~ owe /\ owe2
             \/ /\ charges'[p] = charges[p] /\ slips' = slips + 1
                /\ p \in logged' <=> p \in logged
             \/ /\ charges'[p] = charges[p] /\ slips' = slips
                /\ p \notin logged /\ p \in logged'
                /\ ~ pend /\ ~ pend2
<1> USE DEF TypeOK, Points, Modes, callId, account, Pending, Owing, Quiet, Statement,
            ApiKeys, Charge, Findable, WholeRids, AlreadyCharged
<1>1. CASE Begin(c)
  BY <1>1 DEF Begin, Step, StepAs, Return, Keyed, Give
<1>2. CASE CheckCharged(c)
  BY <1>2 DEF CheckCharged, Step, StepAs, Return, Keyed, Give
<1>3. CASE CheckFails(c)
  BY <1>3 DEF CheckFails, Step, StepAs, Return, Keyed, Give
<1>4. CASE ReadUser(c)
  BY <1>4 DEF ReadUser, Step, StepAs, Return, Keyed, Give
<1>5. CASE Decide(c)
  BY <1>5 DEF Decide, Step, StepAs, Return, Keyed, Give
<1>6. CASE DbError(c)
  BY <1>6 DEF DbError, Step, StepAs, Return, Keyed, Give
<1>7. CASE TakeUser(c)
  BY <1>7 DEF TakeUser, Step, StepAs, Return, Keyed, Give
<1>8. CASE TakeUserUnanswered(c)
  BY <1>8 DEF TakeUserUnanswered, Step, StepAs, Return, Keyed, Give
<1>9. CASE TakeBudget(c)
  BY <1>9 DEF TakeBudget, Step, StepAs, Return, Keyed, Give
<1>10. CASE TakeOpen(c)
  BY <1>10 DEF TakeOpen, Step, StepAs, Return, Keyed, Give
<1>11. CASE GiveBack(c)
  BY <1>11 DEF GiveBack, Step, StepAs, Return, Keyed, Give
<1>12. CASE CallUnpaid(c)
  BY <1>12 DEF CallUnpaid, Step, StepAs, Return, Keyed, Give
<1>13. CASE CallCharged(c)
  BY <1>13 DEF CallCharged, Step, StepAs, Return, Keyed, Give
<1>14. CASE CallRefunded(c)
  BY <1>14 DEF CallRefunded, Step, StepAs, Return, Keyed, Give
<1>15. CASE DebitUser(c)
  BY <1>15 DEF DebitUser, Step, StepAs, Return, Keyed, Give
<1>16. CASE DebitKey(c)
  BY <1>16 DEF DebitKey, Step, StepAs, Return, Keyed, Give
<1>17. CASE ExcessUser(c)
  BY <1>17 DEF ExcessUser, Step, StepAs, Return, Keyed, Give
<1>18. CASE ExcessKey(c)
  BY <1>18 DEF ExcessKey, Step, StepAs, Return, Keyed, Give
<1>19. CASE AddUsed(c)
  BY <1>19 DEF AddUsed, Step, StepAs, Return, Keyed, Give
<1>20. CASE WriteLog(c)
  BY <1>20 DEF WriteLog, Step, StepAs, Return, Keyed, Give
<1>21. CASE BackUser(c)
  BY <1>21 DEF BackUser, Step, StepAs, Return, Keyed, Give
<1>22. CASE BackKey(c)
  BY <1>22 DEF BackKey, Step, StepAs, Return, Keyed, Give
<1>23. CASE Abandon(c)
  BY <1>23 DEF Abandon, Step, StepAs, Return, Keyed, Give
<1>24. QED
  BY <1>1, <1>2, <1>3, <1>4, <1>5, <1>6, <1>7, <1>8, <1>9, <1>10, <1>11, <1>12, <1>13, <1>14, <1>15, <1>16, <1>17, <1>18, <1>19, <1>20, <1>21, <1>22, <1>23 DEF CallStep

\* A step of a call keeps the bound on the charges of a pair.
LEMMA ChargesKept ==
  ASSUME TypeOK, TypeOK', NEW c \in Calls, CallStep(c), NEW k \in ApiKeys, NEW r \in WholeRids,
         ChargeInv(k, r)
  PROVE  ChargeInv(k, r)'
<1> DEFINE P == Pendings(k, r)
           P2 == {d \in Calls : key'[d] = k /\ rid'[d] = r /\ Pending(at'[d], mode'[d])}
           O == Owings(k, r)
           O2 == {d \in Calls : key'[d] = k /\ rid'[d] = r /\ Owing(at'[d])}
<1>1. P \in SUBSET Calls /\ P2 \in SUBSET Calls /\ O \in SUBSET Calls /\ O2 \in SUBSET Calls
  BY DEF Pendings, Owings
<1>2. P \ {c} = P2 \ {c} /\ O \ {c} = O2 \ {c}
  BY OthersStay DEF Pendings, Owings
<1>3. P \cap O = {}
  BY DEF Pendings, Owings, Pending, Owing
<1>4. /\ c \in P <=> (key[c] = k /\ rid[c] = r /\ Pending(at[c], mode[c]))
      /\ c \in P2 <=> (key'[c] = k /\ rid'[c] = r /\ Pending(at'[c], mode'[c]))
      /\ c \in O <=> (key[c] = k /\ rid[c] = r /\ Owing(at[c]))
      /\ c \in O2 <=> (key'[c] = k /\ rid'[c] = r /\ Owing(at'[c]))
  BY DEF Pendings, Owings
<1>5. PICK x \in Nat, x2 \in Nat, s \in Nat, s2 \in Nat :
        /\ x = charges[<<k, r>>] /\ x2 = charges'[<<k, r>>] /\ s = slips /\ s2 = slips'
  BY DEF TypeOK
<1>6. PICK n \in Nat : n = Cardinality(Calls)
  BY CallsAssumption, FS_CardinalityType
<1>7. ChargeInv(k, r)' <=> IF <<k, r>> \in logged'
                          THEN x2 + Cardinality(P2) <= n + s2
                          ELSE x2 <= Cardinality(O2) + s2
  BY <1>5, <1>6 DEF ChargeInv, Pendings, Owings
<1>8. IF <<k, r>> \in logged THEN x + Cardinality(P) <= n + s ELSE x <= Cardinality(O) + s
  BY <1>5, <1>6 DEF ChargeInv
<1>9. \/ /\ x2 = x /\ s2 = s /\ (<<k, r>> \in logged' <=> <<k, r>> \in logged)
         /\ c \in P2 => c \in P \/ <<k, r>> \notin logged
         /\ c \in O => c \in O2 \/ <<k, r>> \in logged
      \/ /\ x2 = x + 1 /\ s2 = s /\ (<<k, r>> \in logged' <=> <<k, r>> \in logged)
         /\ c \in P /\ c \notin P2 /\ c \notin O /\ c \in O2
      \/ x2 = x /\ s2 = s + 1 /\ (<<k, r>> \in logged' <=> <<k, r>> \in logged)
      \/ /\ x2 = x /\ s2 = s /\ <<k, r>> \notin logged /\ <<k, r>> \in logged'
         /\ c \notin P /\ c \notin P2
  BY <1>4, <1>5, StepCharges
<1> HIDE DEF P, P2, O, O2
<1>10. /\ Cardinality(P) \in Nat /\ Cardinality(P2) \in Nat
       /\ Cardinality(P2) + (IF c \in P THEN 1 ELSE 0) = Cardinality(P) + (IF c \in P2 THEN 1 ELSE 0)
  BY <1>1, <1>2, CountOne
<1>11. /\ Cardinality(O) \in Nat /\ Cardinality(O2) \in Nat
       /\ Cardinality(O2) + (IF c \in O THEN 1 ELSE 0) = Cardinality(O) + (IF c \in O2 THEN 1 ELSE 0)
  BY <1>1, <1>2, CountOne
<1>12. Cardinality(P) + Cardinality(O) <= n
  BY <1>1, <1>3, <1>6, CountAll
<1>13. QED BY <1>7, <1>8, <1>9, <1>10, <1>11, <1>12

\* A request id that fits into its log row is charged again only to calls that overlap
\* its first charge.
THEOREM RetrySafe == Spec => []RetryChargesBounded
<1> DEFINE Inv == \A k \in ApiKeys, r \in WholeRids : ChargeInv(k, r)
<1>1. Init => Inv
  <2> SUFFICES ASSUME Init, NEW k \in ApiKeys, NEW r \in WholeRids PROVE ChargeInv(k, r)
    OBVIOUS
  <2>1. Owings(k, r) = {}
    BY DEF Init, Owings, Owing
  <2>2. QED BY <2>1, FS_EmptySet DEF Init, ChargeInv
<1>2. TypeOK /\ TypeOK' /\ Inv /\ [Next]_vars => Inv'
  <2> SUFFICES ASSUME TypeOK, TypeOK', Inv, [Next]_vars, NEW k \in ApiKeys, NEW r \in WholeRids
               PROVE  ChargeInv(k, r)'
    OBVIOUS
  <2>1. ChargeInv(k, r)
    OBVIOUS
  <2> HIDE DEF Inv
  <2>2. CASE \E c \in Calls : CallStep(c)
    BY <2>1, <2>2, ChargesKept
  <2>3. CASE OtherStep \/ UNCHANGED vars
    <3>1. UNCHANGED <<at, mode, key, rid, charges, slips, logged>>
      BY <2>3, CallsStay DEF OtherStep, callVars, callId, vars
    <3>2. QED BY <2>1, <3>1 DEF ChargeInv, Pendings, Owings, Pending, Owing
  <2>4. QED BY <2>2, <2>3 DEF Next, OtherStep
<1>3. TypeOK /\ Inv => RetryChargesBounded
  <2> SUFFICES ASSUME TypeOK, Inv, NEW k \in ApiKeys, NEW r \in WholeRids
               PROVE  charges[<<k, r>>] <= Cardinality(Calls) + slips
    BY DEF RetryChargesBounded
  <2>1. ChargeInv(k, r)
    OBVIOUS
  <2> HIDE DEF Inv
  <2>2. PICK x \in Nat, s \in Nat : x = charges[<<k, r>>] /\ s = slips
    BY DEF TypeOK
  <2>3. Pendings(k, r) \in SUBSET Calls /\ Owings(k, r) \in SUBSET Calls
    BY DEF Pendings, Owings
  <2>4. /\ Cardinality(Pendings(k, r)) \in Nat /\ Cardinality(Owings(k, r)) \in Nat
        /\ Cardinality(Calls) \in Nat /\ Cardinality(Owings(k, r)) <= Cardinality(Calls)
    BY <2>3, CallsAssumption, FS_Subset, FS_CardinalityType
  <2>5. QED BY <2>1, <2>2, <2>4 DEF ChargeInv
<1> HIDE DEF Inv
<1>4. QED BY <1>1, <1>2, <1>3, TypeCorrect, PTL DEF Spec

-----------------------------------------------------------------------------
(* The redemption code.                                                    *)

\* While the code can be redeemed, every earlier redemption was undone by a save.
CodeInv == CodePaysOnce /\ (code # "redeemed" => redeemed <= restored)

\* A code pays once, and once more for each stale status edit.
THEOREM CodeSafe == Spec => []CodePaysOnce
<1> USE DEF CodeInv, CodePaysOnce
<1>1. Init => CodeInv
  BY DEF Init
<1>2. TypeOK /\ CodeInv /\ [Next]_vars => CodeInv'
  <2> SUFFICES ASSUME TypeOK, CodeInv, [Next]_vars PROVE CodeInv'
    OBVIOUS
  <2>1. CASE \E c \in Calls : CallStep(c)
    BY <2>1, EditsStay DEF ghosts
  <2>2. CASE Redeem
    BY <2>2 DEF Redeem, TypeOK
  <2>3. CASE CodeSave
    BY <2>3 DEF CodeSave, TypeOK
  <2>4. CASE CodeRead \/ AdminRead \/ AdminWrite \/ SaveRead \/ SaveRow \/ UNCHANGED vars
    BY <2>4 DEF CodeRead, AdminRead, AdminWrite, SaveRead, SaveRow, vars, ghosts
  <2>5. QED BY <2>1, <2>2, <2>3, <2>4 DEF Next
<1>3. CodeInv => CodePaysOnce
  OBVIOUS
<1>4. QED BY <1>1, <1>2, <1>3, TypeCorrect, PTL DEF Spec

=============================================================================
