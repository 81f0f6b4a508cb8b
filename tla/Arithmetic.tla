----------------------------- MODULE Arithmetic -----------------------------
(***************************************************************************)
(* Facts about products and integer division that the provers do not find  *)
(* by themselves inside a larger goal.                                     *)
(***************************************************************************)
EXTENDS Integers, TLAPS

(* Whole units of r in a never cost more than a. *)
LEMMA DivMul ==
  ASSUME NEW a \in Nat, NEW r \in Nat \ {0}
  PROVE  /\ a \div r \in Nat
         /\ (a \div r) * r <= a
         /\ a < (a \div r) * r + r
  OBVIOUS

(* More money never buys fewer whole units. *)
LEMMA DivMono ==
  ASSUME NEW a \in Nat, NEW b \in Nat, NEW r \in Nat \ {0}, a <= b
  PROVE  a \div r <= b \div r
  <1>1. (a \div r) * r <= b /\ b < (b \div r) * r + r
    BY DivMul
  <1>2. a \div r \in Nat /\ b \div r \in Nat
    BY DivMul
  <1> DEFINE q == a \div r
             p == b \div r
  <1>3. q \in Nat /\ p \in Nat /\ q * r < p * r + r
    BY <1>1, <1>2
  <1> HIDE DEF q, p
  <1>4. p * r + r = (p + 1) * r
    BY <1>3
  <1>5. ~(p + 1 <= q)
    BY <1>3, <1>4
  <1>6. QED
    BY <1>3, <1>5 DEF q, p

(* What buys one unit buys at least one. *)
LEMMA DivPositive ==
  ASSUME NEW a \in Nat, NEW r \in Nat \ {0}, a >= r
  PROVE  a \div r >= 1
  OBVIOUS

LEMMA MulMono ==
  ASSUME NEW m \in Nat, NEW n \in Nat, NEW r \in Nat, m <= n
  PROVE  m * r \in Nat /\ n * r \in Nat /\ m * r <= n * r
  OBVIOUS

LEMMA MulSub ==
  ASSUME NEW m \in Int, NEW n \in Int, NEW r \in Int
  PROVE  (n - m) * r = n * r - m * r /\ n * r \in Int /\ m * r \in Int
  OBVIOUS
=============================================================================
