------------------------- MODULE RateLimiterProofs -------------------------
(***************************************************************************)
(* The two guarantees of a token bucket - no window exceeds burst + rate,  *)
(* and no request is refused that a window had room for - for any burst,   *)
(* rate, number of clients and length of run.                              *)
(***************************************************************************)
EXTENDS RateLimiter, TLAPS

-----------------------------------------------------------------------------
(* Arithmetic of parts.                                                    *)

LEMMA BucketType ==
    ASSUME NEW b \in Buckets
    PROVE  /\ b[1] \in Lanes
           /\ Burst[b[1]] \in Nat \ {0} /\ Rate[b[1]] \in Nat
BY LimiterAssumption DEF Buckets

LEMMA MulType == ASSUME NEW x \in Nat, NEW y \in Nat PROVE x * y \in Nat
OBVIOUS

LEMMA MulAdd ==
    ASSUME NEW x \in Int, NEW y \in Int, NEW z \in Int
    PROVE  (x + y) * z = x * z + y * z /\ x * z \in Int
OBVIOUS

LEMMA AtLeastOnce == ASSUME NEW x \in Nat \ {0}, NEW y \in Nat PROVE x * y >= y
<1>1. x - 1 \in Nat /\ x = (x - 1) + 1
    OBVIOUS
<1>2. (x - 1) * y \in Nat
    BY <1>1, MulType
<1>3. ((x - 1) + 1) * y = (x - 1) * y + 1 * y
    BY <1>1, MulAdd
<1>4. QED
    BY <1>1, <1>2, <1>3

\* A bucket holds at least one token.
LEMMA FullType == ASSUME NEW b \in Buckets PROVE Full(b) \in Nat /\ Full(b) >= Unit
BY BucketType, AtLeastOnce, MulType, LimiterAssumption DEF Full

\* What two stretches of time earn is earned by both together.
LEMMA EarnedAdd ==
    ASSUME NEW b \in Buckets, NEW x \in Int, NEW y \in Int
    PROVE  /\ Earned(b, x) \in Int
           /\ Earned(b, x + y) = Earned(b, x) + Earned(b, y)
BY BucketType, MulAdd DEF Earned

LEMMA EarnedNat ==
    ASSUME NEW b \in Buckets, NEW x \in Nat
    PROVE  Earned(b, x) \in Nat /\ Earned(b, 0) = 0
BY BucketType, MulType DEF Earned

-----------------------------------------------------------------------------
(* The inductive invariant.                                                *)

Capped == \A b \in Buckets : tokens[b] <= Full(b)
Ordered ==
    \A b \in Buckets :
        /\ last_refill[b] <= instant
        /\ \A i \in 1..Len(log[b]) : log[b][i] <= last_refill[b]
FreshEmpty == \A b \in Buckets \ known : log[b] = <<>>
DeniedShort == \A b \in refused : tokens[b] < Unit

IInv ==
    /\ LimiterTypes /\ Capped /\ Ordered /\ FreshEmpty /\ DeniedShort
    /\ TokensExact /\ WindowBound

LEMMA IInit == LimiterInit => IInv
<1> SUFFICES ASSUME LimiterInit PROVE IInv
    OBVIOUS
<1>1. LimiterTypes
    BY DEF LimiterInit, LimiterTypes
<1>2. Capped
    BY FullType, LimiterAssumption DEF LimiterInit, Capped
<1>3. \A b \in Buckets : log[b] = <<>> /\ Len(log[b]) = 0 /\ last_refill[b] = 0
    BY DEF LimiterInit
<1>4. Ordered /\ FreshEmpty /\ DeniedShort /\ TokensExact /\ WindowBound
    BY <1>3 DEF LimiterInit, Ordered, FreshEmpty, DeniedShort, TokensExact, WindowBound
<1>5. QED
    BY <1>1, <1>2, <1>4 DEF IInv

\* What refilling does: never beyond the size, and either all that was earned
\* or a full bucket.
LEMMA RefillFacts ==
    ASSUME IInv, NEW b \in Buckets
    PROVE  /\ Refilled(b) \in Nat /\ Refilled(b) <= Full(b)
           /\ b \in known =>
                /\ Refilled(b) <= tokens[b] + Earned(b, instant - last_refill[b])
                /\ \/ Refilled(b) = tokens[b] + Earned(b, instant - last_refill[b])
                   \/ Refilled(b) = Full(b)
           /\ b \notin known => Refilled(b) = Full(b)
<1>1. Full(b) \in Nat
    BY FullType
<1>2. instant - last_refill[b] \in Nat /\ tokens[b] \in Nat
    BY DEF IInv, LimiterTypes, Ordered
<1>3. Earned(b, instant - last_refill[b]) \in Nat
    BY <1>2, EarnedNat
<1>4. QED
    BY <1>1, <1>2, <1>3 DEF Refilled

\* The bound of TokensExact, carried forward to the time of the check.
LEMMA Carried ==
    ASSUME IInv, NEW b \in known, NEW i \in 1..Len(log[b])
    PROVE  /\ Spent(b, i) \in Int
           /\ Earned(b, instant - log[b][i]) \in Int
           /\ Refilled(b) + Spent(b, i) <= Full(b) + Earned(b, instant - log[b][i])
           /\ /\ tokens[b] + Spent(b, i) = Full(b) + Earned(b, last_refill[b] - log[b][i])
              /\ Refilled(b) = tokens[b] + Earned(b, instant - last_refill[b])
              => Refilled(b) + Spent(b, i) = Full(b) + Earned(b, instant - log[b][i])
<1>1. b \in Buckets /\ instant \in Int /\ last_refill[b] \in Int /\ tokens[b] \in Int
    BY DEF IInv, LimiterTypes
<1>2. log[b][i] \in Int /\ Len(log[b]) \in Nat
    BY <1>1 DEF IInv, LimiterTypes
<1>3. Spent(b, i) \in Int
    BY <1>2, MulAdd, LimiterAssumption DEF Spent
<1>4. instant - log[b][i] = (instant - last_refill[b]) + (last_refill[b] - log[b][i])
    BY <1>1, <1>2
<1>5. /\ instant - last_refill[b] \in Int /\ last_refill[b] - log[b][i] \in Int
      /\ instant - log[b][i] \in Int
    BY <1>1, <1>2
<1> DEFINE x == instant - last_refill[b]
           y == last_refill[b] - log[b][i]
           z == instant - log[b][i]
<1>6. /\ Earned(b, z) = Earned(b, x) + Earned(b, y)
      /\ Earned(b, x) \in Int /\ Earned(b, y) \in Int /\ Earned(b, z) \in Int
    <2> HIDE DEF x, y, z
    <2>1. x \in Int /\ y \in Int /\ z \in Int /\ z = x + y
        BY <1>4, <1>5 DEF x, y, z
    <2>2. Earned(b, x) \in Int /\ Earned(b, x + y) = Earned(b, x) + Earned(b, y)
        BY <1>1, <2>1, EarnedAdd
    <2>3. Earned(b, y) \in Int
        BY <1>1, <2>1, EarnedAdd
    <2>4. Earned(b, z) \in Int
        BY <1>1, <2>1, EarnedAdd
    <2>5. QED
        BY <2>1, <2>2, <2>3, <2>4
<1>7. tokens[b] + Spent(b, i) <= Full(b) + Earned(b, last_refill[b] - log[b][i])
    BY DEF IInv, TokensExact
<1>8. /\ Full(b) \in Int /\ Refilled(b) \in Int
      /\ Refilled(b) <= tokens[b] + Earned(b, instant - last_refill[b])
    BY <1>1, FullType, RefillFacts
<1>9. /\ Refilled(b) + Spent(b, i) <= Full(b) + (Earned(b, x) + Earned(b, y))
      /\ tokens[b] + Spent(b, i) = Full(b) + Earned(b, y) /\ Refilled(b) = tokens[b] + Earned(b, x)
         => Refilled(b) + Spent(b, i) = Full(b) + (Earned(b, x) + Earned(b, y))
    <2> HIDE DEF x, y, z
    <2>1. tokens[b] + Spent(b, i) <= Full(b) + Earned(b, y)
        BY <1>7 DEF y
    <2>2. Refilled(b) <= tokens[b] + Earned(b, x)
        BY <1>8 DEF x
    <2>3. QED
        <3> DEFINE t == tokens[b]
                   s == Spent(b, i)
                   f == Full(b)
                   r == Refilled(b)
                   ex == Earned(b, x)
                   ey == Earned(b, y)
        <3>1. t \in Int /\ s \in Int /\ f \in Int /\ r \in Int /\ ex \in Int /\ ey \in Int
            BY <1>1, <1>3, <1>6, <1>8
        <3>2. t + s <= f + ey /\ r <= t + ex
            BY <2>1, <2>2
        <3> HIDE DEF t, s, f, r, ex, ey
        <3>3. r + s <= f + (ex + ey) /\ (t + s = f + ey /\ r = t + ex => r + s = f + (ex + ey))
            BY <3>1, <3>2
        <3>4. QED
            BY <3>3 DEF t, s, f, r, ex, ey
<1>10. QED
    BY <1>3, <1>6, <1>9

-----------------------------------------------------------------------------
(* One bucket at a time.                                                   *)

Exact(b) ==
    /\ \A i \in 1..Len(log[b]) :
        tokens[b] + Spent(b, i) <= Full(b) + Earned(b, last_refill[b] - log[b][i])
    /\ \E i \in 1..Len(log[b]) :
        tokens[b] + Spent(b, i) = Full(b) + Earned(b, last_refill[b] - log[b][i])
Windows(b) ==
    \A i \in 1..Len(log[b]) : \A j \in i..Len(log[b]) :
        (j - i + 1) * Unit <= Full(b) + Earned(b, log[b][j] - log[b][i])

\* A bucket a step does not touch keeps what is known of it.
LEMMA Untouched ==
    ASSUME IInv, NEW b \in Buckets,
           tokens'[b] = tokens[b], last_refill'[b] = last_refill[b], log'[b] = log[b]
    PROVE  (b \in known => Exact(b)') /\ Windows(b)'
<1>1. \A i \in Int : Spent(b, i)' = Spent(b, i)
    BY DEF Spent
<1>2. \A x \in Int : Earned(b, x)' = Earned(b, x) /\ Full(b)' = Full(b)
    BY DEF Earned, Full
<1>3. (b \in known => Exact(b)) /\ Windows(b)
    BY DEF IInv, TokensExact, WindowBound, Exact, Windows
<1>4. QED
    BY <1>3 DEF Exact, Windows, Spent, Earned, Full

\* Letting a request through keeps the tokens exact.
LEMMA AllowExact ==
    ASSUME IInv, NEW b \in Buckets, Enough(b),
           tokens'[b] = Refilled(b) - Unit, last_refill'[b] = instant,
           log'[b] = Append(log[b], instant)
    PROVE  Exact(b)' /\ Windows(b)' /\ tokens'[b] \in Nat /\ tokens'[b] <= Full(b)
<1> DEFINE n == Len(log[b])
<1>1. /\ n \in Nat /\ instant \in Nat /\ log[b] \in Seq(Nat)
      /\ Unit \in Nat \ {0} /\ Full(b) \in Nat /\ Refilled(b) \in Nat
      /\ Refilled(b) <= Full(b) /\ Refilled(b) >= Unit
    BY FullType, RefillFacts, LimiterAssumption DEF IInv, LimiterTypes, Enough
<1>2. /\ Len(log'[b]) = n + 1 /\ log'[b][n + 1] = instant
      /\ \A i \in 1..n : log'[b][i] = log[b][i] /\ log[b][i] \in Nat
    <2> DEFINE s == log[b]
               t == Append(s, instant)
    <2>1. s \in Seq(Nat) /\ instant \in Nat /\ t = log'[b]
        BY <1>1
    <2> HIDE DEF s
    <2>2. Len(t) = Len(s) + 1 /\ t[Len(s) + 1] = instant
        BY <2>1
    <2>3. \A i \in 1..Len(s) : t[i] = s[i] /\ s[i] \in Nat
        BY <2>1
    <2>4. QED
        BY <2>1, <2>2, <2>3 DEF s
<1>3. ASSUME NEW i \in 1..n
      PROVE  /\ Spent(b, i) \in Int
             /\ (Len(log'[b]) - i + 1) * Unit = Spent(b, i) + Unit
    <2> DEFINE m == n - i + 1
    <2>1. Len(log'[b]) - i + 1 = m + 1 /\ m \in Int /\ Unit \in Int
        BY <1>1, <1>2
    <2>2. Spent(b, i) = m * Unit
        BY DEF Spent
    <2> HIDE DEF m
    <2>3. (m + 1) * Unit = m * Unit + 1 * Unit /\ m * Unit \in Int
        BY <2>1, MulAdd
    <2>4. 1 * Unit = Unit
        BY <2>1
    <2>5. QED
        BY <2>1, <2>2, <2>3, <2>4
<1>4. tokens'[b] \in Nat /\ tokens'[b] <= Full(b)
    BY <1>1
<1>5. ASSUME NEW i \in 1..n
      PROVE  tokens'[b] + (Len(log'[b]) - i + 1) * Unit
                <= Full(b) + Earned(b, instant - log[b][i])
    <2>1. b \in known
        BY <1>1 DEF IInv, FreshEmpty
    <2>2. /\ Refilled(b) + Spent(b, i) <= Full(b) + Earned(b, instant - log[b][i])
          /\ Earned(b, instant - log[b][i]) \in Int
        BY <2>1, Carried
    <2>3. tokens'[b] + (Len(log'[b]) - i + 1) * Unit = Refilled(b) + Spent(b, i)
        BY <1>1, <1>3
    <2>4. QED
        BY <2>2, <2>3
<1>6. /\ (Len(log'[b]) - (n + 1) + 1) * Unit = Unit
      /\ instant - instant = 0 /\ Earned(b, instant - instant) = 0
      /\ tokens'[b] + Unit = Refilled(b)
    BY <1>1, <1>2, EarnedNat
<1>7. \A i \in 1..(n + 1) :
        tokens'[b] + (Len(log'[b]) - i + 1) * Unit <= Full(b) + Earned(b, instant - log'[b][i])
    <2> SUFFICES ASSUME NEW i \in 1..(n + 1)
                 PROVE  tokens'[b] + (Len(log'[b]) - i + 1) * Unit
                            <= Full(b) + Earned(b, instant - log'[b][i])
        OBVIOUS
    <2>1. CASE i \in 1..n
        BY <1>2, <1>5, <2>1
    <2>2. CASE i = n + 1
        BY <1>1, <1>2, <1>6, <2>2
    <2>3. QED
        BY <1>1, <2>1, <2>2
<1>8. \E i \in 1..(n + 1) :
        tokens'[b] + (Len(log'[b]) - i + 1) * Unit = Full(b) + Earned(b, instant - log'[b][i])
    <2>1. CASE Refilled(b) = Full(b)
        <3>1. n + 1 \in 1..(n + 1)
            BY <1>1
        <3>2. tokens'[b] + (Len(log'[b]) - (n + 1) + 1) * Unit
                = Full(b) + Earned(b, instant - log'[b][n + 1])
            BY <1>1, <1>2, <1>6, <2>1
        <3>3. QED
            BY <3>1, <3>2
    <2>2. CASE Refilled(b) # Full(b)
        <3>1. b \in known /\ Refilled(b) = tokens[b] + Earned(b, instant - last_refill[b])
            BY <2>2, RefillFacts
        <3>2. PICK i \in 1..n :
                tokens[b] + Spent(b, i) = Full(b) + Earned(b, last_refill[b] - log[b][i])
            BY <3>1 DEF IInv, TokensExact
        <3>3. Refilled(b) + Spent(b, i) = Full(b) + Earned(b, instant - log[b][i])
            BY <3>1, <3>2, Carried
        <3>4. tokens'[b] + (Len(log'[b]) - i + 1) * Unit = Refilled(b) + Spent(b, i)
            BY <1>1, <1>3
        <3>5. i \in 1..(n + 1)
            BY <1>1
        <3>6. QED
            BY <1>2, <3>3, <3>4, <3>5
    <2>3. QED
        BY <2>1, <2>2
<1>9. Exact(b)'
    BY <1>2, <1>7, <1>8 DEF Exact, Spent, Earned, Full
<1>10. Windows(b)'
    <2> SUFFICES ASSUME NEW i \in 1..(n + 1), NEW j \in i..(n + 1)
                 PROVE  (j - i + 1) * Unit <= Full(b) + Earned(b, log'[b][j] - log'[b][i])
        BY <1>2 DEF Windows, Earned, Full
    <2>1. CASE j = n + 1
        <3>1. /\ log'[b][j] = instant
              /\ tokens'[b] + (j - i + 1) * Unit <= Full(b) + Earned(b, instant - log'[b][i])
            BY <1>2, <1>7, <2>1
        <3>2. (j - i + 1) * Unit \in Int
            BY <1>1, MulAdd
        <3>3. instant - log'[b][i] \in Int
            BY <1>1, <1>2, SMTT(30)
        <3>4. Earned(b, instant - log'[b][i]) \in Int
            BY <3>3, EarnedAdd
        <3> DEFINE u == (j - i + 1) * Unit
                   e == Earned(b, instant - log'[b][i])
        <3>5. /\ u \in Int /\ e \in Int /\ tokens'[b] \in Nat /\ Full(b) \in Nat
              /\ tokens'[b] + u <= Full(b) + e
            BY <1>1, <1>4, <3>1, <3>2, <3>4
        <3> HIDE DEF u, e
        <3>6. u <= Full(b) + e
            BY <3>5
        <3>7. QED
            BY <3>1, <3>6 DEF u, e
    <2>2. CASE j \in i..n
        <3>1. i \in 1..n /\ j \in 1..n
            BY <1>1, <2>2
        <3>2. (j - i + 1) * Unit <= Full(b) + Earned(b, log[b][j] - log[b][i])
            BY <2>2, <3>1 DEF IInv, WindowBound
        <3>3. QED
            BY <1>2, <3>1, <3>2
    <2>3. j = n + 1 \/ j \in i..n
        <3> HIDE DEF n
        <3>1. QED
            BY <1>1
    <2>4. QED
        BY <2>1, <2>2, <2>3
<1>11. QED
    BY <1>4, <1>9, <1>10

\* So does turning one away: the bucket was not full, hence not capped.
LEMMA DenyExact ==
    ASSUME IInv, NEW b \in Buckets, ~Enough(b),
           tokens'[b] = Refilled(b), last_refill'[b] = instant, log'[b] = log[b]
    PROVE  /\ Exact(b)' /\ Windows(b)'
           /\ tokens'[b] \in Nat /\ tokens'[b] <= Full(b) /\ tokens'[b] < Unit
<1>1. /\ Refilled(b) \in Nat /\ Refilled(b) <= Full(b) /\ Full(b) >= Unit
      /\ Unit \in Nat /\ Full(b) \in Nat
    BY FullType, RefillFacts, LimiterAssumption
<1>2. tokens'[b] \in Nat /\ tokens'[b] <= Full(b) /\ tokens'[b] < Unit
    BY <1>1 DEF Enough
<1>3. b \in known /\ Refilled(b) = tokens[b] + Earned(b, instant - last_refill[b])
    BY <1>1, RefillFacts DEF Enough
<1>4. \A i \in 1..Len(log[b]) :
        Refilled(b) + Spent(b, i) <= Full(b) + Earned(b, instant - log[b][i])
    BY <1>3, Carried
<1>5. PICK i \in 1..Len(log[b]) :
        tokens[b] + Spent(b, i) = Full(b) + Earned(b, last_refill[b] - log[b][i])
    BY <1>3 DEF IInv, TokensExact
<1>6. Refilled(b) + Spent(b, i) = Full(b) + Earned(b, instant - log[b][i])
    BY <1>3, <1>5, Carried
<1>7. Exact(b)'
    BY <1>4, <1>6 DEF Exact, Spent, Earned, Full
<1>8. Windows(b)
    BY DEF IInv, WindowBound, Windows
<1>9. Windows(b)'
    BY <1>8 DEF Windows, Earned, Full
<1>10. QED
    BY <1>2, <1>7, <1>9

LEMMA CheckStep == ASSUME IInv, NEW b \in Buckets, check(b) PROVE IInv'
<1>0. /\ LimiterTypes /\ Capped /\ Ordered /\ FreshEmpty /\ DeniedShort
      /\ known' = known \cup {b} /\ instant' = instant
    BY DEF IInv, check
<1>1. /\ Exact(b)' /\ Windows(b)' /\ tokens'[b] \in Nat /\ tokens'[b] <= Full(b)
      /\ b \in refused' => tokens'[b] < Unit
    <2>1. CASE Allow(b)
        <3>1. /\ tokens'[b] = Refilled(b) - Unit /\ last_refill'[b] = instant
              /\ log'[b] = Append(log[b], instant) /\ b \notin refused' /\ Enough(b)
            BY <1>0, <2>1 DEF check, Allow, LimiterTypes
        <3>2. QED
            BY <3>1, AllowExact
    <2>2. CASE Deny(b)
        <3>1. /\ tokens'[b] = Refilled(b) /\ last_refill'[b] = instant
              /\ log'[b] = log[b] /\ ~Enough(b)
            BY <1>0, <2>2 DEF check, Deny, AfterDeny, LimiterTypes
        <3>2. QED
            BY <3>1, DenyExact
    <2>3. QED
        BY <2>1, <2>2 DEF check
<1>2. ASSUME NEW c \in Buckets, c # b
      PROVE  /\ tokens'[c] = tokens[c] /\ last_refill'[c] = last_refill[c]
             /\ log'[c] = log[c] /\ (c \in refused' <=> c \in refused)
    BY <1>0, <1>2 DEF check, Allow, Deny, LimiterTypes
<1>3. LimiterTypes'
    <2>1. log' \in [Buckets -> Seq(Nat)]
        <3>1. instant \in Nat /\ log \in [Buckets -> Seq(Nat)]
            BY <1>0 DEF LimiterTypes
        <3>2. Append(log[b], instant) \in Seq(Nat)
            BY <3>1
        <3>3. log' = log \/ log' = [log EXCEPT ![b] = Append(log[b], instant)]
            BY <3>1 DEF check, Allow, Deny
        <3>4. QED
            BY <3>1, <3>2, <3>3
    <2>2. /\ \A c \in Buckets : tokens'[c] \in Nat
          /\ tokens' = [c \in Buckets |-> tokens'[c]]
        BY <1>0, <1>1, <1>2 DEF check, Allow, Deny, LimiterTypes
    <2>3. tokens' \in [Buckets -> Nat]
        BY <2>2
    <2>4. refused' \subseteq known' /\ known' \subseteq Buckets
        BY <1>0 DEF check, Allow, Deny, LimiterTypes
    <2>5. last_refill' \in [Buckets -> Nat] /\ instant' \in Nat
        BY <1>0 DEF check, LimiterTypes
    <2>6. QED
        BY <2>1, <2>3, <2>4, <2>5 DEF LimiterTypes
<1>4. Capped'
    <2>1. \A c \in Buckets : tokens'[c] <= Full(c)
        BY <1>0, <1>1, <1>2 DEF Capped
    <2>2. QED
        BY <2>1 DEF Capped, Full
<1>5. Ordered'
    <2> SUFFICES ASSUME NEW c \in Buckets
                 PROVE  /\ last_refill'[c] <= instant
                        /\ \A i \in 1..Len(log'[c]) : log'[c][i] <= last_refill'[c]
        BY <1>0 DEF Ordered
    <2>1. CASE c # b
        BY <1>0, <1>2, <2>1 DEF Ordered
    <2>2. CASE c = b
        <3>1. last_refill'[b] = instant /\ instant \in Nat /\ log[b] \in Seq(Nat)
            BY <1>0 DEF check, LimiterTypes
        <3>2. \A i \in 1..Len(log[b]) : log[b][i] <= instant
            <4> SUFFICES ASSUME NEW i \in 1..Len(log[b]) PROVE log[b][i] <= instant
                OBVIOUS
            <4>1. log[b][i] <= last_refill[b] /\ last_refill[b] <= instant
                BY <1>0 DEF Ordered
            <4>2. log[b][i] \in Nat /\ last_refill[b] \in Nat /\ instant \in Nat
                BY <1>0, <3>1 DEF LimiterTypes
            <4>3. QED
                BY <4>1, <4>2
        <3>3. log'[b] = log[b] \/ log'[b] = Append(log[b], instant)
            BY <1>0 DEF check, Allow, Deny, LimiterTypes
        <3>4. \A i \in 1..Len(log'[b]) : log'[b][i] <= instant
            <4>1. CASE log'[b] = log[b]
                BY <3>2, <4>1
            <4>2. CASE log'[b] = Append(log[b], instant)
                <5> DEFINE s == log[b]
                           t == Append(s, instant)
                <5> HIDE DEF s
                <5>1. s \in Seq(Nat) /\ \A i \in 1..Len(s) : s[i] <= instant
                    BY <3>1, <3>2 DEF s
                <5>2. \A i \in 1..Len(t) : t[i] <= instant
                    BY <3>1, <5>1
                <5>3. QED
                    BY <4>2, <5>2 DEF s
            <4>3. QED
                BY <3>3, <4>1, <4>2
        <3>5. QED
            BY <2>2, <3>1, <3>4
    <2>3. QED
        BY <2>1, <2>2
<1>6. FreshEmpty'
    BY <1>0, <1>2 DEF FreshEmpty
<1>7. DeniedShort'
    <2>1. refused' \subseteq Buckets
        BY <1>3 DEF LimiterTypes
    <2>2. QED
        BY <1>0, <1>1, <1>2, <2>1 DEF DeniedShort
<1>8. \A c \in Buckets : (c \in known' => Exact(c)') /\ Windows(c)'
    <2> SUFFICES ASSUME NEW c \in Buckets
                 PROVE  (c \in known' => Exact(c)') /\ Windows(c)'
        OBVIOUS
    <2>1. CASE c = b
        BY <1>1, <2>1
    <2>2. CASE c # b
        <3>1. (c \in known => Exact(c)') /\ Windows(c)'
            BY <1>2, <2>2, Untouched
        <3>2. QED
            BY <1>0, <2>2, <3>1
    <2>3. QED
        BY <2>1, <2>2
<1>9. TokensExact' /\ WindowBound'
    <2>1. known' \subseteq Buckets
        BY <1>3 DEF LimiterTypes
    <2>2. QED
        BY <1>8, <2>1 DEF TokensExact, Exact, WindowBound, Windows
<1>10. QED
    BY <1>3, <1>4, <1>5, <1>6, <1>7, <1>9 DEF IInv

LEMMA IStep == IInv /\ [LimiterNext]_limiterVars => IInv'
<1> SUFFICES ASSUME IInv, [LimiterNext]_limiterVars PROVE IInv'
    OBVIOUS
<1>1. CASE Elapse
    <2>1. LimiterTypes' /\ Capped' /\ FreshEmpty' /\ DeniedShort'
        BY <1>1 DEF Elapse, IInv, LimiterTypes, Capped, Full, FreshEmpty, DeniedShort
    <2>2. Ordered'
        BY <1>1 DEF Elapse, IInv, LimiterTypes, Ordered
    <2>3. \A b \in Buckets : (b \in known => Exact(b)') /\ Windows(b)'
        BY <1>1, Untouched DEF Elapse
    <2>4. TokensExact' /\ WindowBound'
        BY <1>1, <2>3 DEF Elapse, IInv, LimiterTypes, TokensExact, Exact, WindowBound, Windows
    <2>5. QED
        BY <2>1, <2>2, <2>4 DEF IInv
<1>2. ASSUME NEW m \in Methods, NEW c \in Clients, NEW r \in Routes,
             check(<<LaneOf(m), c, r>>)
      PROVE  IInv'
    <2>1. <<LaneOf(m), c, r>> \in Buckets
        BY DEF LaneOf, Buckets, Lanes
    <2>2. QED
        BY <1>2, <2>1, CheckStep
<1>3. CASE UNCHANGED limiterVars
    BY <1>3 DEF limiterVars, IInv, LimiterTypes, Capped, Full, Ordered, FreshEmpty, DeniedShort,
        TokensExact, Spent, Earned, WindowBound
<1>4. QED
    BY <1>1, <1>2, <1>3 DEF LimiterNext

-----------------------------------------------------------------------------
\* The tokens of a bucket are exactly what the tightest window leaves.
THEOREM TokenAccounting == LimiterSpec => []TokensExact
<1>1. IInv => TokensExact
    BY DEF IInv
<1>2. QED
    BY <1>1, IInit, IStep, PTL DEF LimiterSpec

\* The rate limit holds over every window of every bucket.
THEOREM RateLimitHolds == LimiterSpec => []WindowBound
<1>1. IInv => WindowBound
    BY DEF IInv
<1>2. QED
    BY <1>1, IInit, IStep, PTL DEF LimiterSpec

\* A refusal is always due: some window had no room for one request more.
THEOREM DenialsAreDue == LimiterSpec => []NoSpuriousDenial
<1>1. IInv => NoSpuriousDenial
    <2> SUFFICES ASSUME IInv, NEW b \in refused
                 PROVE  \E i \in 1..Len(log[b]) :
                    Spent(b, i) + Unit > Full(b) + Earned(b, last_refill[b] - log[b][i])
        BY DEF NoSpuriousDenial
    <2>1. b \in known /\ b \in Buckets /\ tokens[b] < Unit /\ tokens[b] \in Nat
        BY DEF IInv, LimiterTypes, DeniedShort
    <2>2. PICK i \in 1..Len(log[b]) :
            tokens[b] + Spent(b, i) = Full(b) + Earned(b, last_refill[b] - log[b][i])
        BY <2>1 DEF IInv, TokensExact
    <2>3. Spent(b, i) \in Int
        BY <2>1, Carried
    <2> DEFINE rhs == Full(b) + Earned(b, last_refill[b] - log[b][i])
    <2>4. tokens[b] + Spent(b, i) = rhs
        BY <2>2
    <2> HIDE DEF rhs
    <2>5. Spent(b, i) + Unit > rhs
        BY <2>1, <2>3, <2>4, LimiterAssumption
    <2>6. QED
        BY <2>5 DEF rhs
<1>2. QED
    BY <1>1, IInit, IStep, PTL DEF LimiterSpec
=============================================================================
