--------------------------- MODULE FirmwareProofs ---------------------------
(***************************************************************************)
(* Proofs about Firmware for any number of units, commands and cycles that *)
(* leave the margin the firmware relies on.                                *)
(*                                                                         *)
(* The state of the accelerator only tells how far a command is.  The      *)
(* invariants speak of a clock besides: now is the cycle, at[n] the cycle  *)
(* of the execute of command n, len[n] how many cycles the command takes.  *)
(***************************************************************************)
EXTENDS Firmware, Induction

-----------------------------------------------------------------------------
(* Units.  Command n goes to unit n % ACCEL_UNITS.                          *)

LEMMA UnitOf ==
    ASSUME NEW n \in Nat
    PROVE  /\ n % ACCEL_UNITS \in Units /\ n - (n % ACCEL_UNITS) \in Nat
           /\ (n + ACCEL_UNITS) % ACCEL_UNITS = n % ACCEL_UNITS
           /\ (n + 1) % ACCEL_UNITS = IF n % ACCEL_UNITS = ACCEL_UNITS - 1 THEN 0
                                      ELSE (n % ACCEL_UNITS) + 1
           /\ n < ACCEL_UNITS => n % ACCEL_UNITS = n
           /\ n % ACCEL_UNITS = 0 /\ n > 0 => n >= ACCEL_UNITS
<1>1. ACCEL_UNITS \in Nat \ {0}
  BY FirmwareAssumption
<1>2. /\ n % ACCEL_UNITS \in 0 .. ACCEL_UNITS - 1 /\ n - (n % ACCEL_UNITS) \in Nat
  BY <1>1, Division
<1>3. /\ (n + ACCEL_UNITS) % ACCEL_UNITS = n % ACCEL_UNITS
      /\ (n + 1) % ACCEL_UNITS = IF n % ACCEL_UNITS = ACCEL_UNITS - 1 THEN 0
                                 ELSE (n % ACCEL_UNITS) + 1
  BY <1>1, NextRemainder, RemainderPlus
<1>4. n < ACCEL_UNITS => n % ACCEL_UNITS = n
  <2>1. ASSUME n < ACCEL_UNITS PROVE n % ACCEL_UNITS = n
    <3>1. n \in 0 .. ACCEL_UNITS - 1 /\ 0 * ACCEL_UNITS + n = n
      BY <1>1, <2>1
    <3>2. (0 * ACCEL_UNITS + n) % ACCEL_UNITS = n
      BY <1>1, <3>1, Remainder
    <3>3. QED
      BY <3>1, <3>2
  <2>2. QED
    BY <2>1
<1>5. QED
  BY <1>1, <1>2, <1>3, <1>4 DEF Units

LEMMA SmallRemainder ==
    ASSUME NEW n \in Nat \ {0}, NEW a \in Nat, a < n
    PROVE  a % n = a
<1>1. PICK q \in Nat : q = 0
  OBVIOUS
<1>2. a \in 0 .. n - 1 /\ q * n + a = a
  BY <1>1
<1>3. (q * n + a) % n = a
  BY <1>2, Remainder
<1>4. QED
  BY <1>2, <1>3

\* Commands less than ACCEL_UNITS apart go to different units.
LEMMA UnitsApart ==
    ASSUME NEW m \in Nat, NEW n \in Nat, m < n, n < m + ACCEL_UNITS
    PROVE  m % ACCEL_UNITS # n % ACCEL_UNITS
<1>1. PICK U \in Nat \ {0} : U = ACCEL_UNITS
  BY FirmwareAssumption
<1>2. PICK q \in Nat, r \in 0 .. U - 1 : m = q * U + r /\ r = m % U
  BY Division
<1>3. PICK d \in 1 .. U - 1 : n = m + d
  <2>1. n - m \in 1 .. U - 1 /\ n = m + (n - m)
    BY <1>1
  <2>2. QED
    BY <2>1
<1>4. CASE r + d <= U - 1
  <2>0. PICK p \in Nat : p = q * U
    OBVIOUS
  <2>a. m = p + r
    BY <1>2, <2>0
  <2>b. n = p + (r + d) /\ r + d \in 0 .. U - 1
    BY <1>3, <1>4, <2>a
  <2>1. n = q * U + (r + d) /\ r + d \in 0 .. U - 1
    BY <2>0, <2>b
  <2>2. (q * U + (r + d)) % U = r + d
    BY <2>1, Remainder
  <2>3. QED
    BY <1>1, <1>2, <1>3, <2>1, <2>2
<1>5. CASE r + d > U - 1
  <2>1. PICK p \in Nat, s \in 0 .. U - 1 : p = q * U /\ s = r + d - U
    <3>1. q * U \in Nat /\ r + d - U \in 0 .. U - 1
      BY <1>5
    <3>2. QED
      BY <3>1
  <2>2. PICK k \in Nat : k = q + 1
    OBVIOUS
  <2>3. k * U = p + U
    BY <2>1, <2>2
  <2>4. m = p + r
    BY <1>2, <2>1
  <2>5. n = k * U + s
    BY <1>3, <2>1, <2>3, <2>4
  <2>6. (k * U + s) % U = s
    BY Remainder
  <2>7. QED
    BY <1>1, <1>2, <1>3, <2>1, <2>5, <2>6
<1>6. QED
  BY <1>4, <1>5

\* A unit that had a command has a last one.
LEMMA LastOfUnit ==
    ASSUME NEW u \in Units, NEW k \in Nat, u < k
    PROVE  \E n \in 0 .. k - 1 : n + ACCEL_UNITS >= k /\ n % ACCEL_UNITS = u
<1>1. PICK U \in Nat \ {0} : U = ACCEL_UNITS
  BY FirmwareAssumption
<1>2. u \in 0 .. U - 1
  BY <1>1 DEF Units
<1>3. PICK x \in Nat : x = k - 1 - u
  BY <1>2
<1>4. PICK q \in Nat, r \in 0 .. U - 1 : x = q * U + r
  BY Division
<1>5. PICK n \in Nat : n = q * U + u
  <2>1. q * U + u \in Nat
    BY <1>2
  <2>2. QED
    BY <2>1
<1>6. n % U = u
  BY <1>2, <1>5, Remainder
<1>7. n = k - 1 - r
  BY <1>2, <1>3, <1>4, <1>5
<1>8. QED
  BY <1>1, <1>4, <1>6, <1>7
-----------------------------------------------------------------------------
(* The invariant.                                                           *)

FirmwareTypes ==
    /\ pc \in {"poll", "head", "ptrs", "stat", "exec", "drain", "print"}
    /\ i \in 0 .. Commands
    /\ gap \in 1 .. MaxGap
    /\ command = [unit |-> command.unit, ptrs |-> command.ptrs]
    /\ exec \in BOOLEAN
    /\ phase \in [Units -> {"idle", "run", "done"}]
    /\ left \in [Units -> Nat]
    /\ ptrs = [u \in Units |-> ptrs[u]]
    /\ busy_map \subseteq Units

\* Where the firmware is in its loop, and what it has loaded so far.
Loaded ==
    /\ pc \in {"poll", "head", "ptrs", "stat", "exec"} => i < Commands
    /\ pc \in {"drain", "print"} => i = Commands
    /\ pc = "poll" => i % ACCEL_UNITS = 0
    /\ pc \in {"ptrs", "stat", "exec"} => command.unit = i % ACCEL_UNITS
    /\ pc \in {"stat", "exec"} => command.ptrs = Pointers(i)

\* The operations of a command before this one, each of them so many cycles.
Ahead(cycles) ==
    CASE pc = "ptrs" -> cycles
      [] pc = "stat" -> 2 * cycles
      [] pc = "exec" -> 3 * cycles
      [] OTHER -> 0

\* How long ago the last command was executed.  A command for unit 0 has a
\* poll before it, which saw that the unit was through with its last one.
Pace(now, at, len) ==
    /\ i > 0 => at[i - 1] + gap <= now
    /\ i > 0 /\ pc \in {"head", "ptrs", "stat", "exec"} =>
          IF i % ACCEL_UNITS = 0
          THEN /\ at[i - 1] + MinGap + Ahead(MinGap) + gap <= now
               /\ at[i - ACCEL_UNITS] + len[i - ACCEL_UNITS] + 4 + Ahead(MinGap) + gap <= now
          ELSE /\ at[i - 1] + Ahead(MinGap) + gap <= now
               /\ now <= at[i - 1] + Ahead(MaxGap) + gap

\* The execute of the last command has reached the register and no further.
Waiting(now, at) ==
    /\ exec <=> i > 0 /\ now = at[i - 1] + 1
    /\ exec => command = [unit |-> (i - 1) % ACCEL_UNITS, ptrs |-> Pointers(i - 1)]

\* The executes of k commands: four bus operations are between two of them,
\* and no more within a round of the units.
Order(k, at) == \A m, n \in 0 .. k - 1 : m < n => at[m] + 4 * MinGap <= at[n]

InRound(n, r, at, len) ==
    /\ at[n - r] + r * (4 * MinGap) <= at[n]
    /\ at[n] <= at[n - r] + r * (4 * MaxGap)
    /\ r = 0 /\ n >= ACCEL_UNITS =>
          at[n - ACCEL_UNITS] + len[n - ACCEL_UNITS] + 4 + 4 * MinGap <= at[n]

Rounds(k, at, len) == \A n \in 0 .. k - 1 : InRound(n, n % ACCEL_UNITS, at, len)

\* How far unit u is with command n, executed in cycle s and l cycles long.
Stage(u, n, now, s, l) ==
    /\ now = s + 1 => phase[u] = "idle"
    /\ s + 2 <= now /\ now <= s + l + 1 => phase[u] = "run" /\ left[u] + now = s + l + 1
    /\ now = s + l + 2 => phase[u] = "done"
    /\ now = s + l + 3 => phase[u] = "idle" \/ (phase[u] = "done" /\ ~exec)
    /\ now >= s + l + 4 => phase[u] = "idle"
    /\ s + 2 <= now /\ phase[u] # "idle" => ptrs[u] = Pointers(n)
    /\ s + 3 <= now /\ now <= s + l + 3 => u \in busy_map

\* The last command of each unit.
Stages(now, at, len) ==
    /\ \A u \in Units : u >= i => phase[u] = "idle"
    /\ \A n \in 0 .. i - 1 : n + ACCEL_UNITS >= i => Stage(n % ACCEL_UNITS, n, now, at[n], len[n])

Clock(now, at, len) ==
    /\ now \in Nat
    /\ at \in [Nat -> Nat]
    /\ len \in [Nat -> MinCycles .. MaxCycles]

Timed(now, at, len) ==
    /\ Clock(now, at, len)
    /\ Pace(now, at, len)
    /\ Waiting(now, at)
    /\ Order(i, at)
    /\ Rounds(i, at, len)
    /\ Stages(now, at, len)

FirmwareInv ==
    /\ FirmwareTypes
    /\ Loaded
    /\ dropped = {}
    /\ \E now, at, len : Timed(now, at, len)

\* A command is stored, or on its way.
Stored(now, at) ==
    /\ memory = [c \in ptr_c_addr .. ptr_c_addr + Commands - 1 |-> memory[c]]
    /\ \A n \in 0 .. i - 1 :
          \/ memory[ptr_c_addr + n] = Product(n \div cw, n % cw)
          \/ n + ACCEL_UNITS >= i /\ (now = at[n] + 1 \/ phase[n % ACCEL_UNITS] # "idle")
-----------------------------------------------------------------------------
(* Time.                                                                    *)

\* The margin is enough for each unit.
LEMMA RoundMargin ==
    ASSUME Margin, NEW r \in Units
    PROVE  /\ r * (4 * MinGap) \in Nat /\ r * (4 * MaxGap) \in Nat
           /\ MaxCycles + r * (4 * MaxGap) <= MinCycles + r * (4 * MinGap) + 4 * MinGap + 1
<1>1. PICK d \in Nat, U \in Nat \ {0} : MaxGap = MinGap + d /\ U = ACCEL_UNITS
  <2>1. MaxGap - MinGap \in Nat /\ MaxGap = MinGap + (MaxGap - MinGap) /\ ACCEL_UNITS \in Nat \ {0}
    BY FirmwareAssumption
  <2>2. QED
    BY <2>1
<1>2. PICK s \in Nat : U - 1 = r + s
  <2>1. U - 1 - r \in Nat /\ U - 1 = r + (U - 1 - r)
    BY <1>1 DEF Units
  <2>2. QED
    BY <2>1
<1>3. r \in Nat /\ MinGap \in Nat /\ MaxGap \in Nat /\ MinCycles \in Nat /\ MaxCycles \in Nat
  BY FirmwareAssumption DEF Units
<1>4. PICK a \in Nat, b \in Nat, c \in Nat : a = r * MinGap /\ b = r * d /\ c = s * d
  <2>1. r * MinGap \in Nat /\ r * d \in Nat /\ s * d \in Nat
    BY <1>3
  <2>2. QED
    BY <2>1
<1>5. (ACCEL_UNITS - 1) * (MaxGap - MinGap) = b + c
  <2>1. MaxGap - MinGap = d
    BY <1>1, <1>3
  <2>2. (r + s) * d = r * d + s * d
    BY <1>3
  <2>3. QED
    BY <1>1, <1>2, <1>4, <2>1, <2>2
<1>6. r * (4 * MinGap) = 4 * a
  BY <1>3, <1>4
<1>7. r * (4 * MaxGap) = 4 * a + 4 * b
  <2>1. r * (4 * (MinGap + d)) = 4 * (r * MinGap) + 4 * (r * d)
    BY <1>3
  <2>2. QED
    BY <1>1, <1>4, <2>1
<1>8. MaxCycles + 4 * (b + c) <= MinCycles + 4 * MinGap + 1
  BY <1>5 DEF Margin
<1>9. QED
  BY <1>3, <1>4, <1>6, <1>7, <1>8

\* The first command of a round is for unit 0.
LEMMA RoundStart ==
    ASSUME NEW n \in Nat, NEW r \in Units, r = n % ACCEL_UNITS
    PROVE  /\ n - r \in Nat /\ (n - r) % ACCEL_UNITS = 0
           /\ n >= ACCEL_UNITS => n - r >= ACCEL_UNITS
<1>1. PICK U \in Nat \ {0} : U = ACCEL_UNITS
  BY FirmwareAssumption
<1>2. PICK q \in Nat, s \in 0 .. U - 1 : n = q * U + s /\ s = n % U
  BY Division
<1>3. PICK p \in Nat : p = q * U
  OBVIOUS
<1>4. n = p + r /\ p = n - r /\ r \in 0 .. U - 1
  BY <1>1, <1>2, <1>3
<1>5. (q * U + 0) % U = 0
  BY Remainder
<1>6. q * U + 0 = p
  BY <1>3
<1>7. p % U = 0
  BY <1>5, <1>6
<1>8. p > 0 => p >= ACCEL_UNITS
  BY <1>1, <1>7, UnitOf
<1>9. n >= ACCEL_UNITS => p > 0
  BY <1>1, <1>4
<1>10. n - r = p /\ p % ACCEL_UNITS = 0
  BY <1>1, <1>4, <1>7
<1>11. QED
  BY <1>8, <1>9, <1>10

\* When a unit is given a command, its last one is stored.
LEMMA NextUse ==
    ASSUME Margin, NEW now, NEW at, NEW len, Clock(now, at, len), NEW k \in Nat, Rounds(k, at, len),
           NEW n \in 0 .. k - 1, n >= ACCEL_UNITS
    PROVE  at[n - ACCEL_UNITS] + len[n - ACCEL_UNITS] + 3 <= at[n]
<1>1. PICK U \in Nat \ {0} : U = ACCEL_UNITS
  BY FirmwareAssumption
<1>2. PICK r \in Units : r = n % U
  <2>1. n \in Nat
    OBVIOUS
  <2>2. n % ACCEL_UNITS \in Units
    BY <2>1, UnitOf
  <2>3. QED
    BY <1>1, <2>2
<1>3. PICK m \in Nat, s \in Nat, b \in Nat : m = n - U /\ s = n - r /\ b = s - U
  <2>1. n - U \in Nat /\ n - r \in Nat /\ n - r - U \in Nat
    BY <1>1, <1>2, RoundStart DEF Units
  <2>2. QED
    BY <2>1
<1>4. /\ m \in 0 .. k - 1 /\ s \in 0 .. k - 1 /\ m % U = r /\ s % U = 0 /\ m - r = b
      /\ n - r = s /\ s - U = b /\ s >= ACCEL_UNITS
  <2>1. n = m + U /\ n \in Nat /\ r \in Nat /\ n < k
    BY <1>1, <1>3 DEF Units
  <2>2. (m + U) % U = m % U
    BY <1>1, UnitOf
  <2>3. s % U = 0 /\ s >= ACCEL_UNITS
    BY <1>1, <1>2, <1>3, <2>1, RoundStart
  <2>4. m % U = r
    BY <1>2, <2>1, <2>2
  <2>5. m \in 0 .. k - 1 /\ s \in 0 .. k - 1 /\ m - r = b /\ n - r = s /\ s - U = b
    BY <1>3, <2>1
  <2>6. QED
    BY <2>3, <2>4, <2>5
<1>5. PICK lo \in Nat, hi \in Nat : lo = r * (4 * MinGap) /\ hi = r * (4 * MaxGap)
  BY RoundMargin
<1>6. at[s] + lo <= at[n]
  BY <1>1, <1>2, <1>4, <1>5 DEF Rounds, InRound
<1>7. at[m] <= at[b] + hi
  BY <1>1, <1>4, <1>5 DEF Rounds, InRound
<1>8. at[b] + len[b] + 4 + 4 * MinGap <= at[s]
  BY <1>1, <1>4 DEF Rounds, InRound
<1>9. MaxCycles + hi <= MinCycles + lo + 4 * MinGap + 1
  BY <1>5, RoundMargin
<1>10. /\ at[m] \in Nat /\ at[n] \in Nat /\ at[b] \in Nat /\ at[s] \in Nat
       /\ len[b] \in MinCycles .. MaxCycles /\ len[m] \in MinCycles .. MaxCycles
       /\ MinCycles \in Nat /\ MaxCycles \in Nat /\ MinGap \in Nat
  BY FirmwareAssumption DEF Clock
<1>11. at[m] + len[m] + 3 <= at[n]
  BY <1>6, <1>7, <1>8, <1>9, <1>10
<1>12. QED
  BY <1>1, <1>3, <1>11
\* Two commands are so far apart that only one waits to be stored.
LEMMA OneDone ==
    ASSUME Margin, FirmwareTypes, NEW now, NEW at, NEW len, Timed(now, at, len),
           NEW u \in Units, NEW v \in Units, phase[u] = "done", phase[v] = "done"
    PROVE  u = v
<1>1. ACCEL_UNITS \in Nat \ {0} /\ i \in Nat
  BY FirmwareAssumption DEF FirmwareTypes
<1>2. \A w \in Units : phase[w] = "done" =>
        \E n \in 0 .. i - 1 : /\ n % ACCEL_UNITS = w
                              /\ at[n] + len[n] + 2 <= now /\ now <= at[n] + len[n] + 3
  <2>1. TAKE w \in Units
  <2>2. HAVE phase[w] = "done"
  <2>3. w < i
    BY <1>1, <2>2 DEF Timed, Stages, Units
  <2>4. PICK n \in 0 .. i - 1 : n + ACCEL_UNITS >= i /\ n % ACCEL_UNITS = w
    BY <1>1, <2>3, LastOfUnit
  <2>5. Stage(w, n, now, at[n], len[n])
    BY <2>4 DEF Timed, Stages
  <2>6. now \in Nat /\ at[n] \in Nat /\ len[n] \in MinCycles .. MaxCycles /\ MinCycles \in Nat /\ MaxCycles \in Nat
    BY <2>4, FirmwareAssumption DEF Timed, Clock
  <2>7. at[n] + 1 <= now
    <3>1. at[i - 1] + 1 <= now /\ at[i - 1] \in Nat
      BY <1>1, <2>4, <2>6 DEF Timed, Pace, FirmwareTypes, Clock
    <3>2. n = i - 1 \/ at[n] + 4 * MinGap <= at[i - 1]
      BY <1>1, <2>4 DEF Timed, Order
    <3>3. QED
      BY <2>6, <3>1, <3>2, FirmwareAssumption
  <2>8. at[n] + len[n] + 2 <= now /\ now <= at[n] + len[n] + 3
    BY <2>2, <2>5, <2>6, <2>7 DEF Stage
  <2>9. QED
    BY <2>4, <2>8
<1>3. PICK m \in 0 .. i - 1 : /\ m % ACCEL_UNITS = u
                              /\ at[m] + len[m] + 2 <= now /\ now <= at[m] + len[m] + 3
  BY <1>2
<1>4. PICK n \in 0 .. i - 1 : /\ n % ACCEL_UNITS = v
                              /\ at[n] + len[n] + 2 <= now /\ now <= at[n] + len[n] + 3
  BY <1>2
<1>5. /\ now \in Nat /\ at[m] \in Nat /\ at[n] \in Nat /\ MinGap \in Nat
      /\ len[m] \in MinCycles .. MaxCycles /\ len[n] \in MinCycles .. MaxCycles
      /\ MinCycles \in Nat /\ MaxCycles \in Nat /\ MaxCycles + 2 <= MinCycles + 4 * MinGap
  BY FirmwareAssumption DEF Timed, Clock, Margin
<1>6. ~(at[m] + 4 * MinGap <= at[n]) /\ ~(at[n] + 4 * MinGap <= at[m])
  BY <1>3, <1>4, <1>5
<1>7. m = n
  BY <1>1, <1>6 DEF Timed, Order
<1>8. QED
  BY <1>3, <1>4, <1>7

\* One more execute.
LEMMA OneMore ==
    ASSUME FirmwareTypes, Loaded, NEW now, NEW at, NEW len, Timed(now, at, len), pc = "exec", gap >= MinGap
    PROVE  /\ Order(i + 1, [at EXCEPT ![i] = now])
           /\ Rounds(i + 1, [at EXCEPT ![i] = now], len)
<1> DEFINE then == [at EXCEPT ![i] = now]
<1>1. /\ i \in Nat /\ gap \in Nat /\ gap <= MaxGap /\ now \in Nat /\ at \in [Nat -> Nat]
      /\ len \in [Nat -> MinCycles .. MaxCycles] /\ ACCEL_UNITS \in Nat \ {0}
      /\ MinGap \in Nat /\ MaxGap \in Nat /\ 3 <= MinGap
  BY FirmwareAssumption DEF FirmwareTypes, Timed, Clock
<1>2. then[i] = now /\ \A n \in Nat : n # i => then[n] = at[n]
  BY <1>1
<1>3. Order(i + 1, then)
  <2>1. SUFFICES ASSUME NEW m \in 0 .. i, NEW n \in 0 .. i, m < n PROVE then[m] + 4 * MinGap <= then[n]
    BY <1>1 DEF Order
  <2>2. CASE n < i
    BY <1>1, <1>2, <2>1, <2>2 DEF Timed, Order
  <2>3. CASE n = i
    <3>1. at[i - 1] + 4 * MinGap <= now
      BY <1>1, <2>1, <2>3 DEF Timed, Pace, Ahead
    <3>2. m = i - 1 \/ at[m] + 4 * MinGap <= at[i - 1]
      BY <1>1, <2>1, <2>3 DEF Timed, Order
    <3>3. at[m] \in Nat /\ at[i - 1] \in Nat
      BY <1>1, <2>1, <2>3
    <3>4. at[m] + 4 * MinGap <= now
      BY <1>1, <3>1, <3>2, <3>3
    <3>5. QED
      BY <1>1, <1>2, <2>1, <2>3, <3>4
  <2>4. QED
    BY <1>1, <2>2, <2>3
<1>4. Rounds(i + 1, then, len)
  <2>0. SUFFICES ASSUME NEW n \in 0 .. (i + 1) - 1, NEW r, r = n % ACCEL_UNITS
                 PROVE  InRound(n, r, then, len)
    BY DEF Rounds
  <2>1. n \in Nat /\ n <= i /\ r = n % ACCEL_UNITS
    BY <1>1, <2>0
  <2>2. r \in Units /\ n \in Nat /\ n - r \in Nat
    BY <2>1, UnitOf
  <2>3. r \in Nat
    BY <2>2 DEF Units
  <2>4. CASE n < i
    <3>1. n \in 0 .. i - 1 /\ then[n] = at[n] /\ then[n - r] = at[n - r]
      BY <1>1, <1>2, <2>2, <2>3, <2>4
    <3>2. n >= ACCEL_UNITS => then[n - ACCEL_UNITS] = at[n - ACCEL_UNITS]
      BY <1>1, <1>2, <2>2, <2>4
    <3>3. QED
      BY <2>1, <3>1, <3>2 DEF Timed, Rounds, InRound
  <2>5. CASE n = i /\ r = 0
    <3>1. then[n - r] = now /\ then[n] = now /\ r * (4 * MinGap) = 0 /\ r * (4 * MaxGap) = 0
      BY <1>1, <1>2, <2>5
    <3>2. ASSUME n >= ACCEL_UNITS
          PROVE  then[n - ACCEL_UNITS] + len[n - ACCEL_UNITS] + 4 + 4 * MinGap <= now
      <4>1. i % ACCEL_UNITS = 0 /\ i > 0
        BY <1>1, <2>1, <2>5, <3>2
      <4>2. at[i - ACCEL_UNITS] + len[i - ACCEL_UNITS] + 4 + 3 * MinGap + gap <= now
        BY <4>1 DEF Timed, Pace, Ahead
      <4>3. PICK m \in Nat : m = i - ACCEL_UNITS /\ m # i
        BY <1>1, <2>5, <3>2
      <4>4. at[m] \in Nat /\ len[m] \in Nat
        BY <1>1, FirmwareAssumption
      <4>5. at[m] + len[m] + 4 + 4 * MinGap <= now
        BY <1>1, <4>2, <4>3, <4>4
      <4>6. QED
        BY <1>2, <2>5, <4>3, <4>5
    <3>3. QED
      BY <1>1, <2>5, <3>1, <3>2 DEF InRound
  <2>6. CASE n = i /\ r # 0
    <3>1. i > 0 /\ i - 1 \in Nat
      BY <1>1, <2>2, <2>3, <2>6
    <3>2. i % ACCEL_UNITS = IF (i - 1) % ACCEL_UNITS = ACCEL_UNITS - 1 THEN 0
                            ELSE ((i - 1) % ACCEL_UNITS) + 1
      <4>1. PICK j \in Nat : j = i - 1
        BY <3>1
      <4>2. j + 1 = i
        BY <1>1, <4>1
      <4>3. (j + 1) % ACCEL_UNITS = IF j % ACCEL_UNITS = ACCEL_UNITS - 1 THEN 0
                                    ELSE (j % ACCEL_UNITS) + 1
        BY UnitOf
      <4>4. QED
        BY <4>1, <4>2, <4>3
    <3>3. PICK s \in Units : s = (i - 1) % ACCEL_UNITS
      BY <3>1, UnitOf
    <3>4. r = s + 1 /\ s \in Nat
      BY <2>1, <2>6, <3>2, <3>3 DEF Units
    <3>5. PICK b \in Nat : b = i - r
      BY <2>2, <2>6
    <3>6. i - 1 - s = b
      BY <1>1, <3>4, <3>5
    <3>7. at[b] + s * (4 * MinGap) <= at[i - 1] /\ at[i - 1] <= at[b] + s * (4 * MaxGap)
      <4>1. PICK j \in 0 .. i - 1 : j = i - 1
        BY <3>1
      <4>2. QED
        BY <3>3, <3>6, <4>1 DEF Timed, Rounds, InRound
    <3>8. at[i - 1] + 4 * MinGap <= now /\ now <= at[i - 1] + 4 * MaxGap
      BY <1>1, <2>1, <2>6, <3>1 DEF Timed, Pace, Ahead
    <3>9. PICK lo \in Nat, hi \in Nat : lo = s * (4 * MinGap) /\ hi = s * (4 * MaxGap)
      BY <1>1, <3>4
    <3>10. r * (4 * MinGap) = lo + 4 * MinGap /\ r * (4 * MaxGap) = hi + 4 * MaxGap
      BY <1>1, <3>4, <3>9
    <3>11. at[b] \in Nat /\ at[i - 1] \in Nat
      BY <1>1, <3>1
    <3>12. at[b] + (lo + 4 * MinGap) <= now /\ now <= at[b] + (hi + 4 * MaxGap)
      BY <1>1, <3>7, <3>8, <3>9, <3>11
    <3>13. b # i
      BY <1>1, <3>4, <3>5
    <3>14. then[b] = at[b] /\ then[i] = now
      BY <1>2, <3>13
    <3>15. QED
      BY <2>6, <3>5, <3>10, <3>12, <3>14 DEF InRound
  <2>7. QED
    BY <1>1, <2>4, <2>5, <2>6
<1>5. QED
  BY <1>3, <1>4
-----------------------------------------------------------------------------
(* One cycle.                                                               *)

LEMMA TypesInit == Init => FirmwareTypes /\ Loaded
<1>1. SUFFICES ASSUME Init PROVE FirmwareTypes /\ Loaded
  OBVIOUS
<1>2. 0 % ACCEL_UNITS = 0
  BY UnitOf, FirmwareAssumption
<1>3. pc = (IF 0 = Commands THEN "drain" ELSE "poll") /\ i = 0
  BY <1>1, <1>2 DEF Init, Before
<1>4. FirmwareTypes
  <2>1. pc \in {"poll", "drain"} /\ i \in 0 .. Commands /\ gap \in 1 .. MaxGap
    BY <1>1, <1>3, FirmwareAssumption DEF Init
  <2>2. command = [unit |-> command.unit, ptrs |-> command.ptrs]
    BY <1>1 DEF Init
  <2>3. exec \in BOOLEAN /\ ptrs = [u \in Units |-> ptrs[u]] /\ busy_map \subseteq Units
    BY <1>1 DEF Init
  <2>4. phase \in [Units -> {"idle", "run", "done"}] /\ left \in [Units -> Nat]
    BY <1>1 DEF Init
  <2>5. QED
    BY <2>1, <2>2, <2>3, <2>4 DEF FirmwareTypes
<1>5. Loaded
  BY <1>2, <1>3, FirmwareAssumption DEF Loaded
<1>6. QED
  BY <1>4, <1>5

\* What the processor does keeps the types.
LEMMA ProcessorTypes ==
    ASSUME FirmwareTypes, Loaded, BusOperation \/ Compute
    PROVE  /\ pc' \in {"poll", "head", "ptrs", "stat", "exec", "drain", "print"}
           /\ i' \in 0 .. Commands
           /\ gap' \in 1 .. MaxGap
           /\ command' = [unit |-> command'.unit, ptrs |-> command'.ptrs]
<1>1. /\ i \in Nat /\ Commands \in Nat /\ i <= Commands /\ gap \in Nat /\ 1 <= gap
      /\ MaxGap \in Nat /\ 1 <= MaxGap
  BY FirmwareAssumption DEF FirmwareTypes
<1>2. CASE Compute
  BY <1>1, <1>2 DEF Compute, FirmwareTypes
<1>3. CASE BusOperation
  <2>1. gap' = 1
    BY <1>3 DEF BusOperation
  <2>2. CASE Poll \/ Drain \/ ReadStat
    BY <1>1, <2>1, <2>2 DEF Poll, Drain, ReadStat, FirmwareTypes
  <2>3. CASE LoadHead \/ LoadPtrs
    BY <1>1, <2>1, <2>3 DEF LoadHead, LoadPtrs, FirmwareTypes
  <2>4. CASE Execute
    <3>1. pc' \in {"poll", "head", "drain"} /\ i' = i + 1 /\ command' = command
      BY <2>4 DEF Execute, Before
    <3>2. i < Commands
      BY <2>4 DEF Execute, Loaded
    <3>3. QED
      BY <1>1, <2>1, <3>1, <3>2 DEF FirmwareTypes
  <2>5. QED
    BY <1>3, <2>2, <2>3, <2>4 DEF BusOperation
<1>4. QED
  BY <1>2, <1>3

LEMMA LoadedNext ==
    ASSUME FirmwareTypes, Loaded, BusOperation \/ Compute
    PROVE  Loaded'
<1>1. i \in Nat /\ Commands \in Nat /\ i <= Commands
  BY FirmwareAssumption DEF FirmwareTypes
<1>2. CASE Compute
  BY <1>2 DEF Compute, Loaded
<1>3. CASE BusOperation
  <2>1. CASE Poll
    BY <2>1 DEF Poll, Loaded
  <2>2. CASE LoadHead
    BY <2>2 DEF LoadHead, Loaded, FirmwareTypes
  <2>3. CASE LoadPtrs
    BY <2>3 DEF LoadPtrs, Loaded, FirmwareTypes
  <2>4. CASE ReadStat
    BY <2>4 DEF ReadStat, Loaded
  <2>5. CASE Execute
    <3>1. i < Commands /\ i' = i + 1 /\ pc' = Before(i + 1)
      BY <2>5 DEF Execute, Loaded
    <3>2. QED
      BY <1>1, <3>1 DEF Before, Loaded
  <2>6. CASE Drain
    BY <2>6 DEF Drain, Loaded
  <2>7. QED
    BY <1>3, <2>1, <2>2, <2>3, <2>4, <2>5, <2>6 DEF BusOperation
<1>4. QED
  BY <1>2, <1>3

\* What a unit does that is given no command.
Continues(u) ==
    /\ phase[u] = "run" /\ left[u] = 0 => phase'[u] = "done"
    /\ phase[u] = "run" /\ left[u] # 0 => phase'[u] = "run" /\ left'[u] = left[u] - 1
    /\ phase[u] = "done" => phase'[u] = IF Writes(u) THEN "idle" ELSE "done"
    /\ phase[u] = "idle" => phase'[u] = "idle"
    /\ ptrs'[u] = ptrs[u]

LEMMA AcceleratorTypes ==
    ASSUME FirmwareTypes, AcceleratorCycle
    PROVE  /\ exec' \in BOOLEAN
           /\ phase' \in [Units -> {"idle", "run", "done"}]
           /\ left' \in [Units -> Nat]
           /\ ptrs' = [u \in Units |-> ptrs'[u]]
           /\ busy_map' = {u \in Units : phase[u] # "idle"}
           /\ exec' <=> (pc = "exec" /\ pc' # "exec")
<1>1. PICK n \in Nat \ {0} : /\ phase' = [u \in Units |-> UnitCycle(u, n).phase]
                             /\ left' = [u \in Units |-> UnitCycle(u, n).left]
  BY FirmwareAssumption DEF AcceleratorCycle
<1>2. \A u \in Units : UnitCycle(u, n).phase \in {"idle", "run", "done"} /\ UnitCycle(u, n).left \in Nat
  BY DEF UnitCycle, FirmwareTypes
<1>3. ptrs' = [u \in Units |-> ptrs'[u]]
  BY DEF AcceleratorCycle, FirmwareTypes
<1>4. exec' = (pc = "exec" /\ pc' # "exec") /\ busy_map' = {u \in Units : phase[u] # "idle"}
  BY DEF AcceleratorCycle
<1>5. exec' \in BOOLEAN /\ (exec' <=> (pc = "exec" /\ pc' # "exec"))
  BY <1>4
<1>6. QED
  BY <1>1, <1>2, <1>3, <1>4, <1>5

LEMMA UnitContinues ==
    ASSUME FirmwareTypes, AcceleratorCycle, NEW u \in Units, ~(Issue /\ u = command.unit)
    PROVE  Continues(u)
<1>1. PICK n : /\ phase' = [v \in Units |-> UnitCycle(v, n).phase]
               /\ left' = [v \in Units |-> UnitCycle(v, n).left]
  BY DEF AcceleratorCycle
<1>2. phase'[u] = UnitCycle(u, n).phase /\ left'[u] = UnitCycle(u, n).left
  BY <1>1
<1>4. ptrs'[u] = ptrs[u]
  BY DEF AcceleratorCycle, FirmwareTypes
<1>5. UnitCycle(u, n) = CASE phase[u] = "run" -> IF left[u] = 0 THEN [phase |-> "done", left |-> 0]
                                            ELSE [phase |-> "run", left |-> left[u] - 1]
      [] Writes(u) -> [phase |-> "idle", left |-> 0]
      [] OTHER -> [phase |-> phase[u], left |-> left[u]]
  BY DEF UnitCycle
<1>6. QED
  BY <1>2, <1>4, <1>5 DEF Continues, Writes
\* A unit goes on with a command that it has been given.
LEMMA StageContinues ==
    ASSUME FirmwareTypes, NEW u \in Units, NEW n, NEW now \in Nat, NEW s \in Nat, NEW l \in Nat \ {0},
           s + 2 <= now, Stage(u, n, now, s, l), Continues(u),
           phase[u] = "done" /\ ~exec => Writes(u), exec => ~exec', u \in busy_map' <=> phase[u] # "idle"
    PROVE  Stage(u, n, now + 1, s, l)'
<1>1. phase[u] \in {"idle", "run", "done"} /\ left[u] \in Nat
  BY DEF FirmwareTypes
<1>2. now + 1 # s + 1
  OBVIOUS
<1>3. s + 2 <= now + 1 /\ now + 1 <= s + l + 1 => phase'[u] = "run" /\ left'[u] + (now + 1) = s + l + 1
  <2>1. SUFFICES ASSUME now <= s + l PROVE phase'[u] = "run" /\ left'[u] + (now + 1) = s + l + 1
    OBVIOUS
  <2>2. phase[u] = "run" /\ left[u] + now = s + l + 1
    BY <2>1 DEF Stage
  <2>3. left[u] # 0
    BY <1>1, <2>1, <2>2
  <2>4. phase'[u] = "run" /\ left'[u] = left[u] - 1
    BY <2>2, <2>3 DEF Continues
  <2>5. QED
    BY <1>1, <2>2, <2>4
<1>4. now + 1 = s + l + 2 => phase'[u] = "done"
  <2>1. SUFFICES ASSUME now = s + l + 1 PROVE phase'[u] = "done"
    OBVIOUS
  <2>2. phase[u] = "run" /\ left[u] + now = s + l + 1
    BY <2>1 DEF Stage
  <2>3. left[u] = 0
    BY <1>1, <2>1, <2>2
  <2>4. QED
    BY <2>2, <2>3 DEF Continues
<1>5. now + 1 = s + l + 3 => phase'[u] = "idle" \/ (phase'[u] = "done" /\ ~exec')
  <2>1. SUFFICES ASSUME now = s + l + 2 PROVE phase'[u] = "idle" \/ (phase'[u] = "done" /\ ~exec')
    OBVIOUS
  <2>2. phase[u] = "done"
    BY <2>1 DEF Stage
  <2>3. QED
    BY <2>2 DEF Continues
<1>6. now + 1 >= s + l + 4 => phase'[u] = "idle"
  <2>1. SUFFICES ASSUME now >= s + l + 3 PROVE phase'[u] = "idle"
    OBVIOUS
  <2>2. phase[u] = "idle" \/ (phase[u] = "done" /\ ~exec)
    BY <2>1 DEF Stage
  <2>3. QED
    BY <2>2 DEF Continues
<1>7. phase'[u] # "idle" => ptrs'[u] = Pointers(n)
  BY DEF Continues, Stage
<1>8. s + 3 <= now + 1 /\ now + 1 <= s + l + 3 => u \in busy_map'
  BY DEF Stage
<1>9. QED
  BY <1>2, <1>3, <1>4, <1>5, <1>6, <1>7, <1>8 DEF Stage

\* What is known of a moment.
LEMMA Moment ==
    ASSUME FirmwareTypes, NEW now, NEW at, NEW len, Timed(now, at, len)
    PROVE  /\ now \in Nat /\ at \in [Nat -> Nat] /\ len \in [Nat -> MinCycles .. MaxCycles]
           /\ \A n \in Nat : at[n] \in Nat /\ len[n] \in Nat \ {0}
           /\ i \in Nat /\ gap \in Nat \ {0} /\ gap <= MaxGap /\ ACCEL_UNITS \in Nat \ {0}
           /\ MinGap \in Nat /\ MaxGap \in Nat /\ 3 <= MinGap
           /\ Ahead(MinGap) \in Nat
<1>1. Ahead(MinGap) \in Nat
  BY FirmwareAssumption DEF Ahead
<1>2. now \in Nat /\ at \in [Nat -> Nat] /\ len \in [Nat -> MinCycles .. MaxCycles]
  BY DEF Timed, Clock
<1>3. \A n \in Nat : at[n] \in Nat /\ len[n] \in Nat \ {0}
  BY <1>2, FirmwareAssumption
<1>4. QED
  BY <1>1, <1>2, <1>3, FirmwareAssumption DEF FirmwareTypes

\* Every command has been executed.
LEMMA Past ==
    ASSUME FirmwareTypes, NEW now, NEW at, NEW len, Timed(now, at, len), NEW n \in 0 .. i - 1
    PROVE  /\ at[n] + gap <= now
           /\ n # i - 1 => at[n] + 4 * MinGap + gap <= now
<1>1. at[i - 1] + gap <= now /\ i - 1 \in 0 .. i - 1
  BY Moment DEF Timed, Pace
<1>2. n # i - 1 => at[n] + 4 * MinGap <= at[i - 1]
  BY <1>1, Moment DEF Timed, Order
<1>3. QED
  BY <1>1, <1>2, Moment

\* The unit that is done is the one whose result is stored.
LEMMA DoneIsStored ==
    ASSUME Margin, FirmwareTypes, NEW now, NEW at, NEW len, Timed(now, at, len),
           NEW u \in Units, phase[u] = "done", ~exec
    PROVE  Writes(u)
<1>1. \A v \in Units : v < u => phase[v] # "done"
  BY OneDone DEF Units
<1>2. QED
  BY <1>1 DEF Writes
-----------------------------------------------------------------------------
(* Three kinds of cycles.                                                   *)

\* The unit of command n is no other command's.
LEMMA OwnUnit ==
    ASSUME FirmwareTypes, NEW m \in 0 .. i - 1, NEW n \in 0 .. i - 1, m # n,
           m + ACCEL_UNITS >= i, n + ACCEL_UNITS >= i
    PROVE  m % ACCEL_UNITS # n % ACCEL_UNITS
<1>1. m \in Nat /\ n \in Nat /\ ACCEL_UNITS \in Nat \ {0} /\ i \in Nat
  BY FirmwareAssumption DEF FirmwareTypes
<1>2. CASE m < n
  <2>1. n < m + ACCEL_UNITS
    BY <1>1
  <2>2. QED
    BY <1>1, <1>2, <2>1, UnitsApart
<1>3. CASE n < m
  <2>1. m < n + ACCEL_UNITS
    BY <1>1
  <2>2. QED
    BY <1>1, <1>3, <2>1, UnitsApart
<1>4. QED
  BY <1>1, <1>2, <1>3

\* A unit with a command in the past goes on with it.
LEMMA NextStage ==
    ASSUME Margin, FirmwareTypes, AcceleratorCycle, NEW now, NEW at, NEW len, Timed(now, at, len),
           NEW n \in 0 .. i - 1, n + ACCEL_UNITS >= i, at[n] + 2 <= now,
           ~(Issue /\ n % ACCEL_UNITS = command.unit), exec => ~exec'
    PROVE  Stage(n % ACCEL_UNITS, n, now + 1, at[n], len[n])'
<1>1. PICK u \in Units : u = n % ACCEL_UNITS
  BY Moment, UnitOf
<1>2. now \in Nat
  BY Moment
<1>3. PICK s \in Nat, l \in Nat \ {0} : s = at[n] /\ l = len[n]
  BY Moment
<1>4. Stage(u, n, now, s, l)
  BY <1>1, <1>3 DEF Timed, Stages
<1>5. Continues(u)
  BY <1>1, UnitContinues
<1>6. phase[u] = "done" /\ ~exec => Writes(u)
  BY DoneIsStored
<1>7. u \in busy_map' <=> phase[u] # "idle"
  BY AcceleratorTypes
<1>8. s + 2 <= now
  BY <1>3
<1>9. Stage(u, n, now + 1, s, l)'
  BY <1>2, <1>4, <1>5, <1>6, <1>7, <1>8, StageContinues
<1>10. QED
  BY <1>1, <1>3, <1>9

\* The decoder gives a command to its unit, which is idle.
LEMMA IssueCycle ==
    ASSUME Margin, FirmwareTypes, Loaded, NEW now, NEW at, NEW len, Timed(now, at, len), exec,
           BusOperation \/ Compute, AcceleratorCycle
    PROVE  dropped' = dropped /\ \E l : Timed(now + 1, at, l)'
<1>1. i > 0 /\ now = at[i - 1] + 1 /\ gap = 1
  <2>1. i > 0 /\ now = at[i - 1] + 1
    BY DEF Timed, Waiting
  <2>2. at[i - 1] + gap <= now
    BY <2>1 DEF Timed, Pace
  <2>3. QED
    BY <2>1, <2>2, Moment
<1>2. pc' = pc /\ i' = i /\ command' = command /\ gap' = 2
  BY <1>1, FirmwareAssumption DEF BusOperation, Compute
<1>3. PICK c \in 0 .. i - 1 : c = i - 1
  BY <1>1, Moment
<1>4. PICK u \in Units : u = c % ACCEL_UNITS
  BY <1>3, Moment, UnitOf
<1>5. c + ACCEL_UNITS >= i
  BY <1>3, Moment
<1>6. command = [unit |-> u, ptrs |-> Pointers(c)]
  BY <1>3, <1>4 DEF Timed, Waiting
<1>7. phase[u] = "idle"
  BY <1>1, <1>3, <1>4, <1>5 DEF Timed, Stages, Stage
<1>8. Issue /\ ~Drop /\ command.unit = u /\ command.ptrs = Pointers(c)
  BY <1>6, <1>7 DEF Issue, Drop
<1>9. PICK n \in MinCycles .. MaxCycles : /\ phase' = [v \in Units |-> UnitCycle(v, n).phase]
                                          /\ left' = [v \in Units |-> UnitCycle(v, n).left]
  BY <1>8 DEF AcceleratorCycle
<1>10. n \in Nat \ {0}
  BY FirmwareAssumption
<1>11. phase'[u] = "run" /\ left'[u] = n - 1 /\ ptrs'[u] = Pointers(c)
  <2>1. UnitCycle(u, n) = [phase |-> "run", left |-> n - 1]
    BY <1>7, <1>8 DEF UnitCycle, Writes
  <2>2. ptrs' = [ptrs EXCEPT ![u] = Pointers(c)]
    BY <1>8 DEF AcceleratorCycle
  <2>3. QED
    BY <1>9, <2>1, <2>2 DEF FirmwareTypes
<1>12. ~exec'
  BY <1>2, AcceleratorTypes
<1>13. PICK then \in [Nat -> MinCycles .. MaxCycles] :
          then[c] = n /\ \A m \in Nat : m # c => then[m] = len[m]
  <2> DEFINE t == [len EXCEPT ![c] = n]
  <2>1. t \in [Nat -> MinCycles .. MaxCycles] /\ t[c] = n /\ \A m \in Nat : m # c => t[m] = len[m]
    BY Moment
  <2>2. QED
    BY <2>1
<1>14. Clock(now + 1, at, then)'
  BY Moment DEF Clock
<1>15. Pace(now + 1, at, then)'
  <2>1. i > 0 => at[i - 1] + 2 <= now + 1
    BY <1>1, Moment
  <2>2. pc \in {"head", "ptrs", "stat", "exec"} =>
           /\ i % ACCEL_UNITS # 0
           /\ at[i - 1] + Ahead(MinGap) + 1 <= now
           /\ now <= at[i - 1] + Ahead(MaxGap) + 1
    <3>1. i % ACCEL_UNITS = 0 /\ pc \in {"head", "ptrs", "stat", "exec"} =>
             at[i - 1] + MinGap + Ahead(MinGap) + 1 <= now
      BY <1>1 DEF Timed, Pace
    <3>2. ~(at[i - 1] + MinGap + Ahead(MinGap) + 1 <= now)
      BY <1>1, <1>3, Moment
    <3>3. QED
      BY <1>1, <3>1, <3>2 DEF Timed, Pace
  <2>3. at[i - 1] \in Nat
    BY <1>3, Moment
  <2>4. Ahead(MinGap)' = Ahead(MinGap) /\ Ahead(MaxGap)' = Ahead(MaxGap) /\ Ahead(MaxGap) \in Nat
    BY <1>2, FirmwareAssumption DEF Ahead
  <2>5. pc \in {"head", "ptrs", "stat", "exec"} =>
           at[i - 1] + Ahead(MinGap) + 2 <= now + 1 /\ now + 1 <= at[i - 1] + Ahead(MaxGap) + 2
    BY <2>2, <2>3, <2>4, Moment
  <2>6. QED
    BY <1>2, <2>1, <2>2, <2>4, <2>5 DEF Pace
<1>16. Waiting(now + 1, at)'
  <2>1. now + 1 # at[i - 1] + 1
    BY <1>1, <1>3, Moment
  <2>2. QED
    BY <1>2, <1>12, <2>1 DEF Waiting
<1>17. Order(i, at)'
  BY <1>2 DEF Timed, Order
<1>18. Rounds(i, at, then)'
  <2>1. SUFFICES ASSUME NEW m \in 0 .. i - 1, NEW r, r = m % ACCEL_UNITS PROVE InRound(m, r, at, then)
    BY <1>2 DEF Rounds, InRound
  <2>2. InRound(m, r, at, len)
    BY <2>1 DEF Timed, Rounds
  <2>3. m >= ACCEL_UNITS => m - ACCEL_UNITS \in Nat /\ m - ACCEL_UNITS # c
    BY <1>3, Moment
  <2>4. m >= ACCEL_UNITS => then[m - ACCEL_UNITS] = len[m - ACCEL_UNITS]
    BY <1>13, <2>3
  <2>5. QED
    BY <2>2, <2>4 DEF InRound
<1>19. Stages(now + 1, at, then)'
  <2>1. ASSUME NEW v \in Units, v >= i PROVE phase'[v] = "idle"
    <3>1. u <= c
      BY <1>3, <1>4, Moment, UnitOf DEF Units
    <3>2. v # u
      BY <1>3, <2>1, <3>1, Moment DEF Units
    <3>3. Continues(v)
      BY <1>8, <3>2, UnitContinues
    <3>4. phase[v] = "idle"
      BY <2>1 DEF Timed, Stages
    <3>5. QED
      BY <3>3, <3>4 DEF Continues
  <2>2. ASSUME NEW m \in 0 .. i - 1, m + ACCEL_UNITS >= i
        PROVE  Stage(m % ACCEL_UNITS, m, now + 1, at[m], then[m])'
    <3>1. CASE m = c
      <4>1. PICK s \in Nat : s = at[m] /\ now = s + 1
        BY <1>1, <1>3, <3>1, Moment
      <4>2. left'[u] + (now + 1) = s + n + 1
        BY <1>10, <1>11, <4>1
      <4>3. Stage(u, m, now + 1, s, n)'
        BY <1>10, <1>11, <3>1, <4>1, <4>2 DEF Stage
      <4>4. QED
        BY <1>4, <1>13, <3>1, <4>1, <4>3
    <3>2. CASE m # c
      <4>1. m % ACCEL_UNITS # command.unit
        BY <1>4, <1>5, <1>8, <2>2, <3>2, OwnUnit
      <4>2. at[m] + 2 <= now
        BY <1>3, <3>2, Past, Moment
      <4>3. Stage(m % ACCEL_UNITS, m, now + 1, at[m], len[m])'
        BY <1>12, <2>2, <4>1, <4>2, NextStage
      <4>4. then[m] = len[m]
        BY <1>13, <3>2, Moment
      <4>5. QED
        BY <4>3, <4>4
    <3>3. QED
      BY <3>1, <3>2
  <2>3. QED
    BY <1>2, <2>1, <2>2 DEF Stages
<1>20. dropped' = dropped
  BY <1>8 DEF AcceleratorCycle
<1>21. Timed(now + 1, at, then)'
  BY <1>14, <1>15, <1>16, <1>17, <1>18, <1>19 DEF Timed
<1>22. QED
  BY <1>20, <1>21
\* While a bus operation is possible the decoder waits for none.
LEMMA NotWaiting ==
    ASSUME FirmwareTypes, NEW now, NEW at, NEW len, Timed(now, at, len), BusOperation
    PROVE  ~exec
<1>1. gap >= MinGap
  BY DEF BusOperation
<1>2. i > 0 => at[i - 1] + gap <= now /\ at[i - 1] \in Nat
  BY Moment DEF Timed, Pace
<1>3. i > 0 => now # at[i - 1] + 1
  BY <1>1, <1>2, Moment
<1>4. QED
  BY <1>3 DEF Timed, Waiting

\* The firmware executes a command: its unit is idle when the decoder comes.
LEMMA ExecuteCycle ==
    ASSUME Margin, FirmwareTypes, Loaded, NEW now, NEW at, NEW len, Timed(now, at, len), pc = "exec",
           BusOperation, AcceleratorCycle
    PROVE  /\ dropped' = dropped
           /\ \E then : /\ Timed(now + 1, then, len)'
                       /\ then[i] = now /\ \A m \in Nat : m # i => then[m] = at[m]
<1>1. ~exec /\ ~Issue /\ ~Drop
  BY NotWaiting DEF Issue, Drop
<1>2. /\ gap >= MinGap /\ gap' = 1 /\ i' = i + 1 /\ pc' = Before(i + 1) /\ command' = command
  BY DEF BusOperation, Execute, Poll, LoadHead, LoadPtrs, ReadStat, Drain
<1>3. exec'
  BY <1>2, AcceleratorTypes DEF Before
<1>4. PICK then \in [Nat -> Nat] : /\ then = [at EXCEPT ![i] = now]
                                   /\ then[i] = now /\ \A m \in Nat : m # i => then[m] = at[m]
  <2> DEFINE t == [at EXCEPT ![i] = now]
  <2>1. t \in [Nat -> Nat] /\ t[i] = now /\ \A m \in Nat : m # i => t[m] = at[m]
    BY Moment
  <2>2. QED
    BY <2>1
<1>5. Clock(now, then, len) /\ Clock(now + 1, then, len)'
  BY Moment DEF Clock
<1>6. PICK j \in Nat : j = i + 1 /\ j - 1 = i /\ j > 0
  <2>1. i + 1 \in Nat /\ (i + 1) - 1 = i /\ i + 1 > 0
    BY Moment
  <2>2. QED
    BY <2>1
<1>7. Order(j, then) /\ Rounds(j, then, len)
  BY <1>2, <1>4, <1>6, OneMore
<1>8. Pace(now + 1, then, len)'
  <2>1. now + 1 <= now + 1
    BY Moment
  <2>2. pc' \in {"head", "ptrs", "stat", "exec"} => pc' = "head" /\ j % ACCEL_UNITS # 0
    BY <1>2, <1>6 DEF Before
  <2>3. pc' = "head" => Ahead(MinGap)' = 0 /\ Ahead(MaxGap)' = 0
    BY DEF Ahead
  <2>4. then[j - 1] + 0 + 1 <= now + 1 /\ now + 1 <= then[j - 1] + 0 + 1 /\ then[j - 1] + 1 <= now + 1
    BY <1>4, <1>6, Moment
  <2>5. QED
    BY <1>2, <1>6, <2>2, <2>3, <2>4 DEF Pace
<1>9. Waiting(now + 1, then)'
  <2>1. command = [unit |-> i % ACCEL_UNITS, ptrs |-> Pointers(i)]
    BY DEF FirmwareTypes, Loaded
  <2>2. now + 1 = then[j - 1] + 1
    BY <1>4, <1>6
  <2>3. QED
    BY <1>2, <1>3, <1>6, <2>1, <2>2 DEF Waiting, Pointers, ptr_a_addr, ptr_b_addr, ptr_c_addr, rows, accel_malloc
<1>10. Order(i, then)' /\ Rounds(i, then, len)'
  BY <1>2, <1>6, <1>7 DEF Order, Rounds, InRound
<1>11. \A v \in Units : Continues(v)
  BY <1>1, UnitContinues
<1>12. \A v \in Units : v >= i => phase[v] = "idle"
  BY DEF Timed, Stages
<1>13. phase'[i % ACCEL_UNITS] = "idle" /\ i % ACCEL_UNITS \in Units
  <2>1. PICK u \in Units : u = i % ACCEL_UNITS
    BY Moment, UnitOf
  <2>2. CASE i < ACCEL_UNITS
    <3>1. u = i
      BY <2>1, <2>2, Moment, UnitOf
    <3>2. phase[u] = "idle"
      BY <1>12, <3>1, Moment
    <3>3. QED
      BY <1>11, <2>1, <3>2 DEF Continues
  <2>3. CASE i >= ACCEL_UNITS
    <3>1. PICK n \in 0 .. i - 1 : n = i - ACCEL_UNITS /\ n + ACCEL_UNITS = i
      <4>1. i - ACCEL_UNITS \in 0 .. i - 1 /\ (i - ACCEL_UNITS) + ACCEL_UNITS = i
        BY <2>3, Moment
      <4>2. QED
        BY <4>1
    <3>2. n % ACCEL_UNITS = u
      <4>1. (n + ACCEL_UNITS) % ACCEL_UNITS = n % ACCEL_UNITS
        BY UnitOf
      <4>2. QED
        BY <2>1, <3>1, <4>1
    <3>3. n + ACCEL_UNITS >= i
      BY <3>1, Moment
    <3>4. Stage(u, n, now, at[n], len[n])
      BY <3>2, <3>3 DEF Timed, Stages
    <3>5. at[n] + len[n] + 3 <= now
      <4>1. i \in 0 .. j - 1
        BY <1>6, Moment
      <4>2. then[i - ACCEL_UNITS] + len[i - ACCEL_UNITS] + 3 <= then[i]
        BY <1>5, <1>7, <2>3, <4>1, NextUse
      <4>3. then[n] = at[n]
        BY <1>4, <3>1, Moment
      <4>4. QED
        BY <1>4, <3>1, <4>2, <4>3
    <3>6. phase[u] = "idle" \/ phase[u] = "done"
      <4>1. now = at[n] + len[n] + 3 \/ now >= at[n] + len[n] + 4
        BY <3>5, Moment
      <4>2. QED
        BY <3>4, <4>1 DEF Stage
    <3>7. phase[u] = "done" => Writes(u)
      BY <1>1, DoneIsStored
    <3>8. QED
      BY <1>11, <2>1, <3>6, <3>7 DEF Continues
  <2>4. QED
    BY <2>2, <2>3, Moment
<1>14. Stages(now + 1, then, len)'
  <2>1. ASSUME NEW v \in Units, v >= j PROVE phase'[v] = "idle"
    <3>1. v >= i
      BY <1>6, <2>1, Moment DEF Units
    <3>2. QED
      BY <1>11, <1>12, <3>1 DEF Continues
  <2>2. ASSUME NEW m \in 0 .. j - 1, m + ACCEL_UNITS >= j
        PROVE  Stage(m % ACCEL_UNITS, m, now + 1, then[m], len[m])'
    <3>1. CASE m = i
      <4>1. PICK s \in Nat, l \in Nat \ {0} : s = then[m] /\ now = s /\ l = len[m]
        BY <1>4, <3>1, Moment
      <4>2. PICK u : u = m % ACCEL_UNITS /\ phase'[u] = "idle"
        BY <1>13, <3>1
      <4>3. Stage(u, m, now + 1, s, l)'
        BY <4>1, <4>2 DEF Stage
      <4>4. QED
        BY <4>1, <4>2, <4>3
    <3>2. CASE m # i
      <4>1. m \in 0 .. i - 1 /\ m + ACCEL_UNITS >= i
        BY <1>6, <2>2, <3>2, Moment
      <4>2. at[m] + 2 <= now
        BY <1>2, <4>1, Past, Moment
      <4>3. Stage(m % ACCEL_UNITS, m, now + 1, at[m], len[m])'
        BY <1>1, <4>1, <4>2, NextStage
      <4>4. then[m] = at[m]
        BY <1>4, <3>2, <4>1, Moment
      <4>5. QED
        BY <4>3, <4>4
    <3>3. QED
      BY <3>1, <3>2
  <2>3. QED
    BY <1>2, <1>6, <2>1, <2>2 DEF Stages
<1>15. dropped' = dropped
  BY <1>1 DEF AcceleratorCycle
<1>16. Timed(now + 1, then, len)'
  BY <1>5, <1>8, <1>9, <1>10, <1>14 DEF Timed
<1>17. QED
  BY <1>4, <1>15, <1>16
\* The poll that lets the firmware go on has seen that unit 0 is through.
LEMMA PollSees ==
    ASSUME FirmwareTypes, Loaded, NEW now, NEW at, NEW len, Timed(now, at, len),
           pc = "poll", i > 0, 0 \notin busy_map, gap >= MinGap
    PROVE  at[i - ACCEL_UNITS] + len[i - ACCEL_UNITS] + 4 <= now
<1>1. i % ACCEL_UNITS = 0 /\ i >= ACCEL_UNITS
  BY Moment, UnitOf DEF Loaded
<1>2. PICK n \in 0 .. i - 1 : n = i - ACCEL_UNITS /\ n + ACCEL_UNITS = i
  <2>1. i - ACCEL_UNITS \in 0 .. i - 1 /\ (i - ACCEL_UNITS) + ACCEL_UNITS = i
    BY <1>1, Moment
  <2>2. QED
    BY <2>1
<1>3. n % ACCEL_UNITS = 0
  <2>1. (n + ACCEL_UNITS) % ACCEL_UNITS = n % ACCEL_UNITS
    BY UnitOf
  <2>2. QED
    BY <1>1, <1>2, <2>1
<1>4. n + ACCEL_UNITS >= i
  BY <1>2, Moment
<1>5. Stage(0, n, now, at[n], len[n])
  BY <1>3, <1>4 DEF Timed, Stages
<1>6. at[n] + 3 <= now
  BY Past, Moment
<1>7. ~(now <= at[n] + len[n] + 3)
  BY <1>5, <1>6 DEF Stage
<1>8. at[n] + len[n] + 4 <= now
  BY <1>7, Moment
<1>9. QED
  BY <1>2, <1>8

\* The pace of a cycle without an execute.
LEMMA PaceNext ==
    ASSUME FirmwareTypes, Loaded, NEW now, NEW at, NEW len, Timed(now, at, len),
           BusOperation \/ Compute, ~(BusOperation /\ pc = "exec")
    PROVE  Pace(now + 1, at, len)' /\ i' = i
<1>1. CASE Compute
  <2>1. pc' = pc /\ i' = i /\ gap' = gap + 1
    BY <1>1 DEF Compute
  <2>2. Ahead(MinGap)' = Ahead(MinGap) /\ Ahead(MaxGap)' = Ahead(MaxGap) /\ Ahead(MaxGap) \in Nat
    BY <2>1, FirmwareAssumption DEF Ahead
  <2>3. i > 0 => at[i - 1] \in Nat
    BY Moment
  <2>4. i > 0 /\ i % ACCEL_UNITS = 0 => at[i - ACCEL_UNITS] \in Nat /\ len[i - ACCEL_UNITS] \in Nat
    <3>1. i > 0 /\ i % ACCEL_UNITS = 0 => i - ACCEL_UNITS \in Nat
      BY Moment, UnitOf
    <3>2. QED
      BY <3>1, Moment
  <2>5. i > 0 => at[i - 1] + (gap + 1) <= now + 1
    BY <2>3, Moment DEF Timed, Pace
  <2>6. i > 0 /\ pc \in {"head", "ptrs", "stat", "exec"} =>
          IF i % ACCEL_UNITS = 0
          THEN /\ at[i - 1] + MinGap + Ahead(MinGap) + (gap + 1) <= now + 1
               /\ at[i - ACCEL_UNITS] + len[i - ACCEL_UNITS] + 4 + Ahead(MinGap) + (gap + 1) <= now + 1
          ELSE /\ at[i - 1] + Ahead(MinGap) + (gap + 1) <= now + 1
               /\ now + 1 <= at[i - 1] + Ahead(MaxGap) + (gap + 1)
    <3>1. SUFFICES ASSUME i > 0, pc \in {"head", "ptrs", "stat", "exec"}
                   PROVE  IF i % ACCEL_UNITS = 0
          THEN /\ at[i - 1] + MinGap + Ahead(MinGap) + (gap + 1) <= now + 1
               /\ at[i - ACCEL_UNITS] + len[i - ACCEL_UNITS] + 4 + Ahead(MinGap) + (gap + 1) <= now + 1
          ELSE /\ at[i - 1] + Ahead(MinGap) + (gap + 1) <= now + 1
               /\ now + 1 <= at[i - 1] + Ahead(MaxGap) + (gap + 1)
      OBVIOUS
    <3>2. CASE i % ACCEL_UNITS = 0
      <4>1. /\ at[i - 1] + MinGap + Ahead(MinGap) + gap <= now
            /\ at[i - ACCEL_UNITS] + len[i - ACCEL_UNITS] + 4 + Ahead(MinGap) + gap <= now
        BY <3>1, <3>2 DEF Timed, Pace
      <4>2. QED
        BY <2>3, <2>4, <3>1, <3>2, <4>1, Moment
    <3>3. CASE i % ACCEL_UNITS # 0
      <4>1. /\ at[i - 1] + Ahead(MinGap) + gap <= now
            /\ now <= at[i - 1] + Ahead(MaxGap) + gap
        BY <3>1, <3>3 DEF Timed, Pace
      <4>2. QED
        BY <2>2, <2>3, <3>1, <3>3, <4>1, Moment
    <3>4. QED
      BY <3>2, <3>3
  <2>7. QED
    BY <2>1, <2>2, <2>5, <2>6 DEF Pace
<1>2. CASE BusOperation
  <2>1. gap >= MinGap /\ gap' = 1 /\ (Poll \/ LoadHead \/ LoadPtrs \/ ReadStat \/ Drain) /\ i' = i
    BY <1>2 DEF BusOperation, Execute, Poll, LoadHead, LoadPtrs, ReadStat, Drain
  <2>2. i > 0 => at[i - 1] \in Nat /\ at[i - 1] + 1 <= now + 1 /\ at[i - 1] + MinGap <= now
    BY <2>1, Moment DEF Timed, Pace
  <2>3. i > 0 /\ i % ACCEL_UNITS = 0 => at[i - ACCEL_UNITS] \in Nat /\ len[i - ACCEL_UNITS] \in Nat
    <3>1. i > 0 /\ i % ACCEL_UNITS = 0 => i - ACCEL_UNITS \in Nat
      BY Moment, UnitOf
    <3>2. QED
      BY <3>1, Moment
  <2>4. CASE Poll
    <3>1. CASE 0 \in busy_map
      BY <2>1, <2>2, <2>4, <3>1 DEF Pace, Poll
    <3>2. CASE 0 \notin busy_map
      <4>1. pc = "poll" /\ pc' = "head" /\ Ahead(MinGap)' = 0
        BY <2>4, <3>2 DEF Poll, Ahead
      <4>2. i % ACCEL_UNITS = 0
        BY <4>1 DEF Loaded
      <4>3. i > 0 => at[i - ACCEL_UNITS] + len[i - ACCEL_UNITS] + 4 <= now
        BY <2>1, <3>2, <4>1, PollSees
      <4>4. i > 0 => /\ at[i - 1] + MinGap + 0 + 1 <= now + 1
                     /\ at[i - ACCEL_UNITS] + len[i - ACCEL_UNITS] + 4 + 0 + 1 <= now + 1
        BY <2>2, <2>3, <4>2, <4>3, Moment
      <4>5. QED
        BY <2>1, <2>2, <4>1, <4>2, <4>4 DEF Pace
    <3>3. QED
      BY <3>1, <3>2
  <2>5. CASE Drain
    BY <2>1, <2>2, <2>5 DEF Pace, Drain
  <2>6. CASE LoadHead \/ LoadPtrs \/ ReadStat
    <3>1. PICK lo \in Nat, hi \in Nat : lo = Ahead(MinGap) /\ hi = Ahead(MaxGap)
      <4>1. Ahead(MinGap) \in Nat /\ Ahead(MaxGap) \in Nat
        BY FirmwareAssumption DEF Ahead
      <4>2. QED
        BY <4>1
    <3>2. /\ pc \in {"head", "ptrs", "stat"}
          /\ Ahead(MinGap)' = lo + MinGap /\ Ahead(MaxGap)' = hi + MaxGap
      BY <2>6, <3>1, FirmwareAssumption DEF Ahead, LoadHead, LoadPtrs, ReadStat
    <3>3. i > 0 /\ i % ACCEL_UNITS = 0 =>
             /\ at[i - 1] + MinGap + (lo + MinGap) + 1 <= now + 1
             /\ at[i - ACCEL_UNITS] + len[i - ACCEL_UNITS] + 4 + (lo + MinGap) + 1 <= now + 1
      <4>1. SUFFICES ASSUME i > 0, i % ACCEL_UNITS = 0
                     PROVE  /\ at[i - 1] + MinGap + (lo + MinGap) + 1 <= now + 1
                            /\ at[i - ACCEL_UNITS] + len[i - ACCEL_UNITS] + 4 + (lo + MinGap) + 1 <= now + 1
        OBVIOUS
      <4>2. /\ at[i - 1] + MinGap + lo + gap <= now
            /\ at[i - ACCEL_UNITS] + len[i - ACCEL_UNITS] + 4 + lo + gap <= now
        BY <3>1, <3>2, <4>1 DEF Timed, Pace
      <4>3. QED
        BY <2>1, <2>2, <2>3, <4>1, <4>2, Moment
    <3>4. i > 0 /\ i % ACCEL_UNITS # 0 =>
             /\ at[i - 1] + (lo + MinGap) + 1 <= now + 1
             /\ now + 1 <= at[i - 1] + (hi + MaxGap) + 1
      <4>1. SUFFICES ASSUME i > 0, i % ACCEL_UNITS # 0
                     PROVE  /\ at[i - 1] + (lo + MinGap) + 1 <= now + 1
                            /\ now + 1 <= at[i - 1] + (hi + MaxGap) + 1
        OBVIOUS
      <4>2. at[i - 1] + lo + gap <= now /\ now <= at[i - 1] + hi + gap
        BY <3>1, <3>2, <4>1 DEF Timed, Pace
      <4>3. QED
        BY <2>1, <2>2, <4>1, <4>2, Moment
    <3>5. QED
      BY <2>1, <2>2, <3>2, <3>3, <3>4 DEF Pace
  <2>7. QED
    BY <2>1, <2>4, <2>5, <2>6
<1>3. QED
  BY <1>1, <1>2

\* Any other cycle.
LEMMA OtherCycle ==
    ASSUME Margin, FirmwareTypes, Loaded, NEW now, NEW at, NEW len, Timed(now, at, len), ~exec,
           BusOperation \/ Compute, ~(BusOperation /\ pc = "exec"), AcceleratorCycle
    PROVE  dropped' = dropped /\ Timed(now + 1, at, len)'
<1>1. ~Issue /\ ~Drop
  BY DEF Issue, Drop
<1>2. i' = i /\ Pace(now + 1, at, len)'
  BY PaceNext
<1>3. ~exec'
  <2>1. pc = "exec" => pc' = "exec"
    BY DEF Compute
  <2>2. QED
    BY <2>1, AcceleratorTypes
<1>4. \A n \in 0 .. i - 1 : at[n] + 2 <= now
  <2>1. TAKE n \in 0 .. i - 1
  <2>2. at[n] + gap <= now /\ at[n] + 1 # now
    <3>1. at[n] + gap <= now /\ (n # i - 1 => at[n] + 4 * MinGap + gap <= now)
      BY Past
    <3>2. n = i - 1 => now # at[n] + 1
      BY Moment DEF Timed, Waiting
    <3>3. QED
      BY <3>1, <3>2, Moment
  <2>3. QED
    BY <2>2, Moment
<1>5. Clock(now + 1, at, len)'
  BY Moment DEF Clock
<1>6. Waiting(now + 1, at)'
  <2>1. i > 0 => now + 1 # at[i - 1] + 1
    BY <1>4, Moment
  <2>2. QED
    BY <1>2, <1>3, <2>1 DEF Waiting
<1>7. Order(i, at)' /\ Rounds(i, at, len)'
  BY <1>2 DEF Timed, Order, Rounds, InRound
<1>8. Stages(now + 1, at, len)'
  <2>1. ASSUME NEW v \in Units, v >= i PROVE phase'[v] = "idle"
    <3>1. Continues(v)
      BY <1>1, UnitContinues
    <3>2. QED
      BY <2>1, <3>1 DEF Timed, Stages, Continues
  <2>2. ASSUME NEW m \in 0 .. i - 1, m + ACCEL_UNITS >= i
        PROVE  Stage(m % ACCEL_UNITS, m, now + 1, at[m], len[m])'
    BY <1>1, <1>4, <2>2, NextStage
  <2>3. QED
    BY <1>2, <2>1, <2>2 DEF Stages
<1>9. dropped' = dropped
  BY <1>1 DEF AcceleratorCycle
<1>10. QED
  BY <1>2, <1>5, <1>6, <1>7, <1>8, <1>9 DEF Timed
-----------------------------------------------------------------------------
(* No command is dropped.                                                   *)

LEMMA TimedInit == ASSUME Init PROVE \E at, len : Timed(0, at, len)
<1>1. PICK at \in [Nat -> Nat], len \in [Nat -> MinCycles .. MaxCycles] : TRUE
  <2>1. [n \in Nat |-> 0] \in [Nat -> Nat]
    OBVIOUS
  <2>2. [n \in Nat |-> MinCycles] \in [Nat -> MinCycles .. MaxCycles]
    BY FirmwareAssumption
  <2>3. QED
    BY <2>1, <2>2
<1>2. i = 0 /\ exec = FALSE /\ phase = [u \in Units |-> "idle"]
  BY DEF Init
<1>3. Timed(0, at, len)
  BY <1>2 DEF Timed, Clock, Pace, Waiting, Order, Rounds, Stages
<1>4. QED
  BY <1>3

LEMMA FirmwareInvInit == ASSUME Init PROVE FirmwareInv
<1>1. dropped = {}
  BY DEF Init
<1>2. QED
  BY <1>1, TypesInit, TimedInit DEF FirmwareInv

LEMMA FirmwareInvNext ==
    ASSUME Margin, FirmwareInv, Next
    PROVE  FirmwareInv'
<1>1. FirmwareTypes /\ Loaded /\ dropped = {} /\ (BusOperation \/ Compute) /\ AcceleratorCycle
  BY DEF FirmwareInv, Next
<1>2. PICK now, at, len : Timed(now, at, len)
  BY DEF FirmwareInv
<1>3. FirmwareTypes'
  <2>1. busy_map' \subseteq Units
    BY <1>1, AcceleratorTypes
  <2>2. QED
    BY <1>1, <2>1, ProcessorTypes, AcceleratorTypes DEF FirmwareTypes
<1>4. Loaded'
  BY <1>1, LoadedNext
<1>5. dropped' = dropped /\ \E n, a, l : Timed(n, a, l)'
  <2>1. CASE exec
    BY <1>1, <1>2, <2>1, IssueCycle
  <2>2. CASE BusOperation /\ pc = "exec"
    BY <1>1, <1>2, <2>2, ExecuteCycle
  <2>3. CASE ~exec /\ ~(BusOperation /\ pc = "exec")
    BY <1>1, <1>2, <2>3, OtherCycle
  <2>4. QED
    BY <2>1, <2>2, <2>3
<1>6. QED
  BY <1>1, <1>3, <1>4, <1>5 DEF FirmwareInv

LEMMA FirmwareInvStutter ==
    ASSUME FirmwareInv, UNCHANGED vars
    PROVE  FirmwareInv'
<1>1. /\ pc' = pc /\ i' = i /\ gap' = gap /\ command' = command /\ exec' = exec /\ phase' = phase
      /\ left' = left /\ ptrs' = ptrs /\ busy_map' = busy_map /\ dropped' = dropped
  BY DEF vars, processor, accelerator
<1>2. FirmwareTypes' /\ Loaded'
  BY <1>1 DEF FirmwareInv, FirmwareTypes, Loaded
<1>3. PICK now, at, len : Timed(now, at, len)
  BY DEF FirmwareInv
<1>4. Timed(now, at, len)'
  BY <1>1, <1>3 DEF Timed, Clock, Pace, Ahead, Waiting, Order, Rounds, InRound, Stages, Stage
<1>5. QED
  BY <1>1, <1>2, <1>4 DEF FirmwareInv

\* No command is dropped, however long the commands and the ways between two
\* bus operations are within the bounds, as accel_unbuffered_test takes for
\* granted: it polls one unit of each round.
THEOREM NothingDropped ==
    ASSUME Margin
    PROVE  Spec => []NoCommandDropped
<1>1. Init => FirmwareInv
  BY FirmwareInvInit
<1>2. FirmwareInv /\ [Next]_vars => FirmwareInv'
  BY FirmwareInvNext, FirmwareInvStutter
<1>3. FirmwareInv => NoCommandDropped
  BY DEF FirmwareInv, NoCommandDropped
<1>4. QED
  BY <1>1, <1>2, <1>3, PTL DEF Spec
-----------------------------------------------------------------------------
(* What is stored.                                                          *)

\* The addresses of a command are those of its row and column.
LEMMA RightCells ==
    ASSUME Fits, NEW n \in 0 .. Commands - 1, NEW k \in 0 .. count - 1
    PROVE  /\ ElemCell(Pointers(n).a, k) = ptr_a_addr + (n \div cw) * count + k
           /\ ElemCell(Pointers(n).b, k) = ptr_b_addr + k * cw + (n % cw)
           /\ Pointers(n).c % DataCells = ptr_c_addr + n
<1>1. PICK w \in Nat \ {0}, h \in Nat \ {0}, z \in Nat \ {0}, s \in Nat :
          w = cw /\ h = count /\ z = DataCells /\ s = HeapStart
  BY FirmwareAssumption
<1>2. n \in Nat /\ k \in Nat /\ n < Commands /\ k < h /\ Commands \in Nat
  BY <1>1, FirmwareAssumption
<1>3. PICK q \in Nat, r \in 0 .. w - 1 : n = q * w + r /\ r = n % w /\ q = n \div w
  BY <1>1, <1>2, Division
<1>4. PICK x \in Nat : x = rows
  <2>1. Commands \div w \in Nat
    BY <1>1, <1>2, Division
  <2>2. QED
    BY <1>1, <2>1 DEF rows
<1>5. q < x
  <2>1. SUFFICES ASSUME q >= x PROVE FALSE
    OBVIOUS
  <2>2. PICK d \in Nat : q = x + d
    <3>1. q - x \in Nat /\ q = x + (q - x)
      BY <2>1
    <3>2. QED
      BY <3>1
  <2>3. (x + d) * w = x * w + d * w /\ x * w \in Nat /\ d * w \in Nat
    OBVIOUS
  <2>4. PICK a \in Nat, b \in Nat : a = x * w /\ b = d * w
    BY <2>3
  <2>5. Commands = a
    BY <1>1, <1>4, <2>4 DEF Fits
  <2>6. n = a + b + r
    BY <1>3, <2>2, <2>3, <2>4
  <2>7. QED
    BY <1>2, <2>5, <2>6
<1>6. PICK e \in Nat : x = q + 1 + e
  <2>1. x - q - 1 \in Nat /\ x = q + 1 + (x - q - 1)
    BY <1>5
  <2>2. QED
    BY <2>1
<1>7. PICK left_row \in Nat, left_rest \in Nat, right_cell \in Nat, right_size \in Nat :
          left_row = q * h /\ left_rest = e * h /\ right_cell = k * w /\ right_size = h * w
  <2>1. q * h \in Nat /\ e * h \in Nat /\ k * w \in Nat /\ h * w \in Nat
    BY <1>2
  <2>2. QED
    BY <2>1
<1>8. x * h = left_row + h + left_rest
  BY <1>6, <1>7
<1>9. right_cell + w <= right_size
  <2>1. PICK f \in Nat : h = k + 1 + f
    <3>1. h - k - 1 \in Nat /\ h = k + 1 + (h - k - 1)
      BY <1>2
    <3>2. QED
      BY <3>1
  <2>2. PICK g \in Nat : g = f * w
    OBVIOUS
  <2>3. (k + 1 + f) * w = k * w + w + f * w
    BY <1>2
  <2>4. right_size = right_cell + w + g
    BY <1>7, <2>1, <2>2, <2>3
  <2>5. QED
    BY <2>4
<1>10. /\ ptr_a_addr = s /\ ptr_b_addr = s + (left_row + h + left_rest)
       /\ ptr_c_addr = s + (left_row + h + left_rest) + right_size
  <2>1. rows * count = left_row + h + left_rest
    BY <1>1, <1>4, <1>8
  <2>2. count * cw = right_size
    BY <1>1, <1>7
  <2>3. QED
    BY <1>1, <2>1, <2>2 DEF ptr_a_addr, ptr_b_addr, ptr_c_addr, accel_malloc
<1>11. s + (left_row + h + left_rest) + right_size + Commands <= z
  BY <1>1, <1>10 DEF Fits
<1>12. (count * (n \div cw)) % OffsetRange = left_row
  <2>1. count * (n \div cw) = left_row
    BY <1>1, <1>3, <1>7
  <2>2. count * (rows - 1) = left_row + left_rest
    <3>1. h * (q + e) = q * h + e * h
      BY <1>1
    <3>2. x - 1 = q + e
      BY <1>6
    <3>3. QED
      BY <1>1, <1>4, <1>7, <3>1, <3>2
  <2>3. left_row < OffsetRange
    BY <1>4, <1>6, <2>2, FirmwareAssumption DEF Fits
  <2>4. left_row % OffsetRange = left_row
    BY <2>3, SmallRemainder, FirmwareAssumption
  <2>5. QED
    BY <2>1, <2>4
<1>13. ElemCell(Pointers(n).a, k) = s + left_row + k
  <2>1. ElemCell(Pointers(n).a, k) = (s + left_row + 1 * k) % z
    BY <1>1, <1>10, <1>12 DEF ElemCell, Pointers
  <2>2. PICK c \in Nat : c = s + left_row + k /\ c = s + left_row + 1 * k /\ c < z
    BY <1>2, <1>11
  <2>3. c % z = c
    BY <2>2, SmallRemainder
  <2>4. QED
    BY <2>1, <2>2, <2>3
<1>14. ElemCell(Pointers(n).b, k) = ptr_b_addr + right_cell + r
  <2>1. ElemCell(Pointers(n).b, k) = (ptr_b_addr + r + w * k) % z
    BY <1>1, <1>3 DEF ElemCell, Pointers
  <2>2. w * k = right_cell
    BY <1>2, <1>7
  <2>3. PICK c \in Nat : c = ptr_b_addr + r + right_cell /\ c = ptr_b_addr + right_cell + r /\ c < z
    BY <1>9, <1>10, <1>11, <1>2
  <2>4. c % z = c
    BY <2>3, SmallRemainder
  <2>5. QED
    BY <2>1, <2>2, <2>3, <2>4
<1>15. Pointers(n).c % DataCells = ptr_c_addr + n
  <2>1. PICK c \in Nat : c = ptr_c_addr + n /\ c < z
    BY <1>2, <1>10, <1>11
  <2>2. c % z = c
    BY <2>1, SmallRemainder
  <2>3. QED
    BY <1>1, <2>1, <2>2 DEF Pointers
<1>16. QED
  BY <1>1, <1>3, <1>7, <1>10, <1>13, <1>14, <1>15

\* What the unit makes of the addresses of command n is element n.
LEMMA RightResult ==
    ASSUME Fits, NEW n \in 0 .. Commands - 1
    PROVE  Result(Pointers(n)) = Product(n \div cw, n % cw)
<1>1. \A k \in 0 .. count - 1 : /\ ElemCell(Pointers(n).a, k) = ptr_a_addr + (n \div cw) * count + k
                                /\ ElemCell(Pointers(n).b, k) = ptr_b_addr + k * cw + (n % cw)
  BY RightCells
<1>2. QED
  BY <1>1 DEF Result, Product
\* The cells of the results.
ResultCells == ptr_c_addr .. ptr_c_addr + Commands - 1

LEMMA ResultCell ==
    /\ ptr_c_addr \in Nat
    /\ \A n \in 0 .. Commands - 1 : ptr_c_addr + n \in ResultCells
<1>1. ptr_c_addr \in Nat
  <2>1. PICK x \in Nat : x = rows
    <3>1. Commands \div cw \in Nat
      BY Division, FirmwareAssumption
    <3>2. QED
      BY <3>1 DEF rows
  <2>2. x * count \in Nat /\ count * cw \in Nat
    BY FirmwareAssumption
  <2>3. QED
    BY <2>1, <2>2, FirmwareAssumption DEF ptr_c_addr, accel_malloc
<1>2. Commands \in Nat
  BY FirmwareAssumption
<1>3. QED
  BY <1>1, <1>2 DEF ResultCells

\* The unit that stores has a command of the past, with its pointers.
LEMMA StoringUnit ==
    ASSUME FirmwareTypes, Fits, NEW now, NEW at, NEW len, Timed(now, at, len),
           NEW u \in Units, Writes(u)
    PROVE  \E n \in 0 .. i - 1 : /\ n % ACCEL_UNITS = u /\ n + ACCEL_UNITS >= i
                                 /\ ptrs[u] = Pointers(n)
<1>1. phase[u] = "done"
  BY DEF Writes
<1>2. u < i
  BY <1>1, Moment DEF Timed, Stages, Units
<1>3. PICK n \in 0 .. i - 1 : n + ACCEL_UNITS >= i /\ n % ACCEL_UNITS = u
  BY <1>2, Moment, LastOfUnit
<1>4. PICK s \in Nat : s = at[n]
  BY Moment
<1>5. Stage(u, n, now, s, len[n])
  BY <1>3, <1>4 DEF Timed, Stages
<1>6. s + 1 <= now /\ now \in Nat
  <2>1. s + gap <= now
    BY <1>4, Past
  <2>2. now \in Nat /\ gap \in Nat \ {0}
    BY Moment
  <2>3. QED
    BY <1>4, <2>1, <2>2
<1>7. s + 2 <= now
  <2>1. now # s + 1
    BY <1>1, <1>5 DEF Stage
  <2>2. QED
    BY <1>6, <2>1
<1>8. ptrs[u] = Pointers(n)
  BY <1>1, <1>5, <1>7 DEF Stage
<1>9. QED
  BY <1>3, <1>8

\* A unit that stores writes the element of its command and nothing else.
LEMMA MemoryNext ==
    ASSUME FirmwareTypes, Fits, NEW now, NEW at, NEW len, Timed(now, at, len),
           memory = [c \in ResultCells |-> memory[c]], AcceleratorCycle
    PROVE  /\ memory' = [c \in ResultCells |-> memory'[c]]
           /\ \A n \in 0 .. i - 1 :
                 IF n + ACCEL_UNITS >= i /\ Writes(n % ACCEL_UNITS)
                 THEN memory'[ptr_c_addr + n] = Product(n \div cw, n % cw)
                 ELSE memory'[ptr_c_addr + n] = memory[ptr_c_addr + n]
<1>1. DOMAIN memory = ResultCells
  OBVIOUS
<1>2. memory' = [c \in DOMAIN memory \cup StoreCells |->
                    IF c \in StoreCells THEN Result(ptrs[CHOOSE u \in Units : Writes(u)])
                                        ELSE memory[c]]
  BY DEF AcceleratorCycle
<1>3. i \in Nat /\ i <= Commands /\ Commands \in Nat
  BY FirmwareAssumption DEF FirmwareTypes
<1>4. CASE \A u \in Units : ~Writes(u)
  <2>1. StoreCells = {}
    BY <1>4 DEF StoreCells
  <2>2. memory' = [c \in ResultCells |-> memory[c]]
    BY <1>1, <1>2, <2>1
  <2>3. memory' = memory
    BY <2>2
  <2>4. \A n \in 0 .. i - 1 : n % ACCEL_UNITS \in Units
    BY UnitOf
  <2>5. QED
    BY <1>4, <2>3, <2>4
<1>5. CASE \E u \in Units : Writes(u)
  <2>1. PICK u \in Units : Writes(u)
    BY <1>5
  <2>2. \A v \in Units : Writes(v) <=> v = u
    BY <2>1 DEF Writes, Units
  <2>3. (CHOOSE v \in Units : Writes(v)) = u
    BY <2>2
  <2>4. PICK n \in 0 .. i - 1 : /\ n % ACCEL_UNITS = u /\ n + ACCEL_UNITS >= i
                                /\ ptrs[u] = Pointers(n)
    BY <2>1, StoringUnit
  <2>5. n \in 0 .. Commands - 1
    BY <1>3
  <2>6. ptrs[u].c % DataCells = ptr_c_addr + n
    <3>1. 0 \in 0 .. count - 1
      BY FirmwareAssumption
    <3>2. Pointers(n).c % DataCells = ptr_c_addr + n
      BY <2>5, <3>1, RightCells
    <3>3. QED
      BY <2>4, <3>2
  <2>7. StoreCells = {ptr_c_addr + n}
    BY <2>2, <2>6 DEF StoreCells
  <2>8. Result(ptrs[u]) = Product(n \div cw, n % cw)
    BY <2>4, <2>5, RightResult
  <2>9. ptr_c_addr + n \in ResultCells
    BY <2>5, ResultCell
  <2>10. memory' = [c \in ResultCells |-> IF c = ptr_c_addr + n THEN Product(n \div cw, n % cw)
                                                               ELSE memory[c]]
    BY <1>1, <1>2, <2>3, <2>7, <2>8, <2>9
  <2>11. memory' = [c \in ResultCells |-> memory'[c]]
    BY <2>10
  <2>12. ASSUME NEW m \in 0 .. i - 1
         PROVE  IF m + ACCEL_UNITS >= i /\ Writes(m % ACCEL_UNITS)
                 THEN memory'[ptr_c_addr + m] = Product(m \div cw, m % cw)
                 ELSE memory'[ptr_c_addr + m] = memory[ptr_c_addr + m]
    <3>1. CASE m = n
      BY <2>1, <2>4, <2>9, <2>10, <3>1
    <3>2. CASE m # n
      <4>1. ~(m + ACCEL_UNITS >= i /\ Writes(m % ACCEL_UNITS))
        <5>1. m % ACCEL_UNITS \in Units
          BY UnitOf
        <5>2. QED
          BY <2>2, <2>4, <3>2, <5>1, OwnUnit
      <4>2. m \in 0 .. Commands - 1
        BY <1>3
      <4>3. ptr_c_addr + m \in ResultCells /\ ptr_c_addr + m # ptr_c_addr + n
        BY <3>2, <4>2, ResultCell
      <4>4. QED
        BY <2>10, <4>1, <4>3
    <3>3. QED
      BY <3>1, <3>2
  <2>13. QED
    BY <2>11, <2>12
<1>6. QED
  BY <1>4, <1>5

\* The invariant in one cycle.
LEMMA StoredNext ==
    ASSUME FirmwareTypes, Fits, NEW now, NEW at, NEW len, Timed(now, at, len), Stored(now, at),
           AcceleratorCycle, FirmwareTypes', NEW then, NEW long, Timed(now + 1, then, long)',
           \A n \in 0 .. i - 1 : then[n] = at[n],
           i' = i \/ (i' = i + 1 /\ then[i] = now)
    PROVE  Stored(now + 1, then)'
<1>1. memory = [c \in ResultCells |-> memory[c]]
  BY DEF Stored, ResultCells
<1>2. memory' = [c \in ResultCells |-> memory'[c]]
  BY <1>1, MemoryNext
<1>3. /\ now \in Nat /\ i \in Nat /\ ACCEL_UNITS \in Nat \ {0}
      /\ then \in [Nat -> Nat] /\ long \in [Nat -> MinCycles .. MaxCycles]
      /\ \A n \in Nat : long[n] \in Nat \ {0}
  BY Moment, FirmwareAssumption DEF Timed, Clock
<1>4. ASSUME NEW n \in 0 .. i - 1
      PROVE  \/ memory'[ptr_c_addr + n] = Product(n \div cw, n % cw)
             \/ n + ACCEL_UNITS >= i /\ phase'[n % ACCEL_UNITS] # "idle"
  <2>1. PICK u \in Units : u = n % ACCEL_UNITS
    BY UnitOf
  <2>2. CASE n + ACCEL_UNITS >= i /\ Writes(u)
    BY <1>1, <2>1, <2>2, MemoryNext
  <2>3. CASE ~(n + ACCEL_UNITS >= i /\ Writes(u))
    <3>1. memory'[ptr_c_addr + n] = memory[ptr_c_addr + n]
      BY <1>1, <2>1, <2>3, MemoryNext
    <3>2. CASE memory[ptr_c_addr + n] = Product(n \div cw, n % cw)
      BY <3>1, <3>2
    <3>3. CASE n + ACCEL_UNITS >= i /\ now = at[n] + 1
      <4>1. n = i - 1 /\ exec
        <5>1. at[n] \in Nat
          BY Moment
        <5>2. n = i - 1
          BY <3>3, <5>1, Past, Moment
        <5>3. QED
          BY <1>3, <3>3, <5>2 DEF Timed, Waiting
      <4>2. i' = i
        <5>1. at[n] \in Nat /\ then[n] = now - 1
          BY <1>3, <3>3, Moment
        <5>2. ASSUME i' = i + 1, then[i] = now PROVE FALSE
          <6>1. n \in 0 .. (i + 1) - 1 /\ i \in 0 .. (i + 1) - 1 /\ n < i
            BY <1>3, <4>1
          <6>2. then[n] + 4 * MinGap <= then[i]
            BY <5>2, <6>1 DEF Timed, Order
          <6>3. QED
            BY <1>3, <5>1, <5>2, <6>2, FirmwareAssumption
        <5>3. QED
          BY <5>2
      <4>3. Stage(u, n, now + 1, then[n], long[n])'
        BY <2>1, <3>3, <4>2 DEF Timed, Stages
      <4>4. now + 1 = then[n] + 2 /\ then[n] \in Nat
        BY <1>3, <3>3, Moment
      <4>5. phase'[u] = "run"
        BY <1>3, <4>3, <4>4 DEF Stage
      <4>6. QED
        BY <2>1, <3>3, <4>5
    <3>4. CASE n + ACCEL_UNITS >= i /\ phase[u] # "idle"
      <4>1. ~(Issue /\ u = command.unit)
        BY <3>4 DEF Issue
      <4>2. Continues(u)
        BY <4>1, UnitContinues
      <4>3. phase'[u] # "idle"
        BY <2>3, <3>4, <4>2 DEF Continues, FirmwareTypes
      <4>4. QED
        BY <2>1, <3>4, <4>3
    <3>5. QED
      BY <2>1, <3>2, <3>3, <3>4 DEF Stored
  <2>4. QED
    BY <2>2, <2>3
<1>5. ASSUME NEW n \in 0 .. i' - 1
      PROVE  \/ memory'[ptr_c_addr + n] = Product(n \div cw, n % cw)
             \/ n + ACCEL_UNITS >= i' /\ (now + 1 = then[n] + 1 \/ phase'[n % ACCEL_UNITS] # "idle")
  <2>1. CASE i' = i
    BY <1>4, <2>1
  <2>2. CASE i' = i + 1 /\ then[i] = now
    <3>1. CASE n = i
      <4>1. n + ACCEL_UNITS >= i'
        BY <1>3, <2>2, <3>1
      <4>2. QED
        BY <2>2, <3>1, <4>1
    <3>2. CASE n # i
      <4>1. n \in 0 .. i - 1
        BY <1>3, <2>2, <3>2
      <4>2. CASE n + ACCEL_UNITS >= i'
        BY <1>4, <4>1, <4>2
      <4>3. CASE n + ACCEL_UNITS < i' /\ n + ACCEL_UNITS >= i
        <5>1. n + ACCEL_UNITS = i
          BY <1>3, <2>2, <4>3
        <5>2. n % ACCEL_UNITS = i % ACCEL_UNITS
          <6>1. (n + ACCEL_UNITS) % ACCEL_UNITS = n % ACCEL_UNITS
            BY UnitOf
          <6>2. QED
            BY <5>1, <6>1
        <5>3. i \in 0 .. i' - 1 /\ i + ACCEL_UNITS >= i'
          BY <1>3, <2>2
        <5>4. PICK j \in Nat : j = i
          BY <1>3
        <5>5. phase'[i % ACCEL_UNITS] = "idle"
          <6>1. Stage(j % ACCEL_UNITS, j, now + 1, then[j], long[j])'
            BY <5>3, <5>4 DEF Timed, Stages
          <6>2. now + 1 = then[j] + 1
            BY <2>2, <5>4
          <6>3. phase'[j % ACCEL_UNITS] = "idle"
            BY <6>1, <6>2 DEF Stage
          <6>4. QED
            BY <5>4, <6>3
        <5>6. QED
          BY <1>4, <4>1, <5>2, <5>5
      <4>4. CASE ~(n + ACCEL_UNITS >= i)
        BY <1>4, <4>1, <4>4
      <4>5. QED
        BY <1>3, <2>2, <4>2, <4>3, <4>4
    <3>3. QED
      BY <3>1, <3>2
  <2>3. QED
    BY <2>1, <2>2
<1>6. (memory = [c \in ptr_c_addr .. ptr_c_addr + Commands - 1 |-> memory[c]])'
  BY <1>2 DEF ResultCells, ptr_c_addr, rows, accel_malloc
<1>7. QED
  BY <1>5, <1>6 DEF Stored, Product, ptr_a_addr, ptr_b_addr, ptr_c_addr, rows, accel_malloc
-----------------------------------------------------------------------------
(* The result matrix is complete.                                           *)

\* The firmware prints when nothing is on its way any more.
Finished == pc = "print" => ~exec /\ \A u \in Units : phase[u] = "idle"

LEMMA FinishedNext ==
    ASSUME FirmwareTypes, NEW now, NEW at, NEW len, Timed(now, at, len),
           BusOperation \/ Compute, AcceleratorCycle
    PROVE  Finished'
<1>1. SUFFICES ASSUME pc' = "print" PROVE ~exec' /\ \A u \in Units : phase'[u] = "idle"
  BY DEF Finished
<1>2. pc = "drain" /\ busy_map = {} /\ gap >= MinGap /\ BusOperation
  BY <1>1 DEF BusOperation, Compute, Poll, LoadHead, LoadPtrs, ReadStat, Execute, Drain, Before
<1>3. ~exec'
  BY <1>2, AcceleratorTypes
<1>4. ASSUME NEW u \in Units PROVE phase'[u] = "idle"
  <2>1. phase[u] = "idle"
    <3>1. CASE u >= i
      BY <3>1 DEF Timed, Stages
    <3>2. CASE u < i
      <4>1. PICK n \in 0 .. i - 1 : n + ACCEL_UNITS >= i /\ n % ACCEL_UNITS = u
        BY <3>2, Moment, LastOfUnit
      <4>2. Stage(u, n, now, at[n], len[n])
        BY <4>1 DEF Timed, Stages
      <4>3. at[n] + 3 <= now
        BY <1>2, Past, Moment
      <4>4. now >= at[n] + len[n] + 4
        BY <1>2, <4>2, <4>3, Moment DEF Stage
      <4>5. QED
        BY <4>2, <4>4 DEF Stage
    <3>3. QED
      BY <3>1, <3>2, Moment DEF Units
  <2>2. ~Issue
    BY <1>2, NotWaiting DEF Issue
  <2>3. QED
    BY <2>1, <2>2, UnitContinues DEF Continues
<1>5. QED
  BY <1>3, <1>4

MatrixInv ==
    /\ FirmwareTypes /\ Loaded /\ dropped = {} /\ Finished
    /\ \E now, at, len : Timed(now, at, len) /\ Stored(now, at)

LEMMA MatrixInvInit == ASSUME Init PROVE MatrixInv
<1>1. PICK at, len : Timed(0, at, len)
  BY TimedInit
<1>2. Stored(0, at)
  <2>1. i = 0 /\ memory = [c \in ptr_c_addr .. ptr_c_addr + Commands - 1 |-> {}]
    BY DEF Init
  <2>2. memory = [c \in ptr_c_addr .. ptr_c_addr + Commands - 1 |-> memory[c]]
    BY <2>1
  <2>3. QED
    BY <2>1, <2>2 DEF Stored
<1>3. dropped = {} /\ Finished
  BY DEF Init, Finished
<1>4. QED
  BY <1>1, <1>2, <1>3, TypesInit DEF MatrixInv

LEMMA MatrixInvNext ==
    ASSUME Margin, Fits, MatrixInv, Next
    PROVE  MatrixInv'
<1>1. FirmwareTypes /\ Loaded /\ dropped = {} /\ (BusOperation \/ Compute) /\ AcceleratorCycle
  BY DEF MatrixInv, Next
<1>2. PICK now, at, len : Timed(now, at, len) /\ Stored(now, at)
  BY DEF MatrixInv
<1>3. FirmwareInv
  BY <1>1, <1>2 DEF FirmwareInv
<1>4. FirmwareTypes' /\ Loaded' /\ (dropped = {})'
  BY <1>3, FirmwareInvNext DEF FirmwareInv
<1>5. Finished'
  BY <1>1, <1>2, FinishedNext
<1>6. \E n, a, l : Timed(n, a, l)' /\ Stored(n, a)'
  <2>1. CASE exec
    <3>1. PICK l : Timed(now + 1, at, l)'
      BY <1>1, <1>2, <2>1, IssueCycle
    <3>2. i' = i
      <4>1. ~BusOperation
        BY <1>1, <1>2, <2>1, NotWaiting
      <4>2. QED
        BY <1>1, <4>1 DEF Compute
    <3>3. Stored(now + 1, at)'
      BY <1>1, <1>2, <1>4, <3>1, <3>2, StoredNext
    <3>4. QED
      BY <3>1, <3>3
  <2>2. CASE BusOperation /\ pc = "exec"
    <3>1. PICK then : /\ Timed(now + 1, then, len)'
                      /\ then[i] = now /\ \A m \in Nat : m # i => then[m] = at[m]
      BY <1>1, <1>2, <2>2, ExecuteCycle
    <3>2. i' = i + 1
      BY <2>2 DEF BusOperation, Execute, Poll, LoadHead, LoadPtrs, ReadStat, Drain
    <3>3. \A n \in 0 .. i - 1 : then[n] = at[n]
      BY <1>1, <3>1, FirmwareAssumption DEF FirmwareTypes
    <3>4. Stored(now + 1, then)'
      BY <1>1, <1>2, <1>4, <3>1, <3>2, <3>3, StoredNext
    <3>5. QED
      BY <3>1, <3>4
  <2>3. CASE ~exec /\ ~(BusOperation /\ pc = "exec")
    <3>1. Timed(now + 1, at, len)'
      BY <1>1, <1>2, <2>3, OtherCycle
    <3>2. i' = i
      BY <1>1, <1>2, <2>3, PaceNext
    <3>3. Stored(now + 1, at)'
      BY <1>1, <1>2, <1>4, <3>1, <3>2, StoredNext
    <3>4. QED
      BY <3>1, <3>3
  <2>4. QED
    BY <2>1, <2>2, <2>3
<1>7. QED
  BY <1>4, <1>5, <1>6 DEF MatrixInv

LEMMA MatrixInvStutter ==
    ASSUME MatrixInv, UNCHANGED vars
    PROVE  MatrixInv'
<1>1. /\ pc' = pc /\ i' = i /\ gap' = gap /\ command' = command /\ exec' = exec /\ phase' = phase
      /\ left' = left /\ ptrs' = ptrs /\ busy_map' = busy_map /\ memory' = memory /\ dropped' = dropped
  BY DEF vars, processor, accelerator
<1>2. FirmwareTypes' /\ Loaded' /\ Finished'
  BY <1>1 DEF MatrixInv, FirmwareTypes, Loaded, Finished
<1>3. PICK now, at, len : Timed(now, at, len) /\ Stored(now, at)
  BY DEF MatrixInv
<1>4. Timed(now, at, len)'
  BY <1>1, <1>3 DEF Timed, Clock, Pace, Ahead, Waiting, Order, Rounds, InRound, Stages, Stage
<1>5. Stored(now, at)'
  BY <1>1, <1>3 DEF Stored
<1>6. QED
  BY <1>1, <1>2, <1>4, <1>5 DEF MatrixInv

LEMMA MatrixFollows == ASSUME MatrixInv PROVE MatrixComplete
<1>1. SUFFICES ASSUME pc = "print"
      PROVE  memory = [c \in ptr_c_addr .. ptr_c_addr + Commands - 1 |->
                         Product((c - ptr_c_addr) \div cw, (c - ptr_c_addr) % cw)]
  BY DEF MatrixComplete
<1>2. PICK now, at, len : Timed(now, at, len) /\ Stored(now, at)
  BY DEF MatrixInv
<1>3. FirmwareTypes /\ i = Commands /\ ~exec /\ \A u \in Units : phase[u] = "idle"
  BY <1>1 DEF MatrixInv, Loaded, Finished
<1>4. memory = [c \in ptr_c_addr .. ptr_c_addr + Commands - 1 |-> memory[c]]
  BY <1>2 DEF Stored
<1>5. ASSUME NEW c \in ptr_c_addr .. ptr_c_addr + Commands - 1
      PROVE  memory[c] = Product((c - ptr_c_addr) \div cw, (c - ptr_c_addr) % cw)
  <2>1. ptr_c_addr \in Nat /\ Commands \in Nat
    BY ResultCell, FirmwareAssumption
  <2>2. PICK n \in 0 .. i - 1 : n = c - ptr_c_addr /\ c = ptr_c_addr + n
    BY <1>3, <2>1
  <2>3. n % ACCEL_UNITS \in Units
    BY UnitOf
  <2>4. now # at[n] + 1
    <3>1. n = i - 1 => now # at[n] + 1
      BY <1>2, <1>3, Moment DEF Timed, Waiting
    <3>2. n # i - 1 => at[n] + 4 * MinGap + gap <= now
      BY <1>2, <1>3, Past
    <3>3. QED
      BY <1>2, <1>3, <3>1, <3>2, Moment
  <2>5. memory[ptr_c_addr + n] = Product(n \div cw, n % cw)
    BY <1>2, <1>3, <2>3, <2>4 DEF Stored
  <2>6. QED
    BY <2>2, <2>5
<1>6. QED
  BY <1>4, <1>5

\* When the firmware prints, each element of the result is the product of its
\* row and column, and nothing else was written to: allocations, offsets and
\* pointers of accel_unbuffered_test are right for any matrices that fit, and
\* its last loop waits for the last result.
THEOREM MatrixIsComplete ==
    ASSUME Margin, Fits
    PROVE  Spec => []MatrixComplete
<1>1. Init => MatrixInv
  BY MatrixInvInit
<1>2. MatrixInv /\ [Next]_vars => MatrixInv'
  BY MatrixInvNext, MatrixInvStutter
<1>3. MatrixInv => MatrixComplete
  BY MatrixFollows
<1>4. QED
  BY <1>1, <1>2, <1>3, PTL DEF Spec
=============================================================================
