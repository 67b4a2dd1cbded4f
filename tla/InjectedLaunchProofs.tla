------------------------ MODULE InjectedLaunchProofs ------------------------
(***************************************************************************)
(* Proof that cuprof's launcher, configuration and trace writer (main.cc,  *)
(* config.cc, trace_writer.cc; module CuprofLaunch) profile the program    *)
(* that was asked for, in the window that was asked for, for any command   *)
(* line and any width of the integers.                                     *)
(***************************************************************************)
EXTENDS InjectedCode, Sequences, SequenceTheorems, NaturalsInduction,
        WellFoundedInduction, TLAPS

-----------------------------------------------------------------------------
(* The words.                                                              *)

(* The words before q are options, cut at C. *)
CutsAt(words, q, C) ==
  /\ C \subseteq 1..q /\ 1 \in C /\ q \in C
  /\ \A i, j \in C : i < j /\ (\A k \in C : k <= i \/ k >= j) =>
       Launcher!IsOption(SubSeq(words, i, j - 1))

(* The duration they ask for, the last one. *)
Durations(words, q, C) == {i \in C : i < q /\ words[i] = "-d"}
Asks(words, q, C, duration) ==
  IF Durations(words, q, C) = {} THEN duration = Launcher!Unset
  ELSE \E i \in Durations(words, q, C) :
         (\A j \in Durations(words, q, C) : j <= i) /\ duration = words[i + 1]

Reads(words, q, duration) ==
  \E C \in SUBSET (1..q) : CutsAt(words, q, C) /\ Asks(words, q, C, duration)

LEMMA PieceIs ==
  ASSUME NEW words \in Seq(Launcher!Words), NEW m \in Nat, NEW n \in Nat,
         m >= 1, n <= Len(words), m <= n + 1
  PROVE  /\ SubSeq(words, m, n) \in Seq(Launcher!Words)
         /\ Len(SubSeq(words, m, n)) = n - m + 1
         /\ \A i \in 1..(n - m + 1) : SubSeq(words, m, n)[i] = words[m + i - 1]
<1>1. \A i \in m..n : words[i] \in Launcher!Words
  BY ElementOfSeq, LenProperties
<1>2. m \in Int /\ n \in Int
  OBVIOUS
<1>3. SubSeq(words, m, n) \in Seq(Launcher!Words)
  BY ONLY <1>1, <1>2, SubSeqProperties, Zenon
<1>4. Len(SubSeq(words, m, n)) = IF m <= n THEN n - m + 1 ELSE 0
  BY ONLY <1>1, <1>2, SubSeqProperties, Zenon
<1>5. \A i \in 1..(n - m + 1) : SubSeq(words, m, n)[i] = words[m + i - 1]
  BY ONLY <1>1, <1>2, SubSeqProperties
<1>6. Len(SubSeq(words, m, n)) = n - m + 1
  BY <1>4
<1>7. QED
  BY <1>3, <1>5, <1>6, Zenon

LEMMA OptionIs ==
  ASSUME NEW words \in Seq(Launcher!Words), NEW q \in 1..Len(words)
  PROVE  /\ words[q] = "-v" => Launcher!IsOption(SubSeq(words, q, q))
         /\ words[q] \in {"-o", "-d"} /\ q < Len(words) =>
              Launcher!IsOption(SubSeq(words, q, q + 1))
<1>0. Len(words) \in Nat /\ \A i \in 1..Len(words) : words[i] \in Launcher!Words
  BY ElementOfSeq, LenProperties
<1>1. ASSUME words[q] = "-v" PROVE Launcher!IsOption(SubSeq(words, q, q))
  <2>1. /\ q \in Nat /\ q >= 1 /\ q <= Len(words) /\ q <= q + 1
        /\ q - q + 1 = 1 /\ q + 1 - 1 = q /\ 1 \in 1..1
    BY <1>0
  <2>2. /\ SubSeq(words, q, q) \in Seq(Launcher!Words)
        /\ Len(SubSeq(words, q, q)) = q - q + 1
        /\ \A i \in 1..(q - q + 1) : SubSeq(words, q, q)[i] = words[q + i - 1]
    BY <2>1, PieceIs, Zenon
  <2>3. SubSeq(words, q, q)[1] = words[q + 1 - 1]
    BY <2>1, <2>2, Zenon
  <2>4. PICK s \in Seq(Launcher!Words) : s = SubSeq(words, q, q) /\ Len(s) = 1 /\ s[1] = "-v"
    BY <1>1, <2>1, <2>2, <2>3, Zenon
  <2>5. s = <<"-v">>
    <3>1. PICK v : v = "-v"
      OBVIOUS
    <3>2. v \in Launcher!Words
      BY <3>1 DEF Launcher!Words
    <3>3. PICK one \in Seq(Launcher!Words) : one = <<v>> /\ Len(one) = 1 /\ one[1] = v
      <4>1. <<v>> \in Seq(Launcher!Words) /\ Len(<<v>>) = 1 /\ <<v>>[1] = v
        BY <3>2
      <4>2. QED
        BY <4>1, Zenon
    <3>4. \A i \in 1..Len(s) : s[i] = one[i]
      BY <2>4, <3>1, <3>3
    <3>5. s = one
      BY <2>4, <3>3, <3>4, SeqEqual
    <3>6. QED
      BY <3>1, <3>3, <3>5, Zenon
  <2>6. QED
    BY <2>4, <2>5, Zenon DEF Launcher!IsOption
<1>2. ASSUME words[q] \in {"-o", "-d"}, q < Len(words)
      PROVE  Launcher!IsOption(SubSeq(words, q, q + 1))
  <2>1. q \in Nat /\ q + 1 \in Nat /\ q >= 1 /\ q + 1 <= Len(words) /\ q <= (q + 1) + 1
    BY <1>0, <1>2
  <2>2. (q + 1) - q + 1 = 2 /\ q + 1 - 1 = q /\ 1 \in 1..2
    BY <1>0
  <2>3. /\ Len(SubSeq(words, q, q + 1)) = (q + 1) - q + 1
        /\ \A i \in 1..((q + 1) - q + 1) : SubSeq(words, q, q + 1)[i] = words[q + i - 1]
    BY <2>1, PieceIs, Zenon
  <2>4. Len(SubSeq(words, q, q + 1)) = 2 /\ SubSeq(words, q, q + 1)[1] \in {"-o", "-d"}
    <3>1. SubSeq(words, q, q + 1)[1] = words[q + 1 - 1]
      BY <2>2, <2>3, Zenon
    <3>2. QED
      BY <1>2, <2>2, <2>3, <3>1, Zenon
  <2>5. QED
    BY <2>4, Zenon DEF Launcher!IsOption
<1>3. QED
  BY <1>1, <1>2, Zenon

\* One more option is read.
LEMMA ReadsOn ==
  ASSUME NEW words \in Seq(Launcher!Words), NEW q \in Nat, NEW r \in Nat, q < r,
         NEW duration, NEW later, Reads(words, q, duration),
         Launcher!IsOption(SubSeq(words, q, r - 1)),
         later = IF words[q] = "-d" THEN words[q + 1] ELSE duration
  PROVE  Reads(words, r, later)
<1>1. PICK C \in SUBSET (1..q) : CutsAt(words, q, C) /\ Asks(words, q, C, duration)
  BY DEF Reads
<1>2. /\ C \subseteq 1..q /\ 1 \in C /\ q \in C
      /\ \A i, j \in C : i < j /\ (\A k \in C : k <= i \/ k >= j) =>
           Launcher!IsOption(SubSeq(words, i, j - 1))
  BY <1>1, Zenon DEF CutsAt
<1>3. PICK D : D = C \cup {r}
  OBVIOUS
<1>4. \A i \in C : i \in Nat /\ i <= q /\ i < r
  BY <1>2
<1>5. ASSUME NEW i \in D, NEW j \in D, i < j, \A k \in D : k <= i \/ k >= j
      PROVE  Launcher!IsOption(SubSeq(words, i, j - 1))
  <2>1. CASE j = r
    <3>1. i \in C
      BY <1>3, <1>4, <1>5, <2>1
    <3>2. q <= i \/ q >= r
      BY <1>2, <1>3, <1>5, <2>1
    <3>3. i = q
      BY <1>4, <3>1, <3>2
    <3>4. QED
      BY <2>1, <3>3
  <2>2. CASE j \in C
    <3>1. i \in C
      BY <1>3, <1>4, <1>5, <2>2
    <3>2. \A k \in C : k <= i \/ k >= j
      BY <1>3, <1>5
    <3>3. QED
      BY <1>2, <1>5, <2>2, <3>1, <3>2, Zenon
  <2>3. QED
    BY <1>3, <2>1, <2>2
<1>6. D \subseteq 1..r /\ 1 \in D /\ r \in D
  BY <1>2, <1>3, <1>4
<1>7. CutsAt(words, r, D)
  BY <1>5, <1>6, Zenon DEF CutsAt
<1>8. Durations(words, r, D) =
        Durations(words, q, C) \cup (IF words[q] = "-d" THEN {q} ELSE {})
  <2>1. /\ \A i \in C : i < r /\ (i < q \/ i = q) /\ ~(q < q)
        /\ ~(r < r) /\ q \in C
    BY <1>2, <1>4
  <2>2. ASSUME NEW i
        PROVE  i \in Durations(words, r, D) <=>
                 i \in Durations(words, q, C) \cup (IF words[q] = "-d" THEN {q} ELSE {})
    <3>1. i \in Durations(words, r, D) <=> i \in D /\ i < r /\ words[i] = "-d"
      BY Zenon DEF Durations
    <3>2. i \in Durations(words, q, C) <=> i \in C /\ i < q /\ words[i] = "-d"
      BY Zenon DEF Durations
    <3>3. i \in D <=> i \in C \/ i = r
      BY <1>3, Zenon
    <3>4. QED
      BY <2>1, <3>1, <3>2, <3>3, Zenon
  <2>3. QED
    BY <2>2, Zenon
<1>9. \A i \in Durations(words, q, C) : i < q /\ i <= q
  BY <1>4 DEF Durations
<1>10. Asks(words, r, D, later)
  <2>1. CASE words[q] = "-d"
    <3>1. /\ q \in Durations(words, r, D) /\ \A j \in Durations(words, r, D) : j <= q
          /\ Durations(words, r, D) # {}
      BY <1>8, <1>9, <2>1
    <3>2. later = words[q + 1]
      BY <2>1
    <3>3. QED
      BY <3>1, <3>2, Zenon DEF Asks
  <2>2. CASE words[q] # "-d"
    <3>1. Durations(words, r, D) = Durations(words, q, C) /\ later = duration
      BY <1>8, <2>2
    <3>2. QED
      BY <1>1, <3>1, Zenon DEF Asks
  <2>3. QED
    BY <2>1, <2>2
<1>11. QED
  BY <1>6, <1>7, <1>10, Zenon DEF Reads

LEMMA NothingReads ==
  ASSUME NEW words
  PROVE  Reads(words, 1, Launcher!Unset)
<1>1. CutsAt(words, 1, {1}) /\ Durations(words, 1, {1}) = {} /\ {1} \in SUBSET (1..1)
  BY DEF CutsAt, Durations
<1>2. QED
  BY <1>1, Zenon DEF Reads, Asks

(* The first n words are options that ask for the duration. *)
ReadAs(words, n, duration) ==
  \E cuts \in Launcher!Cuts(SubSeq(words, 1, n)) :
    LET durations == {i \in cuts : i <= n /\ words[i] = "-d"} IN
    IF durations = {} THEN duration = Launcher!Unset
    ELSE \E i \in durations : (\A j \in durations : j <= i) /\ duration = words[i + 1]

\* What was read is a cut of the words before the target.
LEMMA ReadsAreCuts ==
  ASSUME NEW words \in Seq(Launcher!Words), NEW q \in Nat, q >= 1, q <= Len(words) + 1,
         NEW duration, Reads(words, q, duration)
  PROVE  ReadAs(words, q - 1, duration)
<1>1. PICK C \in SUBSET (1..q) : CutsAt(words, q, C) /\ Asks(words, q, C, duration)
  BY DEF Reads
<1>2. /\ C \subseteq 1..q /\ 1 \in C /\ q \in C
      /\ \A i, j \in C : i < j /\ (\A k \in C : k <= i \/ k >= j) =>
           Launcher!IsOption(SubSeq(words, i, j - 1))
  BY <1>1, Zenon DEF CutsAt
<1>3. PICK n \in Nat : n = q - 1
  OBVIOUS
<1>4. PICK s \in Seq(Launcher!Words) : s = SubSeq(words, 1, n) /\ Len(s) = n
  <2>1. /\ 1 \in Nat /\ 1 >= 1 /\ n <= Len(words) /\ 1 <= n + 1 /\ n - 1 + 1 = n
    BY <1>3, LenProperties
  <2>2. SubSeq(words, 1, n) \in Seq(Launcher!Words) /\ Len(SubSeq(words, 1, n)) = n - 1 + 1
    BY <2>1, PieceIs, Zenon
  <2>3. QED
    BY <2>1, <2>2, Zenon
<1>5. n + 1 = q
  BY <1>3
<1>6. ASSUME NEW i \in C, NEW j \in C, i < j, \A k \in C : k <= i \/ k >= j
      PROVE  Launcher!IsOption(SubSeq(s, i, j - 1))
  <2>1. Launcher!IsOption(SubSeq(words, i, j - 1))
    BY <1>2, <1>6, Zenon
  <2>2. PICK m \in Nat : m = j - 1
    BY <1>2
  <2>3. /\ Len(words) \in Nat /\ i \in 1..n /\ m \in 1..n /\ n \in 1..Len(words) /\ 1 \in 1..Len(words)
        /\ n - 1 + 1 = n /\ 1 + i - 1 = i /\ 1 + m - 1 = m
    BY <1>2, <1>3, <1>6, <2>2, LenProperties
  <2>4. SubSeq(SubSeq(words, 1, n), i, m) = SubSeq(words, 1 + i - 1, 1 + m - 1)
    <3>1. i \in 1..(n - 1 + 1) /\ m \in 1..(n - 1 + 1)
      BY <2>3, Zenon
    <3>2. n \in 1..Len(words) /\ 1 \in 1..Len(words) /\ words \in Seq(Launcher!Words)
      BY <2>3
    <3>3. QED
      BY ONLY <3>1, <3>2, SubSeqOfSubSeq
  <2>5. QED
    BY <1>4, <2>1, <2>2, <2>3, <2>4, Zenon
<1>7. C \in Launcher!Cuts(s)
  <2>1. C \in SUBSET (1..(Len(s) + 1)) /\ {1, Len(s) + 1} \subseteq C
    BY <1>2, <1>4, <1>5
  <2>2. QED
    BY <1>6, <2>1, Zenon DEF Launcher!Cuts
<1>8. Durations(words, q, C) = {i \in C : i <= n /\ words[i] = "-d"}
  <2>1. \A i \in C : i < q <=> i <= n
    BY <1>2, <1>3
  <2>2. QED
    BY <2>1, Zenon DEF Durations
<1>9. QED
  BY <1>1, <1>3, <1>4, <1>7, <1>8, Zenon DEF Asks, ReadAs

-----------------------------------------------------------------------------
(* The words of an unsigned long long.                                     *)

LEMMA LeastOfNaturals ==
  ASSUME NEW S \in SUBSET Nat, S # {}
  PROVE  \E k \in S : \A n \in S : k <= n
<1> DEFINE Less == OpToRel(<, Nat)
<1>1. IsWellFoundedOn(Less, Nat)
  BY NatLessThanWellFounded
<1>2. ASSUME NEW n \in Nat, NEW k \in Nat, n < k PROVE <<n, k>> \in Less
  BY <1>2 DEF OpToRel
<1> HIDE DEF Less
<1>3. PICK k \in S : \A n \in S : ~(<<n, k>> \in Less)
  BY <1>1, WFMin
<1>4. \A n \in S : ~(n < k)
  BY <1>2, <1>3
<1>5. QED
  BY <1>4

\* What PowersAssumption says of the widths the code uses.
LEMMA PowersGrow ==
  \A n \in 0..Width : 2^n \in Nat \ {0} /\ (n >= 3 => 2^n >= 8)
<1> DEFINE Grown(n) == /\ 2^n \in Nat \ {0} /\ (n >= 3 => 2^n >= 8)
                       /\ (n = 0 => 2^n >= 1) /\ (n = 1 => 2^n >= 2) /\ (n = 2 => 2^n >= 4)
           Bad == {n \in 0..Width : ~Grown(n)}
<1>0. Width \in Nat /\ InitialCapacity \in Nat /\ MaxTables \in Nat
  BY WidthAssumption, HashAssumption, TableAssumption
<1>1. SUFFICES ASSUME Bad # {} PROVE FALSE
  OBVIOUS
<1>2. Bad \in SUBSET Nat
  BY <1>0
<1>3. PICK k \in Bad : \A n \in Bad : k <= n
  BY <1>1, <1>2, LeastOfNaturals
<1>4. k # 0
  <2>1. 2^0 = 1
    BY PowersAssumption
  <2>2. Grown(0)
    BY <2>1
  <2>3. QED
    BY <1>3, <2>2
<1>5. k - 1 \in 0..Width /\ k - 1 \notin Bad /\ (k - 1) + 1 = k /\ k \in Nat
  BY <1>0, <1>3, <1>4
<1>6. PICK x : x = 2^(k - 1)
  OBVIOUS
<1>7. 2^k = 2 * x
  <2>1. k - 1 \in 0..(InitialCapacity + MaxTables + Width)
    BY <1>0, <1>5
  <2>2. QED
    BY <1>5, <1>6, <2>1, PowersAssumption
<1>8. /\ x \in Nat \ {0} /\ (k - 1 >= 3 => x >= 8)
      /\ (k - 1 = 0 => x >= 1) /\ (k - 1 = 1 => x >= 2) /\ (k - 1 = 2 => x >= 4)
  BY <1>5, <1>6
<1>9. Grown(k)
  BY <1>5, <1>7, <1>8
<1>10. QED
  BY <1>3, <1>9

LEMMA WordsAreWide ==
  /\ 2^Width \in Nat /\ 2^Width >= 8
  /\ 2^(Width \div 2) \in Nat /\ 2^(Width \div 2) >= 8
<1>1. Width \in 0..Width /\ Width >= 3 /\ Width \div 2 \in 0..Width /\ Width \div 2 >= 3
  BY WidthAssumption
<1>2. QED
  BY <1>1, PowersGrow

LEMMA SmallRemainder ==
  ASSUME NEW c \in Nat, NEW a \in Nat, a < c
  PROVE  a % c = a
<1>1. a = c * (a \div c) + (a % c) /\ a % c \in 0..(c - 1) /\ a \div c \in Int
  OBVIOUS
<1>2. ~(a \div c >= 1)
  <2> SUFFICES ASSUME a \div c >= 1 PROVE FALSE
    OBVIOUS
  <2>1. c * (a \div c) >= c
    BY <1>1
  <2>2. QED
    BY <1>1, <2>1
<1>3. ~(a \div c <= -1)
  <2> SUFFICES ASSUME a \div c <= -1 PROVE FALSE
    OBVIOUS
  <2>1. c * (a \div c) <= -c
    BY <1>1
  <2>2. QED
    BY <1>1, <2>1
<1>4. a \div c = 0
  BY <1>1, <1>2, <1>3
<1>5. c * (a \div c) = 0
  BY <1>4
<1>6. QED
  BY <1>1, <1>5

-----------------------------------------------------------------------------
(* The launcher.                                                           *)

Chosen == Launcher!Words \cup {Launcher!Unset}
Parses == [at : Nat \ {0}, over : BOOLEAN, bad : BOOLEAN,
           opts : [output : Chosen, duration : Chosen, verbose : BOOLEAN]]
Targets == {"prog", "5"}

(* How far the option loop has come. *)
Scanned(p, words) ==
  /\ words \in Seq(Launcher!Words) /\ (p.bad => p.over)
  /\ ~p.bad => /\ ~p.over => p.at <= Len(words) + 1 /\ Reads(words, p.at, p.opts.duration)
               /\ p.over /\ p.at <= Len(words) =>
                    \/ words[p.at] \in Targets /\ Reads(words, p.at, p.opts.duration)
                    \/ /\ p.at > 1 /\ words[p.at - 1] = "--"
                       /\ Reads(words, p.at - 1, p.opts.duration)

Asked7 == {Launcher!NoText, Launcher!Number(7)}
Junk == Launcher!Text(FALSE, Launcher!NoDigits, "junk")

(* What the environment says follows the command line. *)
EnvFollows ==
  /\ env \in [Launcher!Keys -> Launcher!Texts \cup Asked7 \cup {Junk}]
  /\ env["DURATION"] \in Asked7 \cup {Launcher!Number(5), Junk}
  /\ env["TIMEOUT"] \in Launcher!Texts \cup {Launcher!NoText}
  /\ stage \notin {"options", "usage"} /\ options.opts.duration # Launcher!Unset =>
       env["DURATION"] = Launcher!TextOf(options.opts.duration)

ConfigFollows ==
  stage \in {"loaded", "traced"} =>
    /\ cfgFiles \in Launcher!ConfigFiles
    /\ config.duration = Launcher!DurationSec(Launcher!Merged(cfgFiles)["DURATION"])
    /\ config.timeout = Launcher!TeardownTimeout(Launcher!Merged(cfgFiles)["TIMEOUT"])
    /\ config.offset \in 0..(2^Width - 1)

LauncherInvariant ==
  /\ stage \in {"options", "usage", "target", "loaded", "traced"}
  /\ options \in Parses
  /\ stage = "options" => Scanned(options, argv)
  /\ EnvFollows /\ ConfigFollows /\ Launcher!TimesNeverWrap

LEMMA ParsesAre ==
  ASSUME NEW p \in Parses
  PROVE  /\ p.at \in Nat \ {0} /\ p.over \in BOOLEAN /\ p.bad \in BOOLEAN
         /\ p.opts \in [output : Chosen, duration : Chosen, verbose : BOOLEAN]
         /\ p.opts.duration \in Chosen
BY DEF Parses

\* One turn of the option loop, for any command line.
LEMMA TurnScans ==
  ASSUME NEW p \in Parses, NEW words, Scanned(p, words), ~p.over, p.at <= Len(words), ~p.bad,
         NEW r,
         r = CASE words[p.at] = "--" -> [p EXCEPT !.at = p.at + 1, !.over = TRUE]
               [] words[p.at] = "-o" /\ p.at + 1 <= Len(words) ->
                    [p EXCEPT !.at = p.at + 2, !.opts.output = words[p.at + 1]]
               [] words[p.at] = "-d" /\ p.at + 1 <= Len(words) ->
                    [p EXCEPT !.at = p.at + 2, !.opts.duration = words[p.at + 1]]
               [] words[p.at] = "-v" -> [p EXCEPT !.at = p.at + 1, !.opts.verbose = TRUE]
               [] words[p.at] \in {"prog", "5"} -> [p EXCEPT !.over = TRUE]
               [] OTHER -> [p EXCEPT !.over = TRUE, !.bad = TRUE]
  PROVE  r \in Parses /\ Scanned(r, words)
<1>1. PICK i \in Nat \ {0} : i = p.at
  BY ParsesAre
<1>2. PICK dur : dur = p.opts.duration
  OBVIOUS
<1>3. PICK n \in Nat : n = Len(words)
  BY LenProperties DEF Scanned
<1>4. words \in Seq(Launcher!Words) /\ i \in 1..Len(words) /\ i <= n /\ Reads(words, i, dur)
  <2>1. words \in Seq(Launcher!Words) /\ Reads(words, i, dur) /\ i <= n
    BY <1>1, <1>2, <1>3, Zenon DEF Scanned
  <2>2. i \in 1..n
    BY <2>1
  <2>3. QED
    BY <1>3, <2>1, <2>2, Zenon
<1>5. CASE words[i] = "--"
  <2>1. r = [p EXCEPT !.at = i + 1, !.over = TRUE]
    BY <1>1, <1>5, Zenon
  <2>2. i + 1 \in Nat \ {0} /\ (i + 1) - 1 = i /\ i + 1 > 1
    OBVIOUS
  <2>3. /\ r \in Parses /\ r.at = i + 1 /\ r.over = TRUE /\ r.bad = p.bad /\ r.opts.duration = dur
    <3>1. PICK place \in Nat \ {0} : place = i + 1
      BY <2>2
    <3>2. r = [p EXCEPT !.at = place, !.over = TRUE] /\ p \in Parses
      BY <2>1, <3>1, Zenon
    <3>3. /\ r \in Parses /\ r.at = place /\ r.over = TRUE /\ r.bad = p.bad
          /\ r.opts.duration = p.opts.duration
      BY ONLY <3>2, place \in Nat \ {0} DEF Parses
    <3>4. QED
      BY <1>2, <3>1, <3>3, Zenon
  <2>4. QED
    BY <1>4, <1>5, <2>2, <2>3, Zenon DEF Scanned
<1>6. CASE words[i] = "-o" /\ i + 1 <= n
  <2>1. r = [p EXCEPT !.at = i + 2, !.opts.output = words[i + 1]]
    BY <1>1, <1>3, <1>6
  <2>2. /\ i + 2 \in Nat \ {0} /\ i + 1 \in 1..Len(words) /\ (i + 2) - 1 = i + 1 /\ i + 2 <= n + 1
        /\ i < i + 2 /\ i < Len(words)
    BY <1>3, <1>6
  <2>3. words[i + 1] \in Launcher!Words
    BY <1>4, <2>2, ElementOfSeq
  <2>4. /\ r \in Parses /\ r.at = i + 2 /\ r.over = p.over /\ r.bad = p.bad /\ r.opts.duration = dur
    <3>1. PICK place \in Nat \ {0}, word \in Chosen : place = i + 2 /\ word = words[i + 1]
      BY <2>2, <2>3 DEF Chosen
    <3>2. r = [p EXCEPT !.at = place, !.opts.output = word] /\ p \in Parses
      BY <2>1, <3>1
    <3>3. /\ r \in Parses /\ r.at = place /\ r.over = p.over /\ r.bad = p.bad
          /\ r.opts.duration = p.opts.duration
      BY ONLY <3>2, word \in Chosen, place \in Nat \ {0} DEF Parses
    <3>4. QED
      BY <1>2, <3>1, <3>3, Zenon
  <2>5. Launcher!IsOption(SubSeq(words, i, (i + 2) - 1))
    BY <1>4, <1>6, <2>2, OptionIs
  <2>6. dur = IF words[i] = "-d" THEN words[i + 1] ELSE dur
    BY <1>6
  <2>7. Reads(words, i + 2, dur)
    BY <1>4, <2>2, <2>5, <2>6, ReadsOn
  <2>8. QED
    BY <1>3, <1>4, <2>2, <2>4, <2>7, Zenon DEF Scanned
<1>7. CASE words[i] = "-d" /\ i + 1 <= n
  <2>1. r = [p EXCEPT !.at = i + 2, !.opts.duration = words[i + 1]]
    BY <1>1, <1>3, <1>7
  <2>2. /\ i + 2 \in Nat \ {0} /\ i + 1 \in 1..Len(words) /\ (i + 2) - 1 = i + 1 /\ i + 2 <= n + 1
        /\ i < i + 2 /\ i < Len(words)
    BY <1>3, <1>7
  <2>3. words[i + 1] \in Launcher!Words
    BY <1>4, <2>2, ElementOfSeq
  <2>4. /\ r \in Parses /\ r.at = i + 2 /\ r.over = p.over /\ r.bad = p.bad
        /\ r.opts.duration = words[i + 1]
    <3>1. PICK place \in Nat \ {0}, word \in Chosen : place = i + 2 /\ word = words[i + 1]
      BY <2>2, <2>3 DEF Chosen
    <3>2. r = [p EXCEPT !.at = place, !.opts.duration = word] /\ p \in Parses
      BY <2>1, <3>1
    <3>3. /\ r \in Parses /\ r.at = place /\ r.over = p.over /\ r.bad = p.bad
          /\ r.opts.duration = word
      BY ONLY <3>2, word \in Chosen, place \in Nat \ {0} DEF Parses
    <3>4. QED
      BY <1>2, <3>1, <3>3, Zenon
  <2>5. Launcher!IsOption(SubSeq(words, i, (i + 2) - 1))
    BY <1>4, <1>7, <2>2, OptionIs
  <2>6. words[i + 1] = IF words[i] = "-d" THEN words[i + 1] ELSE dur
    BY <1>7
  <2>7. Reads(words, i + 2, words[i + 1])
    BY <1>4, <2>2, <2>5, <2>6, ReadsOn
  <2>8. QED
    BY <1>3, <1>4, <2>2, <2>4, <2>7, Zenon DEF Scanned
<1>8. CASE words[i] = "-v"
  <2>1. r = [p EXCEPT !.at = i + 1, !.opts.verbose = TRUE]
    BY <1>1, <1>8
  <2>2. i + 1 \in Nat \ {0} /\ (i + 1) - 1 = i /\ i + 1 <= n + 1 /\ i < i + 1
    BY <1>4
  <2>3. /\ r \in Parses /\ r.at = i + 1 /\ r.over = p.over /\ r.bad = p.bad /\ r.opts.duration = dur
    <3>1. PICK place \in Nat \ {0} : place = i + 1
      BY <2>2
    <3>2. r = [p EXCEPT !.at = place, !.opts.verbose = TRUE] /\ p \in Parses
      BY <2>1, <3>1
    <3>3. /\ r \in Parses /\ r.at = place /\ r.over = p.over /\ r.bad = p.bad
          /\ r.opts.duration = p.opts.duration
      BY ONLY <3>2, place \in Nat \ {0} DEF Parses
    <3>4. QED
      BY <1>2, <3>1, <3>3, Zenon
  <2>4. Launcher!IsOption(SubSeq(words, i, (i + 1) - 1))
    BY <1>4, <1>8, <2>2, OptionIs
  <2>5. dur = IF words[i] = "-d" THEN words[i + 1] ELSE dur
    BY <1>8
  <2>6. Reads(words, i + 1, dur)
    BY <1>4, <2>2, <2>4, <2>5, ReadsOn
  <2>7. QED
    BY <1>3, <1>4, <2>2, <2>3, <2>6, Zenon DEF Scanned
<1>9. CASE words[i] \in {"prog", "5"}
  <2>1. r = [p EXCEPT !.over = TRUE]
    BY <1>1, <1>9
  <2>2. /\ r \in Parses /\ r.at = i /\ r.over = TRUE /\ r.bad = p.bad /\ r.opts.duration = dur
    <3>1. /\ r \in Parses /\ r.at = p.at /\ r.over = TRUE /\ r.bad = p.bad
          /\ r.opts.duration = p.opts.duration
      BY ONLY <2>1, p \in Parses DEF Parses
    <3>2. QED
      BY <1>1, <1>2, <3>1, Zenon
  <2>3. QED
    BY <1>4, <1>9, <2>2, Zenon DEF Scanned, Targets
<1>10. CASE words[i] \notin {"--", "-v", "prog", "5"} /\ ~(words[i] \in {"-o", "-d"} /\ i + 1 <= n)
  <2>1. r = [p EXCEPT !.over = TRUE, !.bad = TRUE]
    BY <1>1, <1>3, <1>10
  <2>2. r \in Parses /\ r.bad = TRUE /\ r.over = TRUE
    BY ONLY <2>1, p \in Parses DEF Parses
  <2>3. QED
    BY <1>4, <2>2, Zenon DEF Scanned
<1>11. QED
  BY <1>5, <1>6, <1>7, <1>8, <1>9, <1>10

LEMMA ParseOptionKeepsLauncher ==
  ASSUME LauncherInvariant, Launcher!ParseOption
  PROVE  LauncherInvariant'
<1>1. /\ stage = "options" /\ ~options.over /\ options.at <= Len(argv)
      /\ stage' = stage /\ argv' = argv /\ env' = env /\ cfgFiles' = cfgFiles
      /\ config' = config /\ event' = event
  BY Zenon DEF Launcher!ParseOption
<1>2. options \in Parses /\ Scanned(options, argv)
  BY <1>1, Zenon DEF LauncherInvariant
<1>3. options' \in Parses /\ Scanned(options', argv)
  <2>1. CASE ~options.bad
    <3>1. options' = CASE argv[options.at] = "--" -> [options EXCEPT !.at = options.at + 1, !.over = TRUE]
                       [] argv[options.at] = "-o" /\ options.at + 1 <= Len(argv) ->
                            [options EXCEPT !.at = options.at + 2, !.opts.output = argv[options.at + 1]]
                       [] argv[options.at] = "-d" /\ options.at + 1 <= Len(argv) ->
                            [options EXCEPT !.at = options.at + 2, !.opts.duration = argv[options.at + 1]]
                       [] argv[options.at] = "-v" ->
                            [options EXCEPT !.at = options.at + 1, !.opts.verbose = TRUE]
                       [] argv[options.at] \in {"prog", "5"} -> [options EXCEPT !.over = TRUE]
                       [] OTHER -> [options EXCEPT !.over = TRUE, !.bad = TRUE]
      BY Zenon DEF Launcher!ParseOption
    <3>2. QED
      BY <1>1, <1>2, <2>1, <3>1, TurnScans, Zenon
  <2>2. CASE options.bad
    <3>1. ~options.bad
      BY <1>1, <1>2 DEF Scanned
    <3>2. QED
      BY <2>2, <3>1
  <2>3. QED
    BY <2>1, <2>2
<1>4. EnvFollows'
  BY <1>1, Zenon DEF EnvFollows, LauncherInvariant
<1>5. ConfigFollows' /\ Launcher!TimesNeverWrap'
  BY <1>1 DEF ConfigFollows, LauncherInvariant, Launcher!TimesNeverWrap
<1>6. QED
  BY <1>1, <1>3, <1>4, <1>5, Zenon DEF LauncherInvariant

LEMMA RefuseKeepsLauncher ==
  ASSUME LauncherInvariant, Launcher!Refuse
  PROVE  LauncherInvariant'
<1>1. /\ stage' = "usage" /\ argv' = argv /\ options' = options /\ env' = env
      /\ cfgFiles' = cfgFiles /\ config' = config /\ event' = event
  BY Zenon DEF Launcher!Refuse
<1>2. EnvFollows' /\ ConfigFollows' /\ Launcher!TimesNeverWrap'
  BY <1>1 DEF EnvFollows, ConfigFollows, LauncherInvariant, Launcher!TimesNeverWrap
<1>3. QED
  BY <1>1, <1>2 DEF LauncherInvariant

LEMMA LaunchKeepsLauncher ==
  ASSUME LauncherInvariant, Launcher!Launch
  PROVE  LauncherInvariant'
<1>1. /\ stage' = "target" /\ cfgFiles' = cfgFiles /\ config' = config /\ event' = event
      /\ env' = IF options.opts.duration = Launcher!Unset THEN env
                ELSE [env EXCEPT !["DURATION"] = Launcher!TextOf(options.opts.duration)]
      /\ options' = [Launcher!Parsing EXCEPT !.opts.duration = options.opts.duration]
  BY Zenon DEF Launcher!Launch
<1>2. PICK dur \in Chosen : dur = options.opts.duration
  BY ParsesAre DEF LauncherInvariant
<1>3. options' \in Parses /\ options'.opts.duration = dur
  <2>1. options' = [Launcher!Parsing EXCEPT !.opts.duration = dur]
    BY <1>1, <1>2, Zenon
  <2>2. PICK p \in Parses : p = Launcher!Parsing
    <3>1. PICK o \in [output : Chosen, duration : Chosen, verbose : BOOLEAN] : o = Launcher!NoOptions
      <4>1. PICK u \in Chosen : u = Launcher!Unset
        BY DEF Chosen
      <4>2. [output |-> u, duration |-> u, verbose |-> FALSE]
              \in [output : Chosen, duration : Chosen, verbose : BOOLEAN]
        OBVIOUS
      <4>3. QED
        BY <4>1, <4>2, Zenon DEF Launcher!NoOptions
    <3>2. [at |-> 1, over |-> FALSE, bad |-> FALSE, opts |-> o] \in Parses
      BY DEF Parses
    <3>3. QED
      BY <3>1, <3>2, Zenon DEF Launcher!Parsing
  <2>3. PICK r : r = [p EXCEPT !.opts.duration = dur]
    OBVIOUS
  <2>4. r \in Parses /\ r.opts.duration = dur
    BY ONLY p \in Parses, dur \in Chosen, <2>3 DEF Parses
  <2>5. QED
    BY <2>1, <2>2, <2>3, <2>4, Zenon
<1>4. Launcher!TextOf(dur) \in {Launcher!Number(5), Junk}
  BY DEF Launcher!TextOf, Junk
<1>5. EnvFollows'
  <2>1. /\ env \in [Launcher!Keys -> Launcher!Texts \cup Asked7 \cup {Junk}]
        /\ env["DURATION"] \in Asked7 \cup {Launcher!Number(5), Junk}
        /\ env["TIMEOUT"] \in Launcher!Texts \cup {Launcher!NoText}
    BY Zenon DEF LauncherInvariant, EnvFollows
  <2>2. CASE dur = Launcher!Unset
    BY <1>1, <1>2, <1>3, <2>1, <2>2, Zenon DEF EnvFollows
  <2>3. CASE dur # Launcher!Unset
    <3>1. PICK text \in {Launcher!Number(5), Junk} : text = Launcher!TextOf(dur)
      BY <1>4
    <3>2. env' = [env EXCEPT !["DURATION"] = text]
      BY <1>1, <1>2, <2>3, <3>1, Zenon
    <3>3. text \in Launcher!Texts \cup Asked7 \cup {Junk}
      <4>1. FALSE \in BOOLEAN /\ "end" \in {"end", "blank", "junk"}
        OBVIOUS
      <4>2. 5 \in {Launcher!NoDigits, 0, 1, 2, 5, 8, 9, 2^Width - 1, Launcher!Big}
        OBVIOUS
      <4>3. Launcher!Number(5) \in Launcher!Texts
        <5>1. Launcher!Number(5) = Launcher!Text(FALSE, 5, "end")
          BY Zenon DEF Launcher!Number
        <5>2. \E neg \in BOOLEAN : \E d \in {Launcher!NoDigits, 0, 1, 2, 5, 8, 9, 2^Width - 1, Launcher!Big} :
              \E rest \in {"end", "blank", "junk"} : Launcher!Number(5) = Launcher!Text(neg, d, rest)
          BY <4>1, <4>2, <5>1, Zenon
        <5>3. QED
          BY <5>2 DEF Launcher!Texts
      <4>4. QED
        BY <4>3, Zenon
    <3>4. "DURATION" \in Launcher!Keys /\ "TIMEOUT" \in Launcher!Keys /\ "DURATION" # "TIMEOUT"
      BY DEF Launcher!Keys
    <3>5. /\ env' \in [Launcher!Keys -> Launcher!Texts \cup Asked7 \cup {Junk}]
          /\ env'["DURATION"] = text /\ env'["TIMEOUT"] = env["TIMEOUT"]
      <4>1. PICK T : T = Launcher!Texts \cup Asked7 \cup {Junk}
        OBVIOUS
      <4>2. PICK K : K = Launcher!Keys
        OBVIOUS
      <4>3. env \in [K -> T] /\ text \in T /\ "DURATION" \in K /\ "TIMEOUT" \in K
        BY <2>1, <3>3, <3>4, <4>1, <4>2, Zenon
      <4>4. PICK d, m : d = "DURATION" /\ m = "TIMEOUT"
        OBVIOUS
      <4>5. d # m
        BY <4>4
      <4>6. PICK e : e = env
        OBVIOUS
      <4>7. PICK e2 : e2 = [e EXCEPT ![d] = text]
        OBVIOUS
      <4>8. e2 \in [K -> T] /\ e2[d] = text /\ e2[m] = e[m]
        <5>1. e \in [K -> T] /\ d \in K /\ m \in K /\ text \in T
          BY <4>3, <4>4, <4>6, Zenon
        <5>2. QED
          BY ONLY <4>5, <5>1, <4>7
      <4>9. e2 = env'
        BY <3>2, <4>4, <4>6, <4>7, Zenon
      <4>10. QED
        BY <4>1, <4>2, <4>4, <4>6, <4>8, <4>9, Zenon
    <3>6. QED
      BY <1>1, <1>3, <2>1, <3>1, <3>5, Zenon DEF EnvFollows
  <2>4. QED
    BY <2>2, <2>3
<1>6. ConfigFollows' /\ Launcher!TimesNeverWrap'
  BY <1>1 DEF ConfigFollows, LauncherInvariant, Launcher!TimesNeverWrap
<1>7. QED
  BY <1>1, <1>3, <1>5, <1>6, Zenon DEF LauncherInvariant

LEMMA LoadConfigKeepsLauncher ==
  ASSUME LauncherInvariant, NEW f \in Launcher!ConfigFiles, NEW offset \in {0, 6, 2^Width - 1},
         Launcher!LoadConfig(f, offset)
  PROVE  LauncherInvariant'
<1>1. /\ stage = "target" /\ stage' = "loaded" /\ cfgFiles' = f /\ argv' = argv
      /\ options' = options /\ env' = env /\ event' = event
      /\ config' = [duration |-> Launcher!DurationSec(Launcher!Merged(f)["DURATION"]),
                    timeout |-> Launcher!TeardownTimeout(Launcher!Merged(f)["TIMEOUT"]), offset |-> offset]
  BY Zenon DEF Launcher!LoadConfig
<1>2. PICK duration, timeout : /\ duration = Launcher!DurationSec(Launcher!Merged(f)["DURATION"])
                               /\ timeout = Launcher!TeardownTimeout(Launcher!Merged(f)["TIMEOUT"])
  OBVIOUS
<1>3. config' = [duration |-> duration, timeout |-> timeout, offset |-> offset]
  BY <1>1, <1>2, Zenon
<1>4. config'.duration = duration /\ config'.timeout = timeout /\ config'.offset = offset
  BY <1>3
<1>5. offset \in 0..(2^Width - 1)
  BY WordsAreWide
<1>6. Launcher!Merged(f)' = Launcher!Merged(f)
  BY <1>1, Zenon DEF Launcher!Merged
<1>7. Launcher!Merged(cfgFiles)' = Launcher!Merged(f)
  BY <1>1, Zenon DEF Launcher!Merged
<1>8. ConfigFollows'
  BY <1>1, <1>2, <1>4, <1>5, <1>7, Zenon DEF ConfigFollows
<1>9. EnvFollows'
  BY <1>1, Zenon DEF EnvFollows, LauncherInvariant
<1>10. Launcher!TimesNeverWrap'
  BY <1>1 DEF LauncherInvariant, Launcher!TimesNeverWrap
<1>11. QED
  BY <1>1, <1>8, <1>9, <1>10 DEF LauncherInvariant

LEMMA MinusIs ==
  ASSUME NEW a \in 0..(2^Width - 1), NEW b \in 0..(2^Width - 1), b <= a
  PROVE  Launcher!Minus(a, b) = a - b
<1>1. PICK c \in Nat : c = 2^Width
  BY WordsAreWide
<1>2. a - b \in Nat /\ a - b < c
  BY <1>1
<1>3. (a - b) % c = a - b
  BY <1>2, SmallRemainder
<1>4. QED
  BY <1>1, <1>3, Zenon DEF Launcher!Minus

LEMMA WriteEventKeepsLauncher ==
  ASSUME LauncherInvariant, NEW start \in {0, 6, 7, 2^Width - 1}, NEW end \in {0, 6, 7, 2^Width - 1},
         Launcher!WriteEvent(start, end)
  PROVE  LauncherInvariant'
<1>1. /\ stage = "loaded" /\ stage' = "traced" /\ cfgFiles' = cfgFiles /\ argv' = argv
      /\ options' = options /\ env' = env /\ config' = config
      /\ event' = [start |-> start, end |-> end,
                   ts |-> IF start > config.offset THEN Launcher!Minus(start, config.offset) ELSE start,
                   dur |-> IF end >= start THEN Launcher!Minus(end, start) ELSE 0]
  BY Zenon DEF Launcher!WriteEvent
<1>2. start \in 0..(2^Width - 1) /\ end \in 0..(2^Width - 1)
  BY WordsAreWide
<1>3. PICK offset \in 0..(2^Width - 1) : offset = config.offset
  BY <1>1, Zenon DEF LauncherInvariant, ConfigFollows
<1>4. PICK ts, dur : /\ ts = IF start > offset THEN Launcher!Minus(start, offset) ELSE start
                     /\ dur = IF end >= start THEN Launcher!Minus(end, start) ELSE 0
  OBVIOUS
<1>5. event' = [start |-> start, end |-> end, ts |-> ts, dur |-> dur]
  BY <1>1, <1>3, <1>4, Zenon
<1>6. event'.start = start /\ event'.end = end /\ event'.ts = ts /\ event'.dur = dur
  BY <1>5
<1>7. start \in Nat /\ end \in Nat /\ offset \in Nat
  BY <1>2, <1>3, WordsAreWide
<1>8. ts <= start
  <2>1. CASE start > offset
    <3>1. offset <= start
      BY <1>7, <2>1
    <3>2. Launcher!Minus(start, offset) = start - offset
      BY <1>2, <1>3, <3>1, MinusIs, Zenon
    <3>3. QED
      BY <1>4, <1>7, <2>1, <3>2
  <2>2. CASE ~(start > offset)
    BY <1>4, <1>7, <2>2
  <2>3. QED
    BY <2>1, <2>2
<1>9. dur <= end /\ (end >= start => start + dur = end)
  <2>1. CASE end >= start
    <3>1. start <= end
      BY <1>7, <2>1
    <3>2. Launcher!Minus(end, start) = end - start
      BY <1>2, <3>1, MinusIs, Zenon
    <3>3. QED
      BY <1>4, <1>7, <2>1, <3>2
  <2>2. CASE ~(end >= start)
    BY <1>4, <1>7, <2>2
  <2>3. QED
    BY <2>1, <2>2
<1>10. Launcher!TimesNeverWrap'
  BY <1>6, <1>8, <1>9, Zenon DEF Launcher!TimesNeverWrap
<1>11. ConfigFollows'
  BY <1>1, Zenon DEF LauncherInvariant, ConfigFollows, Launcher!Merged
<1>12. EnvFollows'
  BY <1>1, Zenon DEF EnvFollows, LauncherInvariant
<1>13. QED
  BY <1>1, <1>10, <1>11, <1>12 DEF LauncherInvariant

-----------------------------------------------------------------------------
(* The window.                                                             *)

LEMMA DigitsDiffer == Launcher!NoDigits # Launcher!Big
BY WordsAreWide DEF Launcher!NoDigits, Launcher!Big

LEMMA DurationIs ==
  /\ Launcher!DurationSec(Launcher!NoText) = 0 /\ Launcher!DurationSec(Junk) = 0
  /\ \A n \in {5, 7} : Launcher!DurationSec(Launcher!Number(n)) = n
<1>1. PICK big \in Nat, half \in Nat : /\ big = 2^Width /\ half = 2^(Width \div 2)
                                       /\ big >= 8 /\ half >= 8
  BY WordsAreWide
<1>2. 0 % half = 0 /\ 5 % half = 5 /\ 7 % half = 7
  BY <1>1, SmallRemainder
<1>3. ASSUME NEW t, t \in {Launcher!NoText, Junk} PROVE Launcher!DurationSec(t) = 0
  <2>1. t.digits = Launcher!NoDigits
    BY <1>3 DEF Launcher!NoText, Junk, Launcher!Text
  <2>2. (CASE t.digits = Launcher!NoDigits -> 0
           [] t.digits = Launcher!Big -> 2^Width - 1
           [] OTHER -> IF t.neg THEN Launcher!Minus(0, t.digits) ELSE t.digits) = 0
    BY <2>1, DigitsDiffer
  <2>3. Launcher!DurationSec(t) = 0 % half
    BY ONLY <1>1, <2>2, Zenon DEF Launcher!DurationSec
  <2>4. QED
    BY <1>2, <2>3
<1>4. ASSUME NEW n \in {5, 7} PROVE Launcher!DurationSec(Launcher!Number(n)) = n
  <2>1. Launcher!Number(n).digits = n /\ Launcher!Number(n).neg = FALSE
    BY DEF Launcher!Number, Launcher!Text
  <2>2. n # Launcher!NoDigits /\ n # Launcher!Big
    BY <1>1 DEF Launcher!NoDigits, Launcher!Big
  <2>3. Launcher!DurationSec(Launcher!Number(n)) = n % half
    BY <1>1, <2>1, <2>2 DEF Launcher!DurationSec
  <2>4. QED
    BY <1>2, <2>3
<1>5. QED
  BY <1>3, <1>4

\* What the bound of the teardown can be.
LEMMA TimeoutIs ==
  ASSUME NEW t, t.digits \in Int
  PROVE  /\ Launcher!TeardownTimeout(t) \in Launcher!TeardownMin..Launcher!TeardownMax
         /\ Launcher!TeardownTimeout(t) > Launcher!TeardownDefault =>
              ~t.neg /\ t.rest # "junk" /\ t.digits >= Launcher!TeardownTimeout(t)
BY DEF Launcher!TeardownTimeout, Launcher!TeardownMin, Launcher!TeardownMax, Launcher!TeardownDefault

LEMMA TextsHaveDigits ==
  ASSUME NEW t \in Launcher!Texts \cup {Launcher!NoText, Launcher!Number(3)}
  PROVE  t.digits \in Int
<1>1. 2^Width \in Int
  BY WordsAreWide
<1>2. QED
  BY <1>1 DEF Launcher!Texts, Launcher!NoText, Launcher!Number, Launcher!Text, Launcher!NoDigits,
              Launcher!Big

LEMMA FilesAre ==
  ASSUME NEW f \in Launcher!ConfigFiles
  PROVE  Launcher!LoadCfgFile(f)["TIMEOUT"] \in {Launcher!NoText, Launcher!Number(3)}
<1>1. PICK entries : entries = {Launcher!NoKeys,
                                [Launcher!NoKeys EXCEPT !["DURATION"] = Launcher!Number(6)],
                                [Launcher!NoKeys EXCEPT !["TIMEOUT"] = Launcher!Number(3)]}
  OBVIOUS
<1>2. ASSUME NEW e \in entries PROVE e["TIMEOUT"] \in {Launcher!NoText, Launcher!Number(3)}
  <2>1. PICK none, six, three : /\ none = Launcher!NoText /\ six = Launcher!Number(6)
                                /\ three = Launcher!Number(3)
    OBVIOUS
  <2>2. PICK k : k = Launcher!NoKeys
    OBVIOUS
  <2>3. k = [x \in Launcher!Keys |-> none]
    BY <2>1, <2>2, Zenon DEF Launcher!NoKeys
  <2>4. "TIMEOUT" \in Launcher!Keys /\ "DURATION" \in Launcher!Keys
    BY DEF Launcher!Keys
  <2>5. e \in {k, [k EXCEPT !["DURATION"] = six], [k EXCEPT !["TIMEOUT"] = three]}
    BY <1>1, <2>1, <2>2, Zenon
  <2>6. e["TIMEOUT"] \in {none, three}
    BY ONLY <2>3, <2>4, <2>5
  <2>7. QED
    BY <2>1, <2>6, Zenon
<1>3. /\ f.named \in entries /\ f.pid \in entries /\ f.shared \in entries
  <2>1. Launcher!ConfigFiles =
          [isNamed : {TRUE}, named : entries, pid : {Launcher!NoKeys}, shared : {Launcher!NoKeys}]
            \cup [isNamed : {FALSE}, named : {Launcher!NoKeys}, pid : entries, shared : entries]
    BY <1>1, Zenon DEF Launcher!ConfigFiles
  <2>2. Launcher!NoKeys \in entries
    BY <1>1, Zenon
  <2>3. QED
    BY <2>1, <2>2
<1>4. Launcher!LoadCfgFile(f) \in entries
  BY <1>3, Zenon DEF Launcher!LoadCfgFile
<1>5. QED
  BY <1>2, <1>4, Zenon

LEMMA WindowFollows == LauncherInvariant => Launcher!WindowIsAsAsked
<1> SUFFICES ASSUME LauncherInvariant, stage \in {"loaded", "traced"}
             PROVE  /\ options.opts.duration = "5" => config.duration = 5
                    /\ config.duration = 6 => env["DURATION"] = Launcher!NoText
                    /\ env = Launcher!NoKeys /\ (cfgFiles.isNamed => cfgFiles.named = Launcher!NoKeys)
                       /\ (~cfgFiles.isNamed => cfgFiles.pid = Launcher!NoKeys)
                       /\ (config.duration # 0 \/ config.timeout # Launcher!TeardownDefault) =>
                            ~cfgFiles.isNamed /\ cfgFiles.shared # Launcher!NoKeys
                    /\ config.timeout \in Launcher!TeardownMin..Launcher!TeardownMax
                    /\ config.timeout > Launcher!TeardownDefault =>
                         /\ ~env["TIMEOUT"].neg /\ env["TIMEOUT"].rest # "junk"
                         /\ env["TIMEOUT"].digits >= config.timeout
  BY Zenon DEF Launcher!WindowIsAsAsked
<1>1. /\ cfgFiles \in Launcher!ConfigFiles
      /\ config.duration = Launcher!DurationSec(Launcher!Merged(cfgFiles)["DURATION"])
      /\ config.timeout = Launcher!TeardownTimeout(Launcher!Merged(cfgFiles)["TIMEOUT"])
  BY Zenon DEF LauncherInvariant, ConfigFollows
<1>2. /\ env["DURATION"] \in Asked7 \cup {Launcher!Number(5), Junk}
      /\ env["TIMEOUT"] \in Launcher!Texts \cup {Launcher!NoText}
  BY Zenon DEF LauncherInvariant, EnvFollows
<1>3. \A k \in Launcher!Keys : Launcher!Merged(cfgFiles)[k] =
        IF env[k] # Launcher!NoText THEN env[k] ELSE Launcher!LoadCfgFile(cfgFiles)[k]
  BY DEF Launcher!Merged
<1>4. "DURATION" \in Launcher!Keys /\ "TIMEOUT" \in Launcher!Keys
  BY DEF Launcher!Keys
<1>5. Launcher!Number(5) # Launcher!NoText /\ Junk # Launcher!NoText /\ Launcher!Number(7) # Launcher!NoText
  BY DEF Launcher!Number, Launcher!NoText, Launcher!Text, Junk, Launcher!NoDigits
<1>6. options.opts.duration = "5" => config.duration = 5
  <2> SUFFICES ASSUME options.opts.duration = "5" PROVE config.duration = 5
    OBVIOUS
  <2>1. stage \notin {"options", "usage"} /\ options.opts.duration # Launcher!Unset
    BY DEF Launcher!Unset
  <2>2. env["DURATION"] = Launcher!TextOf(options.opts.duration)
    BY <2>1, Zenon DEF LauncherInvariant, EnvFollows
  <2>3. Launcher!TextOf(options.opts.duration) = Launcher!Number(5)
    BY DEF Launcher!TextOf
  <2>4. env["DURATION"] = Launcher!Number(5)
    BY <2>2, <2>3, Zenon
  <2>5. Launcher!Merged(cfgFiles)["DURATION"] = Launcher!Number(5)
    BY <1>3, <1>4, <1>5, <2>4, Zenon
  <2>6. 5 \in {5, 7}
    OBVIOUS
  <2>7. QED
    BY <1>1, <2>5, <2>6, DurationIs, Zenon
<1>7. config.duration = 6 => env["DURATION"] = Launcher!NoText
  <2> SUFFICES ASSUME env["DURATION"] # Launcher!NoText PROVE config.duration # 6
    BY Zenon
  <2>1. Launcher!Merged(cfgFiles)["DURATION"] \in {Launcher!Number(5), Launcher!Number(7), Junk}
    BY <1>2, <1>3, <1>4, Zenon DEF Asked7
  <2>2. 5 \in {5, 7} /\ 7 \in {5, 7} /\ 5 # 6 /\ 7 # 6 /\ 0 # 6
    OBVIOUS
  <2>3. QED
    BY <1>1, <2>1, <2>2, DurationIs, Zenon
<1>8. Launcher!TeardownTimeout(Launcher!NoText) = Launcher!TeardownDefault
  <2>1. Launcher!NoText.digits = Launcher!NoDigits
    BY DEF Launcher!NoText, Launcher!Text
  <2>2. QED
    BY <2>1 DEF Launcher!TeardownTimeout
<1>9. ASSUME env = Launcher!NoKeys, cfgFiles.isNamed => cfgFiles.named = Launcher!NoKeys,
             ~cfgFiles.isNamed => cfgFiles.pid = Launcher!NoKeys,
             cfgFiles.isNamed \/ cfgFiles.shared = Launcher!NoKeys
      PROVE  config.duration = 0 /\ config.timeout = Launcher!TeardownDefault
  <2>1. Launcher!LoadCfgFile(cfgFiles) = Launcher!NoKeys
    BY <1>9, Zenon DEF Launcher!LoadCfgFile
  <2>2. \A k \in Launcher!Keys : Launcher!NoKeys[k] = Launcher!NoText
    BY Zenon DEF Launcher!NoKeys
  <2>3. \A k \in Launcher!Keys : Launcher!Merged(cfgFiles)[k] = Launcher!NoText
    BY <1>3, <1>9, <2>1, <2>2, Zenon
  <2>4. QED
    BY <1>1, <1>4, <1>8, <2>3, DurationIs, Zenon
<1>10. PICK t : t = Launcher!Merged(cfgFiles)["TIMEOUT"]
  OBVIOUS
<1>11. /\ t = env["TIMEOUT"] /\ t \in Launcher!Texts
       \/ t \in {Launcher!NoText, Launcher!Number(3)}
  BY <1>1, <1>2, <1>3, <1>4, <1>10, FilesAre, Zenon
<1>12. t.digits \in Int
  BY <1>11, TextsHaveDigits, Zenon
<1>13. config.timeout = Launcher!TeardownTimeout(t)
  BY <1>1, <1>10, Zenon
<1>14. /\ config.timeout \in Launcher!TeardownMin..Launcher!TeardownMax
       /\ config.timeout > Launcher!TeardownDefault =>
            ~t.neg /\ t.rest # "junk" /\ t.digits >= config.timeout
  BY <1>12, <1>13, TimeoutIs, Zenon
<1>15. config.timeout > Launcher!TeardownDefault => t = env["TIMEOUT"]
  <2> SUFFICES ASSUME t \in {Launcher!NoText, Launcher!Number(3)}
               PROVE  ~(config.timeout > Launcher!TeardownDefault)
    BY <1>11, Zenon
  <2>1. CASE t = Launcher!NoText
    BY <1>8, <1>13, <2>1 DEF Launcher!TeardownDefault
  <2>2. CASE t = Launcher!Number(3)
    <3>1. t.digits = 3
      BY <2>2 DEF Launcher!Number, Launcher!Text
    <3>2. QED
      BY <1>14, <3>1 DEF Launcher!TeardownDefault
  <2>3. QED
    BY <2>1, <2>2
<1>16. config.timeout > Launcher!TeardownDefault =>
         /\ ~env["TIMEOUT"].neg /\ env["TIMEOUT"].rest # "junk"
         /\ env["TIMEOUT"].digits >= config.timeout
  BY <1>14, <1>15, Zenon
<1>17. QED
  BY <1>6, <1>7, <1>9, <1>14, <1>16, Zenon

LEMMA OptionsFollow == LauncherInvariant => Launcher!OptionsEndAtTarget
<1> SUFFICES ASSUME LauncherInvariant, stage = "options", options.over, ~options.bad,
                    options.at <= Len(argv)
             PROVE  \E n \in 0..(options.at - 1) :
                      /\ \/ n = options.at - 1 /\ argv[options.at] \in {"prog", "5"}
                         \/ n = options.at - 2 /\ argv[options.at - 1] = "--"
                      /\ ReadAs(argv, n, options.opts.duration)
  BY Zenon DEF Launcher!OptionsEndAtTarget, ReadAs
<1>1. options \in Parses /\ Scanned(options, argv)
  BY DEF LauncherInvariant
<1>2. PICK i \in Nat \ {0} : i = options.at
  BY <1>1, ParsesAre
<1>3. argv \in Seq(Launcher!Words) /\ Len(argv) \in Nat /\ i <= Len(argv)
  BY <1>1, <1>2, LenProperties DEF Scanned
<1> DEFINE Read(n) == ReadAs(argv, n, options.opts.duration)
<1>4. \/ argv[i] \in Targets /\ Reads(argv, i, options.opts.duration)
      \/ i > 1 /\ argv[i - 1] = "--" /\ Reads(argv, i - 1, options.opts.duration)
  BY <1>1, <1>2, <1>3, Zenon DEF Scanned
<1>5. ASSUME NEW q \in Nat \ {0}, q <= i, Reads(argv, q, options.opts.duration)
      PROVE  Read(q - 1)
  <2>1. q \in Nat /\ q >= 1 /\ q <= Len(argv) + 1
    BY <1>3, <1>5
  <2>2. QED
    BY <1>3, <1>5, <2>1, ReadsAreCuts, Zenon
<1> HIDE DEF Read
<1>6. CASE argv[i] \in Targets /\ Reads(argv, i, options.opts.duration)
  <2>1. i - 1 \in 0..(i - 1) /\ i <= i
    OBVIOUS
  <2>2. Read(i - 1)
    BY <1>5, <1>6, <2>1, Zenon
  <2>3. \E n \in 0..(i - 1) : (n = i - 1 /\ argv[i] \in {"prog", "5"}) /\ Read(n)
    BY <1>6, <2>1, <2>2, Zenon DEF Targets
  <2>4. QED
    BY <1>2, <2>3, Zenon DEF Read
<1>7. CASE i > 1 /\ argv[i - 1] = "--" /\ Reads(argv, i - 1, options.opts.duration)
  <2>1. i - 2 \in 0..(i - 1) /\ i - 1 <= i /\ i - 1 \in Nat \ {0} /\ (i - 1) - 1 = i - 2
    BY <1>7
  <2>2. Read(i - 2)
    BY <1>5, <1>7, <2>1, Zenon
  <2>3. \E n \in 0..(i - 1) : (n = i - 2 /\ argv[i - 1] = "--") /\ Read(n)
    BY <1>7, <2>1, <2>2, Zenon
  <2>4. QED
    BY <1>2, <2>3, Zenon DEF Read
<1>8. QED
  BY <1>4, <1>6, <1>7, Zenon

-----------------------------------------------------------------------------
LEMMA InitIsLauncher == Init => LauncherInvariant
<1>1. ASSUME NEW s \in {"options", "target"}, NEW words \in Seq(Launcher!Words),
             NEW d \in Asked7, NEW m \in Launcher!Texts \cup {Launcher!NoText},
             Launcher!InitWith(s, words, d, m)
      PROVE  LauncherInvariant
  <2>1. /\ stage = s /\ argv = words /\ options = Launcher!Parsing
        /\ env = [Launcher!NoKeys EXCEPT !["DURATION"] = d, !["TIMEOUT"] = m]
        /\ event = Launcher!NoEvent
    BY <1>1, Zenon DEF Launcher!InitWith
  <2>2. PICK o \in [output : Chosen, duration : Chosen, verbose : BOOLEAN] :
          o = Launcher!NoOptions /\ o.duration = Launcher!Unset
    <3>1. PICK u \in Chosen : u = Launcher!Unset
      BY DEF Chosen
    <3>2. PICK o : o = [output |-> u, duration |-> u, verbose |-> FALSE]
      OBVIOUS
    <3>3. o \in [output : Chosen, duration : Chosen, verbose : BOOLEAN] /\ o.duration = u
      BY <3>2
    <3>4. QED
      BY <3>1, <3>2, <3>3, Zenon DEF Launcher!NoOptions
  <2>3. PICK p : p = [at |-> 1, over |-> FALSE, bad |-> FALSE, opts |-> o]
    OBVIOUS
  <2>4. p \in Parses /\ p.at = 1 /\ p.over = FALSE /\ p.bad = FALSE /\ p.opts = o
    BY <2>3 DEF Parses
  <2>5. p = options
    BY <2>1, <2>2, <2>3, Zenon DEF Launcher!Parsing
  <2>6. Scanned(options, argv)
    <3>1. PICK n \in Nat : n = Len(words)
      BY LenProperties
    <3>2. 1 <= n + 1
      BY <3>1
    <3>3. Reads(words, 1, Launcher!Unset)
      BY NothingReads
    <3>4. QED
      BY <2>1, <2>2, <2>4, <2>5, <3>1, <3>2, <3>3, Zenon DEF Scanned
  <2>7. /\ env \in [Launcher!Keys -> Launcher!Texts \cup Asked7 \cup {Junk}]
        /\ env["DURATION"] = d /\ env["TIMEOUT"] = m
    <3>1. PICK T, K, none, kd, kt : /\ T = Launcher!Texts \cup Asked7 \cup {Junk} /\ K = Launcher!Keys
                                    /\ none = Launcher!NoText /\ kd = "DURATION" /\ kt = "TIMEOUT"
      OBVIOUS
    <3>2. none \in T /\ d \in T /\ m \in T
      BY <3>1, Zenon DEF Asked7
    <3>3. kd \in K /\ kt \in K /\ kd # kt
      BY <3>1 DEF Launcher!Keys
    <3>4. PICK k : k = [x \in K |-> none]
      OBVIOUS
    <3>5. k = Launcher!NoKeys
      BY <3>1, <3>4, Zenon DEF Launcher!NoKeys
    <3>6. PICK e : e = [k EXCEPT ![kd] = d, ![kt] = m]
      OBVIOUS
    <3>7. e \in [K -> T] /\ e[kd] = d /\ e[kt] = m
      BY ONLY <3>2, <3>3, <3>4, <3>6
    <3>8. e = env
      BY <2>1, <3>1, <3>5, <3>6
    <3>9. QED
      BY <3>1, <3>7, <3>8, Zenon
  <2>8. EnvFollows
    BY <2>2, <2>4, <2>5, <2>7, Zenon DEF EnvFollows
  <2>9. Launcher!TimesNeverWrap
    BY <2>1 DEF Launcher!NoEvent, Launcher!TimesNeverWrap
  <2>10. ConfigFollows
    BY <1>1, <2>1 DEF ConfigFollows
  <2>11. QED
    BY <1>1, <2>1, <2>4, <2>5, <2>6, <2>8, <2>9, <2>10 DEF LauncherInvariant
<1>2. <<>> \in Seq(Launcher!Words)
  BY EmptySeq, Zenon
<1>3. \A n \in 0..MaxWords : \A words \in [1..n -> Launcher!Words] : words \in Seq(Launcher!Words)
  <2> TAKE n \in 0..MaxWords
  <2> TAKE words \in [1..n -> Launcher!Words]
  <2>1. n \in Nat
    OBVIOUS
  <2>2. QED
    BY <2>1
<1>4. Launcher!Init => LauncherInvariant
  <2> SUFFICES ASSUME Launcher!Init PROVE LauncherInvariant
    OBVIOUS
  <2>1. PICK d \in Asked7 :
          \/ \E n \in 0..MaxWords : \E words \in [1..n -> Launcher!Words] :
               Launcher!InitWith("options", words, d, Launcher!NoText)
          \/ \E timeout \in Launcher!Texts \cup {Launcher!NoText} :
               Launcher!InitWith("target", <<>>, d, timeout)
    BY Zenon DEF Launcher!Init, Asked7
  <2>2. Launcher!NoText \in Launcher!Texts \cup {Launcher!NoText}
    OBVIOUS
  <2>3. QED
    BY <1>1, <1>2, <1>3, <2>1, <2>2, Zenon
<1>5. Launcher!InitWith("options", <<>>, Launcher!NoText, Launcher!NoText) => LauncherInvariant
  <2>1. Launcher!NoText \in Asked7 /\ Launcher!NoText \in Launcher!Texts \cup {Launcher!NoText}
    BY Zenon DEF Asked7
  <2>2. QED
    BY <1>1, <1>2, <2>1, Zenon
<1>6. QED
  BY <1>4, <1>5, Zenon DEF Init

LEMMA NextKeepsLauncher == LauncherInvariant /\ [Next]_vars => LauncherInvariant'
<1> SUFFICES ASSUME LauncherInvariant, [Next]_vars PROVE LauncherInvariant'
  OBVIOUS
<1>1. CASE LauncherNext
  <2>1. Launcher!Next
    BY <1>1 DEF LauncherNext
  <2>2. QED
    BY <2>1, ParseOptionKeepsLauncher, RefuseKeepsLauncher, LaunchKeepsLauncher,
       LoadConfigKeepsLauncher, WriteEventKeepsLauncher, Zenon DEF Launcher!Next
<1>2. CASE UNCHANGED launchVars
  <2>1. /\ stage' = stage /\ argv' = argv /\ options' = options /\ env' = env
        /\ cfgFiles' = cfgFiles /\ config' = config /\ event' = event
    BY <1>2 DEF launchVars
  <2>2. QED
    BY <2>1, Zenon DEF LauncherInvariant, EnvFollows, ConfigFollows, Launcher!TimesNeverWrap,
                       Launcher!Merged
<1>3. QED
  BY <1>1, <1>2 DEF Next, vars, AllocNext, StorageNext, RecorderNext, HooksNext,
     TracerNext, DwarfNext, SymbolsNext, SamplerNext, SiteNext

\* For any command line and any width of the integers: what cuprof's launcher takes for
\* options are the words before the target (main.cc), the window opens as the command line,
\* the environment and the files ask in this order and its teardown bound stays between its
\* limits (config.cc), and no time of an event wraps (trace_writer.cc).
THEOREM WindowsOpenAsAsked == Spec => []WindowIsLaunchedAsAsked
<1>1. Spec => []LauncherInvariant
  BY InitIsLauncher, NextKeepsLauncher, PTL DEF Spec
<1>2. LauncherInvariant => WindowIsLaunchedAsAsked
  BY OptionsFollow, WindowFollows DEF LauncherInvariant, WindowIsLaunchedAsAsked
<1>3. QED
  BY <1>1, <1>2, PTL
=============================================================================
