------------------------- MODULE Configuration_proofs -------------------------
(***************************************************************************)
(* Proofs about Configuration, for any files a user may have: what crashes *)
(* and restarts leave of them, what the chain of migrations makes of a     *)
(* file of whatever version, and that a restart changes nothing.           *)
(***************************************************************************)
EXTENDS Configuration, Integers, NaturalsInduction, WellFoundedInduction, TLAPS

-----------------------------------------------------------------------------
(* What is on the disk is a file, whatever its values are. *)

IsFile(c) ==
  /\ c = [version |-> c.version, empty |-> c.empty, value |-> c.value]
  /\ c.version \in 0..Current

OnDisk(c) == c \in {Absent, Torn} \/ IsFile(c)

(* What a user writes or puts back is a file.                              *)
LEMMA HandIsFile == ASSUME NEW c \in Hand PROVE IsFile(c)
<1>1. c \in Content
  BY HandAssumption
<1> QED  BY <1>1 DEF Content, IsFile

LEMMA WrittenIsFile ==
  ASSUME NEW c
  PROVE  /\ IsFile(Blank) /\ Blank.version = 0
         /\ IsFile(CutOff) /\ CutOff.version = Current
         /\ IsFile(Merged(c)) /\ Merged(c).version = Current
BY DEF Blank, CutOff, Merged, IsFile, Current

LEMMA StrippedIsFile ==
  ASSUME NEW c, IsFile(c)
  PROVE  IsFile(Stripped(c)) /\ Stripped(c).version = c.version
<1> DEFINE value(x) == [k \in Keys |-> IF Given(x, k) THEN x[k] ELSE "none"]
<1>1. PICK v, e, x : c = [version |-> v, empty |-> e, value |-> x]
  BY DEF IsFile
<1>2. Stripped(c) = [[c EXCEPT !.empty = {}] EXCEPT !.value = value(c.value)]
  BY DEF Stripped
<1>3. c.value = x
  BY <1>1
<1> HIDE DEF value
<1>4. [[c EXCEPT !.empty = {}] EXCEPT !.value = value(x)]
        = [version |-> v, empty |-> {}, value |-> value(x)]
  <2>1. [c EXCEPT !.empty = {}] = [version |-> v, empty |-> {}, value |-> x]
    BY <1>1
  <2>2. \A y : [[version |-> v, empty |-> {}, value |-> x] EXCEPT !.value = y]
                = [version |-> v, empty |-> {}, value |-> y]
    OBVIOUS
  <2> QED  BY <2>1, <2>2
<1> QED  BY <1>1, <1>2, <1>3, <1>4 DEF IsFile

(* The thread has read the file when it backs it up and migrates it, and   *)
(* has emptied it when it writes.                                          *)
DiskInv ==
  /\ OnDisk(file) /\ IsFile(raw)
  /\ DOMAIN backups = 1..(Current - 1)
  /\ \A v \in DOMAIN backups : OnDisk(backups[v])
  /\ pc \in {"down", "default", "strip", "backup", "migrate", "rewrite", "up"}
  /\ pc \in {"backup", "migrate"} => file = raw /\ file \notin {Absent, Torn} /\ Outdated(raw)
  /\ pc \in {"default", "strip", "rewrite"} => file = Blank
  /\ pc = "strip" => ~Outdated(raw)

LEMMA BackupNameFacts ==
  ASSUME NEW c, IsFile(c), Outdated(c)
  PROVE  /\ BackupName(c) \in 1..(Current - 1)
         /\ c.version \in 2..(Current - 1) => BackupName(c) = c.version
         /\ c.version = 0 => BackupName(c) = 1
         /\ c.version # Current
BY DEF IsFile, Outdated, FirstVersion, BackupName, Current

LEMMA DiskStep ==
  ASSUME DiskInv, [Next]_vars
  PROVE  DiskInv'
<1>0. DOMAIN backups = 1..(Current - 1)
  BY DEF DiskInv
<1>1. CASE UserWrites
  <2>1. PICK c \in Hand \cup ({backups[v] : v \in DOMAIN backups} \ {Absent, Torn, Blank}) :
               file' = c
    BY <1>1 DEF UserWrites
  <2>2. IsFile(c)
    BY <2>1, HandIsFile DEF DiskInv, OnDisk
  <2> QED  BY <1>1, <2>1, <2>2 DEF UserWrites, DiskInv, OnDisk
<1>2. CASE BeginDefault
  BY <1>2, WrittenIsFile DEF BeginDefault, DiskInv, OnDisk
<1>3. CASE EndDefault
  BY <1>3, WrittenIsFile DEF EndDefault, DiskInv, OnDisk
<1>4. CASE Read
  <2>1. IsFile(file) /\ raw' = file
    BY <1>4 DEF Read, DiskInv, OnDisk
  <2> QED  BY <1>4, <2>1, WrittenIsFile DEF Read, DiskInv, OnDisk
<1>5. CASE EndStrip
  BY <1>5, StrippedIsFile DEF EndStrip, DiskInv, OnDisk
<1>6. CASE Backup
  <2>1. PICK c : OnDisk(c) /\ backups' = [backups EXCEPT ![BackupName(raw)] = c]
    <3>1. raw = file /\ BackupName(raw) \in DOMAIN backups
      BY <1>0, <1>6, BackupNameFacts DEF Backup, DiskInv
    <3> QED  BY <1>6, <3>1 DEF Backup, DiskInv, OnDisk
  <2>2. DOMAIN backups' = DOMAIN backups /\ \A v \in DOMAIN backups : OnDisk(backups'[v])
    BY <2>1 DEF DiskInv
  <2>3. OnDisk(file)' /\ \A v \in DOMAIN backups' : OnDisk(backups[v])'
    BY <1>6, <2>2 DEF Backup, DiskInv, OnDisk
  <2> QED  BY <1>6, <2>2, <2>3 DEF Backup, DiskInv
<1>7. CASE BeginRewrite
  BY <1>7, WrittenIsFile DEF BeginRewrite, DiskInv, OnDisk
<1>8. CASE EndRewrite
  BY <1>8, WrittenIsFile DEF EndRewrite, DiskInv, OnDisk
<1>9. CASE Stop
  BY <1>9 DEF Stop, DiskInv, OnDisk
<1>10. CASE Crash
  <2>1. OnDisk(file)' /\ pc' = "down" /\ UNCHANGED raw
    BY <1>10, WrittenIsFile DEF Crash, DiskInv, OnDisk
  <2>2. DOMAIN backups' = DOMAIN backups /\ \A v \in DOMAIN backups : OnDisk(backups'[v])
    <3>1. CASE UNCHANGED backups
      BY <3>1 DEF DiskInv
    <3>2. CASE pc = "backup" /\ ~UNCHANGED backups
      <4>1. PICK c : OnDisk(c) /\ backups' = [backups EXCEPT ![BackupName(raw)] = c]
        <5>1. BackupName(raw) \in DOMAIN backups
          BY <1>0, <3>2, BackupNameFacts DEF DiskInv
        <5> QED  BY <1>10, <3>2, <5>1, WrittenIsFile DEF Crash, DiskInv, OnDisk
      <4> QED  BY <4>1 DEF DiskInv
    <3> QED  BY <1>10, <3>1, <3>2 DEF Crash
  <2>3. \A v \in DOMAIN backups' : OnDisk(backups[v])'
    BY <2>2 DEF OnDisk
  <2> QED  BY <2>1, <2>2, <2>3 DEF DiskInv
<1>11. CASE UNCHANGED vars
  BY <1>11 DEF vars, DiskInv, OnDisk
<1> QED
  BY <1>1, <1>2, <1>3, <1>4, <1>5, <1>6, <1>7, <1>8, <1>9, <1>10, <1>11 DEF Next

-----------------------------------------------------------------------------
(* The settings of the user's file. *)

Protected == written # Absent /\ ~refused /\ written.version \in 2..(Current - 1)

(* The user's file is replaced by ones without a version or of the current *)
(* one, which have another backup or none.  Until it is replaced it is     *)
(* there, and after that its backup is.                                    *)
KeepInv ==
  Protected =>
    /\ file = written \/ backups[written.version] = written
    /\ file = written \/ file \in {Absent, Torn} \/ file.version \in {0, Current}
    /\ pc = "migrate" => backups[written.version] = written

LEMMA KeepStep ==
  ASSUME DiskInv, KeepInv, [Next]_vars
  PROVE  KeepInv'
<1> SUFFICES ASSUME Protected'
             PROVE  /\ file' = written' \/ backups'[written'.version] = written'
                    /\ \/ file' = written' \/ file' \in {Absent, Torn}
                       \/ file'.version \in {0, Current}
                    /\ pc' = "migrate" => backups'[written'.version] = written'
  BY DEF KeepInv
<1> DEFINE w == written
<1>1. CASE UserWrites
  BY <1>1 DEF UserWrites
<1>0. ASSUME ~UserWrites
      PROVE  /\ UNCHANGED written /\ Protected
             /\ w.version \in DOMAIN backups /\ w # Blank /\ w # CutOff /\ Outdated(w)
             /\ file # w => backups[w.version] = w
             /\ file = w \/ file \in {Absent, Torn} \/ file.version \in {0, Current}
             /\ pc = "migrate" => backups[w.version] = w
  <2>1. UNCHANGED written /\ (refused => refused')
    BY <1>0 DEF Next, BeginDefault, EndDefault, Read, EndStrip, Backup, BeginRewrite,
         EndRewrite, Stop, Crash, vars
  <2>2. Protected
    BY <2>1 DEF Protected
  <2>3. w.version # 0 /\ w.version \in 1..(Current - 1)
    BY <2>2 DEF Protected
  <2>4. w.version < Current /\ FirstVersion(w) = w.version
    BY <2>3 DEF FirstVersion, Current
  <2> QED  BY <2>1, <2>2, <2>3, <2>4, WrittenIsFile DEF KeepInv, DiskInv, Outdated
<1>2. CASE BeginDefault
  BY <1>0, <1>2, WrittenIsFile DEF BeginDefault, UserWrites, Protected
<1>3. CASE EndDefault
  BY <1>0, <1>3, WrittenIsFile DEF EndDefault, UserWrites, DiskInv
<1>4. CASE Read
  <2>0. ~UserWrites
    BY <1>4 DEF Read, UserWrites, DiskInv
  <2> QED  BY <1>0, <1>4, <2>0, WrittenIsFile DEF Read
<1>5. CASE EndStrip
  <2>1. Stripped(raw).version = Current
    <3>1. raw.version = Current
      BY <1>5 DEF EndStrip, DiskInv, IsFile, Outdated, FirstVersion, Current
    <3> QED  BY <3>1, StrippedIsFile DEF DiskInv
  <2> QED  BY <1>0, <1>5, <2>1 DEF EndStrip, UserWrites, DiskInv
<1>6. CASE Backup
  <2>0. ~UserWrites /\ pc' = "migrate" /\ UNCHANGED <<file, written>>
    BY <1>6 DEF Backup, UserWrites
  <2>1. file = raw /\ file \notin {Absent, Torn} /\ IsFile(raw) /\ Outdated(raw)
    BY <1>6 DEF Backup, DiskInv
  <2>2. backups' = [backups EXCEPT ![BackupName(raw)] = file]
    BY <1>6 DEF Backup, Protected
  <2>3. BackupName(raw) = w.version => file = w
    BY <1>0, <2>0, <2>1, BackupNameFacts DEF Protected, Current
  <2>4. file = w => BackupName(raw) = w.version
    BY <1>0, <2>0, <2>1, BackupNameFacts DEF Protected
  <2>5. backups'[w.version] = w
    BY <1>0, <2>0, <2>2, <2>3, <2>4
  <2> QED  BY <1>0, <2>0, <2>5
<1>7. CASE BeginRewrite
  BY <1>0, <1>7, WrittenIsFile DEF BeginRewrite, UserWrites, DiskInv
<1>8. CASE EndRewrite
  BY <1>0, <1>8, WrittenIsFile DEF EndRewrite, UserWrites, DiskInv
<1>9. CASE Stop
  <2>0. ~UserWrites
    BY <1>9 DEF Stop, UserWrites
  <2> QED  BY <1>0, <1>9, <2>0 DEF Stop
<1>10. CASE Crash
  <2>0. ~UserWrites /\ pc' = "down"
    BY <1>10 DEF Crash, UserWrites, DiskInv
  <2>1. CASE pc \in {"default", "strip", "rewrite"} /\ file' \in {Blank, Torn, CutOff}
             /\ UNCHANGED backups
    <3>1. backups'[w.version] = w
      BY <1>0, <2>0, <2>1 DEF DiskInv
    <3> QED  BY <1>0, <2>0, <2>1, <3>1, WrittenIsFile
  <2>2. CASE /\ pc = "backup" /\ UNCHANGED file
             /\ \E c : backups' = [backups EXCEPT ![BackupName(raw)] = c]
    <3>1. file = raw /\ file \notin {Absent, Torn} /\ IsFile(raw) /\ Outdated(raw)
      BY <2>2 DEF DiskInv
    <3>2. BackupName(raw) = w.version => file = w
      BY <1>0, <2>0, <3>1, BackupNameFacts DEF Protected, Current
    <3> QED  BY <1>0, <2>0, <2>2, <3>2
  <2> QED  BY <1>10, <2>1, <2>2 DEF Crash
<1>11. CASE UNCHANGED vars
  BY <1>11 DEF vars, KeepInv, Protected
<1> QED
  BY <1>1, <1>2, <1>3, <1>4, <1>5, <1>6, <1>7, <1>8, <1>9, <1>10, <1>11 DEF Next

(* Through any crashes and restarts, a file of a version after 1.0.0 is    *)
(* not lost: SettingsSurvive, which MCConfiguration checks.  What a crash  *)
(* leaves is taken for version 1.0.0, so that its backup goes elsewhere.   *)
THEOREM SettingsAreKept == Spec => []SettingsSurvive
<1>1. Init => DiskInv /\ KeepInv
  <2> SUFFICES ASSUME Init PROVE DiskInv /\ KeepInv
    OBVIOUS
  <2>1. OnDisk(file)
    BY HandIsFile DEF Init, OnDisk
  <2>2. DiskInv
    BY <2>1, WrittenIsFile DEF Init, DiskInv, OnDisk
  <2>3. KeepInv
    BY DEF Init, KeepInv
  <2> QED  BY <2>2, <2>3
<1>2. DiskInv /\ KeepInv /\ [Next]_vars => (DiskInv /\ KeepInv)'
  BY DiskStep, KeepStep
<1>3. DiskInv /\ KeepInv => SettingsSurvive
  BY DEF DiskInv, KeepInv, Protected, SettingsSurvive, Kept
<1> QED  BY <1>1, <1>2, <1>3, PTL DEF Spec

-----------------------------------------------------------------------------
(* The chain of migrations.  Migrated is a recursive function over it; what *)
(* it yields is shown by induction along the chain, which a least           *)
(* counterexample replaces.                                                 *)

LEMMA LeastCounterexample ==
  ASSUME NEW S, 0 \in S, \A n \in Nat : n \in S => n + 1 \in S
  PROVE  Nat \subseteq S
<1> SUFFICES ASSUME Nat \ S # {} PROVE FALSE
  OBVIOUS
<1> DEFINE R == OpToRel(<, Nat)
<1>1. PICK m \in Nat \ S : \A n \in Nat \ S : ~(<<n, m>> \in R)
  <2>1. IsWellFoundedOn(R, Nat)
    BY NatLessThanWellFounded, Zenon
  <2> HIDE DEF R
  <2> QED BY <2>1, WFMin
<1>2. \A n \in Nat \ S : ~(n < m)
  BY <1>1 DEF OpToRel
<1>3. m - 1 \in Nat /\ m - 1 < m /\ m = (m - 1) + 1
  OBVIOUS
<1>4. m - 1 \in S
  BY <1>2, <1>3
<1> QED BY <1>3, <1>4

IsChain(g, lo, hi, v) ==
  g = [i \in lo..hi |-> IF i = lo THEN v ELSE Migrate(i - 1, g[i - 1])]

(* The chain can be computed step by step up to any version.               *)
LEMMA ChainExists ==
  ASSUME NEW lo \in Nat, NEW v, NEW n \in Nat
  PROVE  \E g : IsChain(g, lo, lo + n, v)
<1> DEFINE S == {m \in Nat : \E g : IsChain(g, lo, lo + m, v)}
<1>1. 0 \in S
  <2>1. IsChain([i \in lo..lo |-> v], lo, lo + 0, v)
    BY DEF IsChain
  <2> QED  BY <2>1
<1>2. ASSUME NEW m \in Nat, m \in S PROVE m + 1 \in S
  <2>1. PICK g : IsChain(g, lo, lo + m, v)
    BY <1>2
  <2> DEFINE h == [i \in lo..(lo + (m + 1)) |->
                     IF i = lo + (m + 1) THEN Migrate(lo + m, g[lo + m]) ELSE g[i]]
  <2>2. \A i \in lo..(lo + (m + 1)) :
          h[i] = IF i = lo THEN v ELSE Migrate(i - 1, h[i - 1])
    <3> SUFFICES ASSUME NEW i \in lo..(lo + (m + 1))
                 PROVE  h[i] = IF i = lo THEN v ELSE Migrate(i - 1, h[i - 1])
      OBVIOUS
    <3>1. CASE i = lo + (m + 1)
      <4>1. i - 1 = lo + m /\ i # lo /\ h[i - 1] = g[lo + m]
        BY <3>1
      <4> QED  BY <3>1, <4>1
    <3>2. CASE i # lo + (m + 1)
      <4>1. i \in lo..(lo + m) /\ h[i] = g[i] /\ (i # lo => h[i - 1] = g[i - 1])
        BY <3>2
      <4>2. g[i] = IF i = lo THEN v ELSE Migrate(i - 1, g[i - 1])
        BY <2>1, <4>1 DEF IsChain
      <4> QED  BY <4>1, <4>2
    <3> QED  BY <3>1, <3>2
  <2>3. IsChain(h, lo, lo + (m + 1), v)
    BY <2>2 DEF IsChain
  <2> QED  BY <2>3
<1> HIDE DEF S
<1>3. Nat \subseteq S
  BY <1>1, <1>2, LeastCounterexample
<1> QED  BY <1>3 DEF S

(* Migrated is what stands at the end of such a chain.                     *)
LEMMA MigratedIsChain ==
  ASSUME NEW c, FirstVersion(c) \in 1..Current
  PROVE  \E g : IsChain(g, FirstVersion(c), Current, c.value) /\ Migrated(c) = g[Current]
<1> DEFINE lo == FirstVersion(c)
<1>1. \E g : IsChain(g, lo, Current, c.value)
  <2>1. Current - lo \in Nat /\ lo + (Current - lo) = Current /\ lo \in Nat
    BY DEF Current
  <2> QED  BY <2>1, ChainExists
<1> DEFINE at == CHOOSE g : g = [i \in FirstVersion(c)..Current |-> IF i = FirstVersion(c) THEN c.value ELSE Migrate(i - 1, g[i - 1])]
<1>2. IsChain(at, lo, Current, c.value)
  BY <1>1 DEF IsChain
<1>3. Migrated(c) = at[Current]
  BY DEF Migrated
<1> QED  BY <1>2, <1>3

Values == {"none", "null", "default", "user", "file", "small"}
Typed == [Keys -> Values]

(* A value that only one setting can have is that setting's.               *)
Proper(f) ==
  \A k \in Keys : /\ f[k] = "file" => k = "path"
                  /\ f[k] = "small" => k = "hook_timeout_secs"

RetiredAfter(k) ==
  CASE k = "email" -> 1 [] k = "ffprobe_path" -> 7 [] k = "good_list" -> 8
    [] k = "bad_list" -> 9 [] k = "ignore_list" -> 17 [] k = "hook_timeout_secs" -> 19

(* One migration, setting by setting.                                      *)
LEMMA MigrateFacts ==
  ASSUME NEW i \in Nat, NEW f \in Typed
  PROVE  /\ Migrate(i, f) \in Typed
         /\ Proper(f) => Proper(Migrate(i, f))
         /\ \A k \in Retired :
              (i > RetiredAfter(k) => f[k] = "none")
                => (i + 1 > RetiredAfter(k) => Migrate(i, f)[k] = "none")
<1>1. CASE i = 1
  BY <1>1 DEF Migrate, Proper, Typed, Values, Keys, Settings, Retired, RetiredAfter
<1>2. CASE i = 5
  BY <1>2 DEF Migrate, Proper, Typed, Values, Keys, Settings, Retired, RetiredAfter, SetDefault
<1>3. CASE i = 7
  BY <1>3 DEF Migrate, Proper, Typed, Values, Keys, Settings, Retired, RetiredAfter
<1>4. CASE i = 8
  BY <1>4 DEF Migrate, Proper, Typed, Values, Keys, Settings, Retired, RetiredAfter, Rename
<1>5. CASE i = 9
  BY <1>5 DEF Migrate, Proper, Typed, Values, Keys, Settings, Retired, RetiredAfter, Rename
<1>6. CASE i = 13
  BY <1>6 DEF Migrate, Proper, Typed, Values, Keys, Settings, Retired, RetiredAfter
<1>7. CASE i = 17
  BY <1>7 DEF Migrate, Proper, Typed, Values, Keys, Settings, Retired, RetiredAfter, MoveIgnoreList
<1>8. CASE i = 18
  BY <1>8 DEF Migrate, Proper, Typed, Values, Keys, Settings, Retired, RetiredAfter, SetDefault
<1>9. CASE i = 19
  BY <1>9 DEF Migrate, Proper, Typed, Values, Keys, Settings, Retired, RetiredAfter, ConvertTimeout, SetDefault
<1>10. CASE i = 20
  BY <1>10 DEF Migrate, Proper, Typed, Values, Keys, Settings, Retired, RetiredAfter
<1>11. CASE i = 24
  BY <1>11 DEF Migrate, Proper, Typed, Values, Keys, Settings, Retired, RetiredAfter, SetDefault
<1>12. CASE i \notin {1, 5, 7, 8, 9, 13, 17, 18, 19, 20, 24}
  BY <1>12 DEF Migrate, Proper, Typed, Retired, RetiredAfter
<1> QED
  BY <1>1, <1>2, <1>3, <1>4, <1>5, <1>6, <1>7, <1>8, <1>9, <1>10, <1>11, <1>12

(* What holds at the first version of a chain and is kept by each step     *)
(* holds at its end.                                                       *)
LEMMA IntervalInduction ==
  ASSUME NEW lo \in Nat, NEW hi \in Nat, lo <= hi, NEW H,
         lo \in H, \A i \in lo..(hi - 1) : i \in H => i + 1 \in H
  PROVE  \A i \in lo..hi : i \in H
<1> DEFINE S == {n \in Nat : lo + n <= hi => lo + n \in H}
<1>1. 0 \in S
  OBVIOUS
<1>2. ASSUME NEW n \in Nat, n \in S PROVE n + 1 \in S
  <2> SUFFICES ASSUME lo + (n + 1) <= hi PROVE lo + (n + 1) \in H
    OBVIOUS
  <2>1. lo + n \in lo..(hi - 1) /\ lo + n \in H /\ lo + (n + 1) = (lo + n) + 1
    BY <1>2
  <2> QED  BY <2>1
<1> HIDE DEF S
<1>3. Nat \subseteq S
  BY <1>1, <1>2, LeastCounterexample
<1> SUFFICES ASSUME NEW i \in lo..hi PROVE i \in H
  OBVIOUS
<1>4. i - lo \in Nat /\ lo + (i - lo) = i /\ i <= hi
  OBVIOUS
<1> QED  BY <1>3, <1>4 DEF S

LEMMA ContentFacts ==
  ASSUME NEW c \in Content
  PROVE  /\ c.value \in Typed /\ c.version \in 0..Current /\ c.empty \in SUBSET Sections
         /\ FirstVersion(c) \in 1..Current
         /\ c = [version |-> c.version, empty |-> c.empty, value |-> c.value]
BY DEF Content, Typed, Values, FirstVersion, Current

(* Every version of the chain is one migration away from the one before.   *)
LEMMA ChainStep ==
  ASSUME NEW c \in Content, NEW g, IsChain(g, FirstVersion(c), Current, c.value)
  PROVE  /\ g[FirstVersion(c)] = c.value
         /\ \A i \in FirstVersion(c)..(Current - 1) : i \in Nat /\ g[i + 1] = Migrate(i, g[i])
         /\ \A i \in FirstVersion(c)..Current : g[i] \in Typed
<1> DEFINE lo == FirstVersion(c)
<1>0. lo \in 1..Current
  BY ContentFacts
<1>1. g[lo] = c.value
  BY <1>0 DEF IsChain, Current
<1>2. ASSUME NEW i \in lo..(Current - 1)
      PROVE  i \in Nat /\ g[i + 1] = Migrate(i, g[i])
  <2>1. i \in Nat /\ i + 1 \in lo..Current /\ i + 1 # lo /\ (i + 1) - 1 = i
    BY <1>0 DEF Current
  <2> QED  BY <2>1 DEF IsChain
<1> DEFINE H == {i \in Nat : g[i] \in Typed}
<1>3. lo \in H
  BY <1>0, <1>1, ContentFacts DEF Current
<1>4. \A i \in lo..(Current - 1) : i \in H => i + 1 \in H
  BY <1>2, MigrateFacts
<1> HIDE DEF H
<1>5. \A i \in lo..Current : i \in H
  <2>1. lo \in Nat /\ Current \in Nat /\ lo <= Current
    BY <1>0 DEF Current
  <2> QED  BY <1>3, <1>4, <2>1, IntervalInduction
<1> QED  BY <1>1, <1>2, <1>5 DEF H

(* The chain yields settings with values.                                  *)
LEMMA MigratedTyped ==
  ASSUME NEW c \in Content
  PROVE  Migrated(c) \in Typed
<1>1. PICK g : IsChain(g, FirstVersion(c), Current, c.value) /\ Migrated(c) = g[Current]
  BY MigratedIsChain, ContentFacts
<1>2. Current \in FirstVersion(c)..Current
  BY ContentFacts DEF Current
<1> QED  BY <1>1, <1>2, ChainStep

(* The chain leaves nothing under the names that are not read any more.    *)
LEMMA MigratedFits ==
  ASSUME NEW c \in Content, FitsSchema(c)
  PROVE  /\ Proper(Migrated(c))
         /\ \A k \in Retired : Migrated(c)[k] = "none"
<1> DEFINE lo == FirstVersion(c)
<1>1. PICK g : IsChain(g, lo, Current, c.value) /\ Migrated(c) = g[Current]
  BY MigratedIsChain, ContentFacts
<1>2. lo \in Nat /\ Current \in Nat /\ lo <= Current /\ Current \in lo..Current
  BY ContentFacts DEF Current
<1> DEFINE H == {i \in Nat : /\ Proper(g[i])
                             /\ \A k \in Retired : i > RetiredAfter(k) => g[i][k] = "none"}
<1>3. lo \in H
  <2>1. g[lo] = c.value
    BY <1>1, ChainStep
  <2>2. ASSUME NEW k \in Retired, lo > RetiredAfter(k) PROVE c.value[k] = "none"
    <3>1. lo = c.version /\ c.version # 0 /\ c.version \in 2..Current
      BY <2>2, ContentFacts DEF FirstVersion, Retired, RetiredAfter, Current
    <3>2. k \in Keys /\ k \notin Schema(c.version)
      BY <2>2, <3>1 DEF Schema, Keys, Retired, RetiredAfter, Current
    <3> QED  BY <3>1, <3>2 DEF FitsSchema
  <2> QED  BY <1>2, <2>1, <2>2 DEF FitsSchema, Proper
<1>4. ASSUME NEW i \in lo..(Current - 1), i \in H PROVE i + 1 \in H
  <2>1. i \in Nat /\ i \in lo..Current /\ g[i] \in Typed /\ g[i + 1] = Migrate(i, g[i])
    BY <1>1, <1>2, ChainStep DEF Current
  <2> QED  BY <1>4, <2>1, MigrateFacts
<1> HIDE DEF H
<1>5. Current \in H
  BY <1>2, <1>3, <1>4, IntervalInduction
<1>6. \A k \in Retired : Current > RetiredAfter(k)
  BY DEF Current, Retired, RetiredAfter
<1> QED  BY <1>1, <1>5, <1>6 DEF H

Place(k, i) ==
  IF \/ k = "good_list" /\ i > 8
     \/ k = "bad_list" /\ i > 9
     \/ k = "ignore_list" /\ i > 17
     \/ k = "hook_timeout_secs" /\ i > 19
  THEN Successor(k) ELSE k

LEMMA SuccessorFacts ==
  /\ Successor("good_list") = "allow_list" /\ Successor("bad_list") = "reject_list"
  /\ Successor("ignore_list") = "jackett_ignore_list"
  /\ Successor("hook_timeout_secs") = "hook_timeout_mins"
  /\ \A k \in Settings : Successor(k) = k
BY DEF Successor, Settings

(* One migration moves a setting to its place in the next version.         *)
LEMMA MigrateCarries ==
  ASSUME NEW i \in Nat, NEW f \in Typed, NEW k \in Keys \ {"email", "ffprobe_path"},
         Proper(f),
         f[Place(k, i)] \in {"user", "file"},
         k = "delete_data" => i > 13,
         k = "allow_list" => i > 8,
         k = "reject_list" => i > 9,
         k = "jackett_ignore_list" => i > 17,
         k = "hook_timeout_mins" => i > 19,
         i = 17 => f["jackett_ignore_list"] = "none",
         k = "hook_timeout_secs" /\ i = 19 => f["hook_timeout_mins"] = "none"
  PROVE  Migrate(i, f)[Place(k, i + 1)] \in {"user", "file"}
<1> USE DEF Typed, Proper, Values, Keys, Settings, Retired, Place
<1>1. CASE i = 1
  BY <1>1 DEF Migrate
<1>2. CASE i = 5
  BY <1>2 DEF Migrate, SetDefault
<1>3. CASE i = 7
  BY <1>3 DEF Migrate
<1>4. CASE i = 8
  <2>1. Migrate(i, f) = Rename(f, "good_list", "allow_list")
    BY <1>4 DEF Migrate
  <2> QED  BY <1>4, <2>1, SuccessorFacts DEF Rename
<1>5. CASE i = 9
  <2>1. Migrate(i, f) = Rename(f, "bad_list", "reject_list")
    BY <1>5 DEF Migrate
  <2> QED  BY <1>5, <2>1, SuccessorFacts DEF Rename
<1>6. CASE i = 13
  <2>1. Migrate(i, f) = [f EXCEPT !["delete_data"] = "default"]
    BY <1>6 DEF Migrate
  <2> QED  BY <1>6, <2>1, SuccessorFacts
<1>7. CASE i = 17
  <2>1. Migrate(i, f) = MoveIgnoreList(f)
    BY <1>7 DEF Migrate
  <2> QED  BY <1>7, <2>1, SuccessorFacts DEF MoveIgnoreList
<1>8. CASE i = 18
  BY <1>8 DEF Migrate, SetDefault
<1>9. CASE i = 19
  <2>1. Migrate(i, f) = ConvertTimeout(f)
    BY <1>9 DEF Migrate
  <2> QED  BY <1>9, <2>1, SuccessorFacts DEF ConvertTimeout, SetDefault
<1>10. CASE i = 20
  BY <1>10 DEF Migrate
<1>11. CASE i = 24
  BY <1>11 DEF Migrate, SetDefault
<1>12. CASE i \notin {1, 5, 7, 8, 9, 13, 17, 18, 19, 20, 24}
  BY <1>12 DEF Migrate
<1> QED
  BY <1>1, <1>2, <1>3, <1>4, <1>5, <1>6, <1>7, <1>8, <1>9, <1>10, <1>11, <1>12

(* No migration before that to 2.16.0 touches jackett_ignore_list.        *)
LEMMA MigrateSpares ==
  ASSUME NEW i \in Nat, i < 17, NEW f \in Typed
  PROVE  Migrate(i, f)["jackett_ignore_list"] = f["jackett_ignore_list"]
<1> USE DEF Typed, Values, Keys, Settings, Retired
<1>1. CASE i = 5
  BY <1>1 DEF Migrate, SetDefault
<1>2. CASE i = 8
  <2>1. Migrate(i, f) = Rename(f, "good_list", "allow_list")
    BY <1>2 DEF Migrate
  <2> QED  BY <2>1 DEF Rename
<1>3. CASE i = 9
  <2>1. Migrate(i, f) = Rename(f, "bad_list", "reject_list")
    BY <1>3 DEF Migrate
  <2> QED  BY <2>1 DEF Rename
<1>4. CASE i \in {1, 7, 13}
  BY <1>4 DEF Migrate
<1>5. CASE i \notin {1, 5, 7, 8, 9, 13}
  <2>1. i \notin {1, 5, 7, 8, 9, 13, 17, 18, 19, 20, 24}
    BY <1>5
  <2> QED  BY <2>1 DEF Migrate
<1> QED  BY <1>1, <1>2, <1>3, <1>4, <1>5

(* What the chain makes of a file, from whatever version it starts: a      *)
(* setting that the file's version has arrives, with a value the user gave *)
(* or one that a migration made of it, under the name this version reads.  *)
(* email and ffprobe_path are dropped and delete_data is set anew, as the  *)
(* migrations to 2.0.0, 2.6.0 and 2.12.0 say; a hook_timeout_secs too      *)
(* small to come to a tenth of a minute, or no number, is not covered: the *)
(* migration to 2.18.0 drops it for its default.                           *)
THEOREM MigratedCarries ==
  ASSUME NEW c \in Content, FitsSchema(c), c.version # 0,
         NEW k \in Keys \ {"email", "ffprobe_path"},
         c.value[k] \in {"user", "file"},
         k = "delete_data" => c.version > 13
  PROVE  Migrated(c)[Successor(k)] \in {"user", "file"}
<1> DEFINE lo == FirstVersion(c)
<1>1. PICK g : IsChain(g, lo, Current, c.value) /\ Migrated(c) = g[Current]
  BY MigratedIsChain, ContentFacts
<1>2. /\ lo \in Nat /\ Current \in Nat /\ lo <= Current /\ Current \in lo..Current
      /\ lo = c.version
  BY ContentFacts DEF FirstVersion, Current
<1>3. k \in Schema(lo)
  BY <1>2 DEF FitsSchema
<1>4. /\ k = "allow_list" => lo > 8
      /\ k = "reject_list" => lo > 9
      /\ k = "jackett_ignore_list" => lo > 17
      /\ k = "hook_timeout_mins" => lo > 19
      /\ k = "hook_timeout_secs" => lo = 19
      /\ k = "good_list" => lo < 9
      /\ k = "bad_list" => lo < 10
      /\ k = "ignore_list" => lo < 18
  BY <1>3 DEF Schema
<1>5. /\ lo < 18 => c.value["jackett_ignore_list"] = "none"
      /\ lo < 20 => c.value["hook_timeout_mins"] = "none"
  <2>1. /\ lo < 18 => "jackett_ignore_list" \notin Schema(lo)
        /\ lo < 20 => "hook_timeout_mins" \notin Schema(lo)
    BY <1>2 DEF Schema
  <2>2. "jackett_ignore_list" \in Keys /\ "hook_timeout_mins" \in Keys
    BY DEF Keys, Settings
  <2> QED  BY <1>2, <2>1, <2>2 DEF FitsSchema, Proper
<1> DEFINE H == {i \in Nat : /\ g[i][Place(k, i)] \in {"user", "file"}
                             /\ Proper(g[i])
                             /\ i < 18 => g[i]["jackett_ignore_list"] = "none"}
<1>6. lo \in H
  <2>1. g[lo] = c.value
    BY <1>1, ChainStep
  <2>2. Place(k, lo) = k
    BY <1>2, <1>4 DEF Place
  <2> QED  BY <1>2, <1>5, <2>1, <2>2 DEF FitsSchema, Proper
<1>7. ASSUME NEW i \in lo..(Current - 1), i \in H PROVE i + 1 \in H
  <2>1. /\ i \in Nat /\ i \in lo..Current /\ g[i] \in Typed
        /\ g[i + 1] = Migrate(i, g[i]) /\ i >= lo
    BY <1>1, <1>2, ChainStep DEF Current
  <2>2. k = "hook_timeout_secs" /\ i = 19 => g[i]["hook_timeout_mins"] = "none"
    BY <1>1, <1>4, <1>5, ChainStep
  <2>3. g[i + 1][Place(k, i + 1)] \in {"user", "file"}
    BY <1>2, <1>4, <1>7, <2>1, <2>2, MigrateCarries
  <2>4. i < 17 => Migrate(i, g[i])["jackett_ignore_list"] = g[i]["jackett_ignore_list"]
    BY <2>1, MigrateSpares
  <2>5. i + 1 < 18 => g[i + 1]["jackett_ignore_list"] = "none"
    BY <1>7, <2>1, <2>4
  <2> QED  BY <1>7, <2>1, <2>3, <2>5, MigrateFacts
<1> HIDE DEF H
<1>8. Current \in H
  BY <1>2, <1>6, <1>7, IntervalInduction
<1>9. Place(k, Current) = Successor(k)
  <2>1. k \in Settings => Successor(k) = k
    BY SuccessorFacts
  <2> QED  BY <2>1 DEF Place, Current, Keys, Retired
<1> QED  BY <1>1, <1>8, <1>9 DEF H

(* What the program writes is of the same kind as what it read. *)

FittingFiles == {c \in Content : FitsSchema(c)}

(* The default file, the file of a crash, the rewritten and the stripped   *)
(* file are files a user may have, and fit their schema if the file they   *)
(* were made from does.                                                    *)
LEMMA NewFile ==
  ASSUME NEW v \in 0..Current, NEW f \in Typed
  PROVE  /\ [version |-> v, empty |-> {}, value |-> f] \in Content
         /\ [version |-> v, empty |-> {}, value |-> f].value = f
         /\ [version |-> v, empty |-> {}, value |-> f].version = v
BY DEF Content, Typed, Values

NoValues == [k \in Keys |-> "none"]

LEMMA EmptyFiles ==
  /\ Blank \in Content /\ CutOff \in Content
  /\ FitsSchema(Blank) /\ FitsSchema(CutOff)
<1>1. NoValues \in Typed
  BY DEF NoValues, Typed, Values
<1>2. Blank = [version |-> 0, empty |-> {}, value |-> NoValues]
  BY DEF Blank, NoValues
<1>3. CutOff = [version |-> Current, empty |-> {}, value |-> NoValues]
  BY <1>2 DEF CutOff
<1>4. 0 \in 0..Current /\ Current \in 0..Current
  BY DEF Current
<1>5. \A k \in Keys : NoValues[k] = "none"
  BY DEF NoValues
<1> HIDE DEF NoValues
<1>6. Blank \in Content /\ Blank.value = NoValues
  BY <1>1, <1>2, <1>4, NewFile
<1>7. CutOff \in Content /\ CutOff.value = NoValues
  BY <1>1, <1>3, <1>4, NewFile
<1> QED  BY <1>5, <1>6, <1>7 DEF FitsSchema

LEMMA MergedFile ==
  ASSUME NEW c \in Content
  PROVE  /\ Merged(c) \in Content
         /\ Merged(c).version = Current
         /\ Effective(Merged(c).value) = Effective(Migrated(c))
         /\ FitsSchema(c) => FitsSchema(Merged(c))
<1> DEFINE f == Migrated(c)
           m == [k \in Keys |-> IF Given(f, k) THEN f[k]
                                ELSE IF k \in Settings THEN "default" ELSE "none"]
<1>1. Migrated(c) \in Typed
  BY MigratedTyped
<1>2. Merged(c) = [version |-> Current, empty |-> {}, value |-> m]
  BY DEF Merged
<1> SUFFICES /\ m \in Typed
             /\ Effective(m) = Effective(f)
             /\ FitsSchema(c) => FitsSchema(Merged(c))
  BY <1>2, NewFile DEF Current
<1>3. m \in Typed
  BY <1>1 DEF Typed, Values
<1>4. Effective(m) = Effective(f)
  <2>1. \A k \in Settings : /\ Given(m, k)
                            /\ m[k] = IF Given(f, k) THEN f[k] ELSE "default"
    BY DEF Given, Keys
  <2> HIDE DEF m, f
  <2> QED  BY <2>1 DEF Effective
<1>5. ASSUME FitsSchema(c) PROVE FitsSchema(Merged(c))
  <2>1. Merged(c).value = m /\ Merged(c).version = Current
    BY <1>2, <1>3, NewFile DEF Current
  <2>2. Proper(m)
    BY <1>5, MigratedFits DEF Proper
  <2>3. \A k \in Keys : k \notin Schema(Current) => k \in Retired /\ k \notin Settings
    BY DEF Schema, Keys, Settings, Retired, Current
  <2>4. \A k \in Keys : k \notin Schema(Current) => m[k] = "none"
    BY <1>5, <2>3, MigratedFits DEF Given
  <2> HIDE DEF m
  <2> QED  BY <2>1, <2>2, <2>4 DEF FitsSchema, Proper
<1> QED  BY <1>3, <1>4, <1>5

LEMMA StrippedFile ==
  ASSUME NEW c \in Content
  PROVE  /\ Stripped(c) \in Content
         /\ Stripped(c).version = c.version
         /\ Effective(Stripped(c).value) = Effective(c.value)
         /\ FitsSchema(c) => FitsSchema(Stripped(c))
<1> DEFINE value(x) == [k \in Keys |-> IF Given(x, k) THEN x[k] ELSE "none"]
<1>1. PICK v \in 0..Current, e \in SUBSET Sections, x \in Typed :
             c = [version |-> v, empty |-> e, value |-> x] /\ c.version = v /\ c.value = x
  BY ContentFacts
<1>2. Stripped(c) = [version |-> v, empty |-> {}, value |-> value(x)]
  <2>1. Stripped(c) = [[c EXCEPT !.empty = {}] EXCEPT !.value = value(x)]
    BY <1>1 DEF Stripped
  <2> HIDE DEF value
  <2>2. [c EXCEPT !.empty = {}] = [version |-> v, empty |-> {}, value |-> x]
    BY <1>1
  <2>3. \A y : [[version |-> v, empty |-> {}, value |-> x] EXCEPT !.value = y]
                = [version |-> v, empty |-> {}, value |-> y]
    OBVIOUS
  <2> QED  BY <2>1, <2>2, <2>3
<1>3. value(x) \in Typed
  BY DEF Typed, Values
<1>4. \A k \in Keys : value(x)[k] = IF Given(x, k) THEN x[k] ELSE "none"
  OBVIOUS
<1> HIDE DEF value
<1>5. Stripped(c) \in Content /\ Stripped(c).version = v /\ Stripped(c).value = value(x)
  BY <1>2, <1>3, NewFile
<1>6. Effective(value(x)) = Effective(x)
  <2>1. \A k \in Settings : /\ Given(value(x), k) <=> Given(x, k)
                            /\ Given(x, k) => value(x)[k] = x[k]
    BY <1>4 DEF Given, Keys
  <2> QED  BY <2>1 DEF Effective
<1>7. FitsSchema(c) => FitsSchema(Stripped(c))
  BY <1>1, <1>4, <1>5 DEF FitsSchema
<1> QED  BY <1>1, <1>5, <1>6, <1>7

-----------------------------------------------------------------------------
(* What is on the disk stays within any kind of file that the program's    *)
(* own writes keep.                                                        *)

OnDiskIn(D) ==
  /\ file \in D \cup {Absent, Torn} /\ raw \in D
  /\ \A v \in DOMAIN backups : backups[v] \in D \cup {Absent, Torn}

ClosedUnderWrites(D) ==
  /\ Hand \subseteq D /\ Blank \in D /\ CutOff \in D
  /\ \A c \in D : Merged(c) \in D /\ Stripped(c) \in D

(* A set of files that writing does not leave holds all that is on disk.   *)
LEMMA DiskStaysIn ==
  ASSUME NEW D, ClosedUnderWrites(D), DiskInv, OnDiskIn(D), [Next]_vars
  PROVE  OnDiskIn(D)'
<1> USE DEF ClosedUnderWrites, OnDiskIn
<1>0. DOMAIN backups = 1..(Current - 1)
  BY DEF DiskInv
<1>1. CASE UserWrites
  BY <1>1 DEF UserWrites
<1>2. CASE BeginDefault
  BY <1>2 DEF BeginDefault
<1>3. CASE EndDefault
  BY <1>3 DEF EndDefault
<1>4. CASE Read
  BY <1>4 DEF Read
<1>5. CASE EndStrip
  BY <1>5 DEF EndStrip
<1>6. CASE Backup
  <2>1. BackupName(raw) \in DOMAIN backups
    BY <1>0, <1>6, BackupNameFacts DEF Backup, DiskInv
  <2>2. PICK c \in D \cup {Absent, Torn} : backups' = [backups EXCEPT ![BackupName(raw)] = c]
    BY <1>6, <2>1 DEF Backup
  <2>3. DOMAIN backups' = DOMAIN backups
    BY <2>2
  <2>4. \A v \in DOMAIN backups : backups'[v] \in D \cup {Absent, Torn}
    BY <1>0, <2>2
  <2> QED  BY <1>6, <2>3, <2>4 DEF Backup
<1>7. CASE BeginRewrite
  BY <1>7 DEF BeginRewrite
<1>8. CASE EndRewrite
  BY <1>8 DEF EndRewrite
<1>9. CASE Stop
  BY <1>9 DEF Stop
<1>10. CASE Crash
  <2>1. CASE UNCHANGED backups
    BY <1>10, <2>1 DEF Crash
  <2>2. CASE pc = "backup" /\ ~UNCHANGED backups
    <3>1. BackupName(raw) \in DOMAIN backups
      BY <1>0, <2>2, BackupNameFacts DEF DiskInv
    <3>2. PICK c \in D \cup {Absent, Torn} : backups' = [backups EXCEPT ![BackupName(raw)] = c]
      BY <1>10, <2>2, <3>1 DEF Crash
    <3>3. DOMAIN backups' = DOMAIN backups
      BY <3>2
    <3>4. \A v \in DOMAIN backups : backups'[v] \in D \cup {Absent, Torn}
      BY <1>0, <3>2
    <3>5. UNCHANGED <<file, raw>>
      BY <1>10, <2>2 DEF Crash
    <3> QED  BY <3>3, <3>4, <3>5
  <2> QED  BY <1>10, <2>1, <2>2 DEF Crash
<1>11. CASE UNCHANGED vars
  BY <1>11 DEF vars
<1> QED
  BY <1>1, <1>2, <1>3, <1>4, <1>5, <1>6, <1>7, <1>8, <1>9, <1>10, <1>11 DEF Next

LEMMA DiskInit ==
  ASSUME NEW D, ClosedUnderWrites(D), Init
  PROVE  DiskInv /\ OnDiskIn(D)
<1>1. OnDisk(file)
  BY HandIsFile DEF Init, OnDisk
<1> QED  BY <1>1, WrittenIsFile DEF Init, DiskInv, OnDisk, OnDiskIn, ClosedUnderWrites

LEMMA ContentIsClosed == ClosedUnderWrites(Content)
BY HandAssumption, EmptyFiles, MergedFile, StrippedFile DEF ClosedUnderWrites

LEMMA FittingIsClosed ==
  ASSUME \A c \in Hand : FitsSchema(c)
  PROVE  ClosedUnderWrites(FittingFiles)
BY HandAssumption, EmptyFiles, MergedFile, StrippedFile DEF ClosedUnderWrites, FittingFiles

-----------------------------------------------------------------------------
(* What was used at the last start, and nothing has disturbed since, is    *)
(* what the file or the copy of it in memory yields.                       *)
StableInv ==
  loaded # Absent =>
    /\ pc \in {"down", "up", "strip"}
    /\ pc \in {"down", "up"} => /\ file \notin {Absent, Torn} /\ file.version = Current
                                /\ loaded = Effective(file.value)
    /\ pc = "strip" => raw.version = Current /\ loaded = Effective(raw.value)

(* From one start to the next nothing changes what the program uses.       *)
LEMMA StableStep ==
  ASSUME DiskInv, OnDiskIn(Content), StableInv, [Next]_vars
  PROVE  /\ StableInv'
         /\ pc # "up" /\ pc' = "up" /\ loaded # Absent => loaded' = loaded
<1>0. raw \in Content /\ (file \notin {Absent, Torn} => file \in Content)
      /\ Absent \notin Content /\ Torn \notin Content
  BY HandAssumption DEF OnDiskIn
<1>a. \A c \in Content : ~Outdated(c) <=> c.version = Current
  BY ContentFacts DEF Outdated, FirstVersion, Current
<1>1. CASE UserWrites
  BY <1>1 DEF UserWrites, StableInv
<1>2. CASE BeginDefault
  BY <1>2 DEF BeginDefault, StableInv
<1>3. CASE EndDefault
  BY <1>3 DEF EndDefault, StableInv
<1>4. CASE Read
  BY <1>0, <1>a, <1>4 DEF Read, StableInv
<1>5. CASE EndStrip
  <2>1. /\ Stripped(raw) \in Content /\ Stripped(raw).version = raw.version
        /\ Effective(Stripped(raw).value) = Effective(raw.value)
    BY <1>0, StrippedFile
  <2>2. raw.version = Current
    BY <1>0, <1>a, <1>5 DEF EndStrip, DiskInv
  <2> QED  BY <1>0, <1>5, <2>1, <2>2 DEF EndStrip, StableInv
<1>6. CASE Backup
  BY <1>6 DEF Backup, StableInv
<1>7. CASE BeginRewrite
  BY <1>7 DEF BeginRewrite, StableInv
<1>8. CASE EndRewrite
  <2>1. /\ Merged(raw) \in Content /\ Merged(raw).version = Current
        /\ Effective(Merged(raw).value) = Effective(Migrated(raw))
    BY <1>0, MergedFile
  <2> QED  BY <1>0, <1>8, <2>1 DEF EndRewrite, StableInv
<1>9. CASE Stop
  BY <1>9 DEF Stop, StableInv
<1>10. CASE Crash
  BY <1>10 DEF Crash, StableInv
<1>11. CASE UNCHANGED vars
  BY <1>11 DEF vars, StableInv
<1> QED
  BY <1>1, <1>2, <1>3, <1>4, <1>5, <1>6, <1>7, <1>8, <1>9, <1>10, <1>11 DEF Next

(* A restart that nothing disturbed yields the configuration of the last   *)
(* start: StableRestart, which MCConfiguration checks.  What is written    *)
(* back has every default in it, and what is stripped had none that        *)
(* mattered.                                                               *)
THEOREM RestartsAreStable == Spec => StableRestart
<1>1. Init => DiskInv /\ OnDiskIn(Content) /\ StableInv
  BY ContentIsClosed, DiskInit DEF Init, StableInv
<1>2. DiskInv /\ OnDiskIn(Content) /\ StableInv /\ [Next]_vars
        => (DiskInv /\ OnDiskIn(Content) /\ StableInv)'
  BY ContentIsClosed, DiskStep, DiskStaysIn, StableStep
<1>3. DiskInv /\ OnDiskIn(Content) /\ StableInv /\ [Next]_vars
        => [pc # "up" /\ pc' = "up" /\ loaded # Absent => loaded' = loaded]_vars
  BY StableStep
<1> QED  BY <1>1, <1>2, <1>3, PTL DEF Spec, StableRestart

-----------------------------------------------------------------------------
(* A start ends in Read when there is nothing to write, in EndStrip or in  *)
(* EndRewrite, and uses what it read, migrated if it is of an old version. *)
LEMMA StartStep ==
  ASSUME DiskInv, OnDiskIn(FittingFiles), [Next]_vars, pc # "up", pc' = "up"
  PROVE  /\ raw' \in FittingFiles
         /\ \/ raw'.version = Current /\ loaded' = Effective(raw'.value)
            \/ loaded' = Effective(Migrated(raw'))
<1>0. raw \in FittingFiles /\ (file \notin {Absent, Torn} => file \in FittingFiles)
  BY DEF OnDiskIn
<1>a. \A c \in FittingFiles : ~Outdated(c) => c.version = Current
  BY ContentFacts DEF FittingFiles, Outdated, FirstVersion, Current
<1>1. CASE Read
  BY <1>0, <1>a, <1>1 DEF Read
<1>2. CASE EndStrip
  BY <1>0, <1>a, <1>2 DEF EndStrip, DiskInv
<1>3. CASE EndRewrite
  BY <1>0, <1>3 DEF EndRewrite
<1> QED
  BY <1>1, <1>2, <1>3 DEF Next, UserWrites, BeginDefault, EndDefault, Backup, BeginRewrite,
     Stop, Crash, vars

CarriesAll(c, e) ==
  c.version # 0 =>
    \A k \in Keys \ {"email", "ffprobe_path"} :
      /\ c.value[k] \in {"user", "file"}
      /\ k = "delete_data" => c.version > 13
      => e[Successor(k)] \in {"user", "file"}

(* A start that ends uses every setting of the file it read.               *)
LEMMA StartCarries ==
  ASSUME NEW c \in FittingFiles, NEW e,
         \/ c.version = Current /\ e = Effective(c.value)
         \/ e = Effective(Migrated(c))
  PROVE  CarriesAll(c, e)
<1> SUFFICES ASSUME c.version # 0, NEW k \in Keys \ {"email", "ffprobe_path"},
                    c.value[k] \in {"user", "file"},
                    k = "delete_data" => c.version > 13
             PROVE  e[Successor(k)] \in {"user", "file"}
  BY DEF CarriesAll
<1>1. c \in Content /\ FitsSchema(c)
  BY DEF FittingFiles
<1>2. Successor(k) \in Settings
  BY SuccessorFacts DEF Keys, Settings, Retired
<1>3. CASE c.version = Current /\ e = Effective(c.value)
  <2>1. k \in Schema(Current)
    BY <1>1, <1>3 DEF FitsSchema
  <2>2. k \in Settings
    BY <2>1 DEF Schema, Keys, Retired, Current
  <2>3. Successor(k) = k
    BY <2>2, SuccessorFacts
  <2> QED  BY <1>3, <2>2, <2>3 DEF Effective, Given
<1>4. CASE e = Effective(Migrated(c))
  <2>1. Migrated(c)[Successor(k)] \in {"user", "file"}
    BY <1>1, MigratedCarries
  <2> QED  BY <1>2, <1>4, <2>1 DEF Effective, Given
<1> QED  BY <1>3, <1>4

(* Files that fit their schema lose no setting to the chain but those that *)
(* CarriedOver names, through any crashes, restarts and backups put back:  *)
(* CarriedOver, which MCConfiguration checks.  A setting that the schema does not have may be *)
(* overwritten by the one that is renamed to it; the program of that       *)
(* version did not read it.                                                *)
THEOREM SettingsAreCarried ==
  ASSUME \A c \in Hand : FitsSchema(c)
  PROVE  Spec => CarriedOver
<1>1. Init => DiskInv /\ OnDiskIn(FittingFiles)
  BY FittingIsClosed, DiskInit
<1>2. DiskInv /\ OnDiskIn(FittingFiles) /\ [Next]_vars => (DiskInv /\ OnDiskIn(FittingFiles))'
  BY FittingIsClosed, DiskStep, DiskStaysIn
<1>3. DiskInv /\ OnDiskIn(FittingFiles) /\ [Next]_vars
        => [(pc # "up" /\ pc' = "up" /\ raw'.version # 0) =>
              \A k \in Keys \ {"email", "ffprobe_path"} :
                /\ raw'.value[k] \in {"user", "file"}
                /\ k = "delete_data" => raw'.version > 13
                => loaded'[Successor(k)] \in {"user", "file"}]_vars
  <2> SUFFICES ASSUME DiskInv, OnDiskIn(FittingFiles), [Next]_vars, pc # "up", pc' = "up"
               PROVE  CarriesAll(raw', loaded')
    BY DEF CarriesAll
  <2> QED  BY StartStep, StartCarries
<1> QED  BY <1>1, <1>2, <1>3, PTL DEF Spec, CarriedOver

=============================================================================
