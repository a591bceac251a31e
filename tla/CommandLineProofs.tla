-------------------------- MODULE CommandLineProofs --------------------------
(***************************************************************************)
(* Theorems about a run up to its first cycle, for every text of a kernel  *)
(* and every configuration: the launch of the warps, for every number of   *)
(* SMs, size of grid and block, and width of warp, and the occupancy       *)
(* report; then the parser, for every text.                                *)
(***************************************************************************)
EXTENDS CommandLine, TLAPS, FiniteSetTheorems


-----------------------------------------------------------------------------
(* Division with remainder, as it cuts CTAs into warps. *)
LEMMA ModRange ==
  ASSUME NEW c \in Nat, NEW n \in Nat \ {0}
  PROVE  /\ c % n \in 0..(n - 1)
         /\ c < n => c % n = c
BY SMT

LEMMA DivMod ==
  ASSUME NEW t \in Nat, NEW n \in Nat \ {0}
  PROVE  /\ t \div n \in Nat
         /\ t % n \in 0..(n - 1)
         /\ t = (t \div n) * n + (t % n)
<1>1. t \div n \in Nat
  BY SMT
<1>2. t % n \in 0..(n - 1)
  BY SMT
<1>3. t = n * (t \div n) + (t % n)
  BY SMTT(30)
<1> QED BY <1>1, <1>2, <1>3

LEMMA LeastFactor ==
  ASSUME NEW a \in Nat, NEW b \in Nat, NEW n \in Nat, a < b
  PROVE  a * n + n <= b * n
<1>1. PICK k \in Nat : b = a + 1 + k
  <2>1. b - a - 1 \in Nat /\ b = a + 1 + (b - a - 1)
    OBVIOUS
  <2> QED BY <2>1
<1>2. b * n = a * n + n + k * n
  BY <1>1
<1>3. k * n \in Nat
  BY SMT
<1> QED BY <1>2, <1>3

LEMMA UniqueQuotient ==
  ASSUME NEW n \in Nat \ {0}, NEW a \in Nat, NEW b \in Nat,
         NEW x \in 0..(n - 1), NEW y \in 0..(n - 1), a * n + x = b * n + y
  PROVE  a = b /\ x = y
<1>1. a * n \in Nat /\ b * n \in Nat
  BY SMT
<1>2. ~ (a < b)
  <2> SUFFICES ASSUME a < b PROVE FALSE
    OBVIOUS
  <2>1. a * n + n <= b * n
    BY LeastFactor
  <2> QED BY <1>1, <2>1
<1>3. ~ (b < a)
  <2> SUFFICES ASSUME b < a PROVE FALSE
    OBVIOUS
  <2>1. b * n + n <= a * n
    BY LeastFactor
  <2> QED BY <1>1, <2>1
<1>4. a = b
  BY <1>2, <1>3
<1> QED BY <1>1, <1>4

(* Rounding up. *)
LEMMA Ceiling ==
  ASSUME NEW B \in Nat \ {0}, NEW n \in Nat \ {0}, NEW w, w = (B + n - 1) \div n
  PROVE  /\ w \in Nat \ {0}
         /\ B <= w * n
         /\ (w - 1) * n < B
<1> DEFINE r == (B + n - 1) % n
<1>1. /\ w \in Nat /\ r \in 0..(n - 1)
      /\ B + n - 1 = w * n + r
  <2>1. B + n - 1 \in Nat
    OBVIOUS
  <2> QED BY <2>1, DivMod
<1> HIDE DEF r
<1>2. w * n \in Nat
  BY <1>1
<1>3. B <= w * n
  BY <1>1, <1>2
<1>4. w # 0
  BY <1>2, <1>3
<1>5. (w - 1) * n = w * n - n
  BY <1>1
<1>6. (w - 1) * n < B
  BY <1>1, <1>2, <1>5
<1> QED BY <1>1, <1>3, <1>4, <1>6

LEMMA QuotientBelow ==
  ASSUME NEW B \in Nat \ {0}, NEW n \in Nat \ {0}, NEW t \in 0..(B - 1)
  PROVE  t \div n < (B + n - 1) \div n
<1> DEFINE w == (B + n - 1) \div n
           q == t \div n
<1>1. w \in Nat \ {0} /\ B <= w * n
  BY Ceiling
<1>2. q \in Nat /\ t % n \in 0..(n - 1) /\ t = q * n + (t % n)
  BY DivMod
<1> HIDE DEF w, q
<1>3. q * n \in Nat /\ w * n \in Nat
  BY <1>1, <1>2
<1>4. ~ (w <= q)
  <2> SUFFICES ASSUME w <= q PROVE FALSE
    OBVIOUS
  <2>1. w * n <= q * n
    <3>1. CASE w = q
      BY <1>3, <3>1
    <3>2. CASE w < q
      BY <1>1, <1>2, <1>3, <3>2, LeastFactor
    <3> QED BY <1>1, <1>2, <3>1, <3>2
  <2>2. t \in Nat /\ t < B /\ q * n <= t
    BY <1>2, <1>3
  <2>3. w * n <= t
    BY <1>3, <2>1, <2>2
  <2> QED BY <1>1, <1>3, <2>2, <2>3
<1> QED BY <1>1, <1>2, <1>4 DEF w, q

-----------------------------------------------------------------------------
LEMMA Dimensions ==
  ASSUME config \in Configs
  PROVE  /\ config.smCount \in Nat \ {0} /\ config.lanesPerWarp \in Nat \ {0}
         /\ gridDim \in Nat \ {0} /\ blockDim \in Nat \ {0}
         /\ warpsPerCTA \in Nat \ {0}
<1>1. config \in Configurations
  BY ConfigsAssumption
<1>2. /\ config.smCount \in Nat \ {0} /\ config.lanesPerWarp \in Nat \ {0}
      /\ config.warpsPerSM \in Nat \ {0} /\ config.gridDim \in Nat
      /\ config.blockDim \in Nat
  BY <1>1 DEF Configurations
<1>3. gridDim \in Nat \ {0}
  BY <1>2 DEF gridDim, gridDimFor
<1>4. config.warpsPerSM * config.lanesPerWarp \in Nat \ {0}
  <2>1. 0 * config.lanesPerWarp + config.lanesPerWarp
          <= config.warpsPerSM * config.lanesPerWarp
    BY <1>2, LeastFactor
  <2> QED BY <1>2, <2>1
<1>5. blockDim \in Nat \ {0}
  BY <1>2, <1>4 DEF blockDim, blockDimFor
<1>6. warpsPerCTA = (blockDim + config.lanesPerWarp - 1) \div config.lanesPerWarp
  BY DEF warpsPerCTA, warpsPerCTAFor, blockDim
<1>7. warpsPerCTA \in Nat \ {0}
  BY <1>2, <1>5, <1>6, Ceiling
<1> QED BY <1>2, <1>3, <1>5, <1>7

(* What the warps of an SM are: those of the CTAs dealt to it, or a spare. *)
OfGrid(s, warp) ==
  /\ warp.ctaId < gridDim /\ s = warp.ctaId % config.smCount
  /\ warp.blockWarpId < warpsPerCTA
  /\ warp.activeMask = lanesOf(warp.blockWarpId)
  /\ warp.id = warp.ctaId * warpsPerCTA + warp.blockWarpId

IsSpare(s, warp) ==
  /\ s < sm /\ s >= gridDim /\ Len(smWarps[s]) = 1
  /\ warp.ctaId = s /\ warp.blockWarpId = 0 /\ warp.activeMask = LaneIds

(* How far the loops have come. *)
Progress ==
  /\ sm > 0 => cta = gridDim
  /\ cta = gridDim => blockWarp = 0
  /\ sm = 0 => globalWarpId = cta * warpsPerCTA + blockWarp

Placement ==
  /\ \A s \in SMs : \A i \in DOMAIN smWarps[s] :
       OfGrid(s, smWarps[s][i]) \/ IsSpare(s, smWarps[s][i])
  /\ \A c \in 0..(gridDim - 1), b \in 0..(warpsPerCTA - 1) :
       c < cta \/ (c = cta /\ b < blockWarp) =>
         \E i \in DOMAIN smWarps[c % config.smCount] :
           /\ smWarps[c % config.smCount][i].ctaId = c
           /\ smWarps[c % config.smCount][i].blockWarpId = b

Numbering ==
  /\ \A s \in SMs : \A i \in DOMAIN smWarps[s] : smWarps[s][i].id < globalWarpId
  /\ \A s, z \in SMs : \A i \in DOMAIN smWarps[s], j \in DOMAIN smWarps[z] :
       smWarps[s][i].id = smWarps[z][j].id => s = z /\ i = j

LaunchInv == TypeOK /\ Progress /\ Placement /\ Numbering

(* What PlaceWarp and SetWarps append. *)
LEMMA PlacedType ==
  ASSUME TypeOK, cta < gridDim
  PROVE  /\ placedWarp \in LaunchedWarps
         /\ cta % config.smCount \in SMs
<1>1. /\ config.smCount \in Nat \ {0} /\ cta \in Nat /\ blockWarp \in Nat
      /\ globalWarpId \in Nat
  BY Dimensions DEF TypeOK
<1>2. cta % config.smCount \in 0..(config.smCount - 1)
  BY <1>1, ModRange
<1> QED BY <1>1, <1>2 DEF placedWarp, LaunchedWarps, lanesOf, SMs

LEMMA SpareType ==
  ASSUME TypeOK, sm < config.smCount
  PROVE  spareWarp \in LaunchedWarps /\ sm \in SMs
BY Dimensions DEF TypeOK, spareWarp, LaunchedWarps, SMs

LEMMA TypeStep ==
  ASSUME TypeOK, Next
  PROVE  TypeOK'
<1>1. CASE PlaceWarp
  <2>1. /\ placedWarp \in LaunchedWarps /\ cta % config.smCount \in SMs
        /\ config' = config /\ sm' = sm /\ globalWarpId' = globalWarpId + 1
        /\ smWarps' = [smWarps EXCEPT ![cta % config.smCount] = Append(@, placedWarp)]
    BY <1>1, PlacedType DEF PlaceWarp
  <2>2. smWarps' \in [SMs -> Seq(LaunchedWarps)]
    BY <2>1 DEF TypeOK
  <2>3. cta' \in 0..gridDim /\ blockWarp' \in 0..(warpsPerCTA - 1)
    BY <1>1, Dimensions DEF PlaceWarp, TypeOK
  <2>4. globalWarpId' \in Nat /\ sm \in 0..config.smCount /\ config \in Configs
    BY <2>1 DEF TypeOK
  <2> QED BY <2>1, <2>2, <2>3, <2>4
          DEF TypeOK, SMs, LaunchedWarps, LaneIds, gridDim, warpsPerCTA
<1>2. CASE SetWarps
  <2>1. /\ spareWarp \in LaunchedWarps /\ sm \in SMs
        /\ UNCHANGED <<config, cta, blockWarp>> /\ sm' = sm + 1
    BY <1>2, SpareType DEF SetWarps
  <2>2. smWarps' \in [SMs -> Seq(LaunchedWarps)] /\ globalWarpId' \in Nat
    <3>1. CASE smWarps[sm] = << >>
      <4>1. /\ smWarps' = [smWarps EXCEPT ![sm] = Append(@, spareWarp)]
            /\ globalWarpId' = globalWarpId + 1
        BY <1>2, <3>1 DEF SetWarps
      <4> QED BY <2>1, <4>1 DEF TypeOK
    <3>2. CASE smWarps[sm] # << >>
      BY <1>2, <3>2 DEF TypeOK, SetWarps
    <3> QED BY <3>1, <3>2
  <2>3. sm' \in 0..config.smCount
    BY <2>1, Dimensions DEF TypeOK, SMs
  <2> QED BY <2>1, <2>2, <2>3
          DEF TypeOK, SMs, LaunchedWarps, LaneIds, gridDim, warpsPerCTA
<1> QED BY <1>1, <1>2 DEF Next

(* The state of the launch is well typed for every configuration. *)
THEOREM LaunchTypeCorrect == Spec => []TypeOK
<1>1. Init => TypeOK
  BY Dimensions DEF Init, TypeOK, SMs
<1>2. TypeOK /\ [Next]_launchVars => TypeOK'
  <2>1. TypeOK /\ UNCHANGED launchVars => TypeOK'
    BY DEF TypeOK, launchVars, SMs, LaunchedWarps, LaneIds, gridDim, warpsPerCTA
  <2> QED BY <2>1, TypeStep
<1> QED BY <1>1, <1>2, PTL DEF Spec

-----------------------------------------------------------------------------
LEMMA ProgressStep ==
  ASSUME TypeOK, Progress, Next
  PROVE  Progress'
<1>1. CASE PlaceWarp
  <2>1. /\ cta < gridDim /\ config' = config /\ sm' = sm
        /\ globalWarpId' = globalWarpId + 1
        /\ IF blockWarp + 1 < warpsPerCTA
           THEN blockWarp' = blockWarp + 1 /\ cta' = cta
           ELSE blockWarp' = 0 /\ cta' = cta + 1
    BY <1>1 DEF PlaceWarp
  <2>2. /\ warpsPerCTA \in Nat \ {0} /\ gridDim \in Nat /\ cta \in Nat
        /\ blockWarp \in 0..(warpsPerCTA - 1) /\ sm \in Nat /\ globalWarpId \in Nat
    BY Dimensions DEF TypeOK
  <2>3. gridDim' = gridDim /\ warpsPerCTA' = warpsPerCTA
    BY <2>1 DEF gridDim, warpsPerCTA
  <2>4. sm = 0
    BY <2>1, <2>2 DEF Progress
  <2>5. globalWarpId' = cta' * warpsPerCTA + blockWarp'
    <3>1. globalWarpId = cta * warpsPerCTA + blockWarp /\ cta * warpsPerCTA \in Nat
      BY <2>2, <2>4 DEF Progress
    <3>2. CASE blockWarp + 1 < warpsPerCTA
      BY <2>1, <2>2, <3>1, <3>2
    <3>3. CASE ~ (blockWarp + 1 < warpsPerCTA)
      <4>1. blockWarp + 1 = warpsPerCTA
        BY <2>2, <3>3
      <4>2. (cta + 1) * warpsPerCTA = cta * warpsPerCTA + warpsPerCTA
        BY <2>2
      <4> QED BY <2>1, <2>2, <3>1, <3>3, <4>1, <4>2
    <3> QED BY <3>2, <3>3
  <2>6. cta' = gridDim => blockWarp' = 0
    BY <2>1, <2>2
  <2> QED BY <2>1, <2>3, <2>4, <2>5, <2>6 DEF Progress
<1>2. CASE SetWarps
  <2>1. /\ cta = gridDim /\ sm' = sm + 1 /\ UNCHANGED <<config, cta, blockWarp>>
    BY <1>2 DEF SetWarps
  <2>2. gridDim' = gridDim
    BY <2>1 DEF gridDim
  <2>3. sm' # 0
    BY <2>1 DEF TypeOK
  <2> QED BY <2>1, <2>2, <2>3 DEF Progress
<1> QED BY <1>1, <1>2 DEF Next

(* Appending gives one warp more and keeps the others. *)
LEMMA Appended ==
  ASSUME NEW S, NEW seq \in Seq(S), NEW e \in S
  PROVE  /\ Len(Append(seq, e)) = Len(seq) + 1
         /\ DOMAIN Append(seq, e) = DOMAIN seq \cup {Len(seq) + 1}
         /\ Append(seq, e)[Len(seq) + 1] = e
         /\ \A i \in DOMAIN seq : Append(seq, e)[i] = seq[i]
         /\ Len(seq) + 1 \notin DOMAIN seq
OBVIOUS

(* While CTAs are placed, no SM has a spare warp. *)
LEMMA PlacedWhere ==
  ASSUME LaunchInv, PlaceWarp
  PROVE  /\ sm = 0 /\ globalWarpId = cta * warpsPerCTA + blockWarp
         /\ \A s \in SMs : \A i \in DOMAIN smWarps[s] : OfGrid(s, smWarps[s][i])
<1>1. sm = 0
  BY Dimensions DEF LaunchInv, TypeOK, Progress, PlaceWarp
<1>2. \A s \in SMs : ~ (s < sm)
  BY <1>1 DEF SMs
<1> QED BY <1>1, <1>2 DEF LaunchInv, Progress, Placement, IsSpare

LEMMA PlacementStep ==
  ASSUME LaunchInv, Next
  PROVE  Placement'
<1>1. CASE PlaceWarp
  <2> DEFINE home == cta % config.smCount
  <2>1. /\ placedWarp \in LaunchedWarps /\ home \in SMs
        /\ cta < gridDim /\ config' = config /\ sm' = sm
        /\ smWarps' = [smWarps EXCEPT ![home] = Append(smWarps[home], placedWarp)]
        /\ IF blockWarp + 1 < warpsPerCTA
           THEN blockWarp' = blockWarp + 1 /\ cta' = cta
           ELSE blockWarp' = 0 /\ cta' = cta + 1
    BY <1>1, PlacedType DEF LaunchInv, PlaceWarp
  <2>2. /\ smWarps \in [SMs -> Seq(LaunchedWarps)]
        /\ blockWarp \in 0..(warpsPerCTA - 1) /\ warpsPerCTA \in Nat \ {0}
        /\ cta \in Nat /\ gridDim \in Nat
    BY Dimensions DEF LaunchInv, TypeOK
  <2>3. /\ gridDim' = gridDim /\ warpsPerCTA' = warpsPerCTA /\ SMs' = SMs
        /\ blockDim' = blockDim /\ LaneIds' = LaneIds
    BY <2>1 DEF gridDim, warpsPerCTA, SMs, blockDim, LaneIds
  <2>4. \A warp : \A s \in SMs : OfGrid(s, warp) => OfGrid(s, warp)'
    BY <2>1, <2>3 DEF OfGrid, lanesOf
  <2>5. OfGrid(home, placedWarp)
    BY <1>1, <2>1, <2>2, PlacedWhere DEF OfGrid, placedWarp
  <2>6. /\ smWarps'[home] = Append(smWarps[home], placedWarp)
        /\ \A s \in SMs \ {home} : smWarps'[s] = smWarps[s]
    BY <2>1, <2>2
  <2>7. /\ DOMAIN smWarps'[home] = DOMAIN smWarps[home] \cup {Len(smWarps[home]) + 1}
        /\ smWarps'[home][Len(smWarps[home]) + 1] = placedWarp
        /\ \A i \in DOMAIN smWarps[home] : smWarps'[home][i] = smWarps[home][i]
    BY <2>1, <2>2, <2>6, Appended
  <2> HIDE DEF home
  <2>8. ASSUME NEW s \in SMs, NEW i \in DOMAIN smWarps'[s]
        PROVE  OfGrid(s, smWarps'[s][i])
    <3>1. \A z \in SMs : \A j \in DOMAIN smWarps[z] : OfGrid(z, smWarps[z][j])
      BY <1>1, PlacedWhere
    <3>2. CASE s # home
      BY <2>6, <2>8, <3>1, <3>2
    <3>3. CASE s = home /\ i \in DOMAIN smWarps[home]
      BY <2>7, <3>1, <3>3
    <3>4. CASE s = home /\ i = Len(smWarps[home]) + 1
      BY <2>5, <2>7, <3>4
    <3> QED BY <2>7, <2>8, <3>2, <3>3, <3>4
  <2>9. ASSUME NEW c \in 0..(gridDim - 1), NEW b \in 0..(warpsPerCTA - 1),
               c < cta' \/ (c = cta' /\ b < blockWarp')
        PROVE  \E i \in DOMAIN smWarps'[c % config.smCount] :
                 /\ smWarps'[c % config.smCount][i].ctaId = c
                 /\ smWarps'[c % config.smCount][i].blockWarpId = b
    <3>1. CASE c = cta /\ b = blockWarp
      <4>1. c % config.smCount = home
        BY <3>1 DEF home
      <4>2. placedWarp.ctaId = c /\ placedWarp.blockWarpId = b
        BY <3>1 DEF placedWarp
      <4> QED BY <2>7, <4>1, <4>2
    <3>2. CASE ~ (c = cta /\ b = blockWarp)
      <4>1. c < cta \/ (c = cta /\ b < blockWarp)
        BY <2>1, <2>2, <2>9, <3>2
      <4>2. PICK i \in DOMAIN smWarps[c % config.smCount] :
               /\ smWarps[c % config.smCount][i].ctaId = c
               /\ smWarps[c % config.smCount][i].blockWarpId = b
        BY <4>1 DEF LaunchInv, Placement
      <4>3. c % config.smCount \in SMs
        <5>1. c \in Nat /\ config.smCount \in Nat \ {0}
          BY <2>2, Dimensions DEF LaunchInv, TypeOK
        <5> QED BY <5>1, ModRange DEF SMs
      <4>4. /\ i \in DOMAIN smWarps'[c % config.smCount]
            /\ smWarps'[c % config.smCount][i] = smWarps[c % config.smCount][i]
        BY <2>6, <2>7, <4>3
      <4> QED BY <4>2, <4>4
    <3> QED BY <3>1, <3>2
  <2> QED BY <2>1, <2>3, <2>4, <2>8, <2>9 DEF Placement
<1>2. CASE SetWarps
  <2>1. /\ spareWarp \in LaunchedWarps /\ sm \in SMs /\ cta = gridDim
        /\ UNCHANGED <<config, cta, blockWarp>> /\ sm' = sm + 1
    BY <1>2, SpareType DEF LaunchInv, SetWarps
  <2>2. /\ smWarps \in [SMs -> Seq(LaunchedWarps)] /\ sm \in Nat
        /\ gridDim \in Nat /\ warpsPerCTA \in Nat \ {0} /\ SMs \subseteq Nat
    BY Dimensions DEF LaunchInv, TypeOK, SMs
  <2>3. /\ gridDim' = gridDim /\ warpsPerCTA' = warpsPerCTA /\ SMs' = SMs
        /\ blockDim' = blockDim /\ LaneIds' = LaneIds
    BY <2>1 DEF gridDim, warpsPerCTA, SMs, blockDim, LaneIds
  <2>4. \A warp : \A s \in SMs : OfGrid(s, warp) => OfGrid(s, warp)'
    BY <2>1, <2>3 DEF OfGrid, lanesOf
  <2>5. CASE smWarps[sm] # << >>
    <3>1. smWarps' = smWarps
      BY <1>2, <2>5 DEF SetWarps
    <3>2. \A warp : \A s \in SMs : IsSpare(s, warp) => IsSpare(s, warp)'
      BY <2>1, <2>2, <2>3, <3>1 DEF IsSpare
    <3> QED BY <2>1, <2>3, <2>4, <3>1, <3>2 DEF LaunchInv, Placement
  <2>6. CASE smWarps[sm] = << >>
    <3>1. smWarps' = [smWarps EXCEPT ![sm] = Append(smWarps[sm], spareWarp)]
      BY <1>2, <2>6 DEF SetWarps
    <3>2. /\ smWarps'[sm] = Append(smWarps[sm], spareWarp)
          /\ \A s \in SMs \ {sm} : smWarps'[s] = smWarps[s]
      BY <2>1, <2>2, <3>1
    <3>3. sm >= gridDim
      <4> SUFFICES ASSUME sm < gridDim PROVE FALSE
        BY <2>2
      <4>1. sm % config.smCount = sm
        <5>1. config.smCount \in Nat \ {0} /\ sm < config.smCount
          BY <2>1, Dimensions DEF LaunchInv, TypeOK, SMs
        <5> QED BY <2>2, <5>1, ModRange
      <4>2. sm \in 0..(gridDim - 1) /\ 0 \in 0..(warpsPerCTA - 1) /\ sm < cta
        BY <2>1, <2>2
      <4>3. \E i \in DOMAIN smWarps[sm] : TRUE
        BY <4>1, <4>2 DEF LaunchInv, Placement
      <4>4. DOMAIN smWarps[sm] = {}
        BY <2>6
      <4> QED BY <4>3, <4>4
    <3>4. \A warp : \A s \in SMs : s # sm /\ IsSpare(s, warp) => IsSpare(s, warp)'
      BY <2>1, <2>2, <2>3, <3>2 DEF IsSpare
    <3>5. Len(smWarps'[sm]) = 1
      BY <2>1, <2>2, <2>6, <3>2, Appended
    <3>6. \A i \in DOMAIN smWarps'[sm] : smWarps'[sm][i] = spareWarp
      <4>1. DOMAIN smWarps[sm] = {} /\ smWarps[sm] \in Seq(LaunchedWarps)
        BY <2>1, <2>2, <2>6
      <4>2. DOMAIN smWarps'[sm] = DOMAIN smWarps[sm] \cup {Len(smWarps[sm]) + 1}
            /\ smWarps'[sm][Len(smWarps[sm]) + 1] = spareWarp
        BY <2>1, <3>2, <4>1, Appended
      <4> QED BY <4>1, <4>2
    <3>7. ASSUME NEW s \in SMs, NEW i \in DOMAIN smWarps'[s]
          PROVE  \E warp : /\ warp = smWarps'[s][i]
                           /\ OfGrid(s, warp)' \/ IsSpare(s, warp)'
      <4>1. CASE s = sm
        <5>1. \A z, warp : z = sm /\ warp = spareWarp => IsSpare(z, warp)'
          BY <2>1, <2>2, <2>3, <3>3, <3>5 DEF IsSpare, spareWarp
        <5> QED BY <3>6, <3>7, <4>1, <5>1
      <4>2. CASE s # sm
        <5>1. smWarps'[s] = smWarps[s] /\ i \in DOMAIN smWarps[s]
          BY <3>2, <3>7, <4>2
        <5>2. OfGrid(s, smWarps[s][i]) \/ IsSpare(s, smWarps[s][i])
          BY <5>1 DEF LaunchInv, Placement
        <5> QED BY <2>4, <3>4, <4>2, <5>1, <5>2
      <4> QED BY <4>1, <4>2
    <3>8. ASSUME NEW c \in 0..(gridDim - 1), NEW b \in 0..(warpsPerCTA - 1),
                 c < cta \/ (c = cta /\ b < blockWarp)
          PROVE  \E i \in DOMAIN smWarps'[c % config.smCount] :
                   /\ smWarps'[c % config.smCount][i].ctaId = c
                   /\ smWarps'[c % config.smCount][i].blockWarpId = b
      <4>1. PICK i \in DOMAIN smWarps[c % config.smCount] :
               /\ smWarps[c % config.smCount][i].ctaId = c
               /\ smWarps[c % config.smCount][i].blockWarpId = b
        BY <3>8 DEF LaunchInv, Placement
      <4>2. c % config.smCount \in SMs
        <5>1. c \in Nat /\ config.smCount \in Nat \ {0}
          BY <2>2, Dimensions DEF LaunchInv, TypeOK
        <5> QED BY <5>1, ModRange DEF SMs
      <4>3. c % config.smCount # sm
        BY <2>6, <4>1
      <4> QED BY <3>2, <4>1, <4>2, <4>3
    <3> QED BY <2>1, <2>3, <3>7, <3>8 DEF Placement
  <2> QED BY <2>5, <2>6
<1> QED BY <1>1, <1>2 DEF Next

LEMMA NumberingStep ==
  ASSUME LaunchInv, Next
  PROVE  Numbering'
<1>1. globalWarpId \in Nat /\ smWarps \in [SMs -> Seq(LaunchedWarps)]
  BY DEF LaunchInv, TypeOK
<1>2. ASSUME NEW home \in SMs, NEW warp \in LaunchedWarps, warp.id = globalWarpId,
             globalWarpId' = globalWarpId + 1, SMs' = SMs,
             smWarps' = [smWarps EXCEPT ![home] = Append(smWarps[home], warp)]
      PROVE  Numbering'
  <2> DEFINE last == Len(smWarps[home]) + 1
  <2>1. /\ smWarps'[home] = Append(smWarps[home], warp)
        /\ \A s \in SMs \ {home} : smWarps'[s] = smWarps[s]
    BY <1>1, <1>2
  <2>2. /\ DOMAIN smWarps'[home] = DOMAIN smWarps[home] \cup {last}
        /\ smWarps'[home][last] = warp
        /\ \A i \in DOMAIN smWarps[home] : smWarps'[home][i] = smWarps[home][i]
    BY <1>1, <1>2, <2>1, Appended
  <2> HIDE DEF last
  <2>3. ASSUME NEW s \in SMs, NEW i \in DOMAIN smWarps'[s]
        PROVE  \/ /\ s = home /\ i = last /\ smWarps'[s][i].id = globalWarpId
               \/ /\ i \in DOMAIN smWarps[s] /\ smWarps'[s][i] = smWarps[s][i]
                  /\ smWarps'[s][i].id < globalWarpId /\ smWarps[s][i].id \in Nat
    <3>1. \A z \in SMs : \A j \in DOMAIN smWarps[z] :
             smWarps[z][j].id < globalWarpId /\ smWarps[z][j].id \in Nat
      <4> SUFFICES ASSUME NEW z \in SMs, NEW j \in DOMAIN smWarps[z]
                   PROVE  smWarps[z][j].id < globalWarpId /\ smWarps[z][j].id \in Nat
        OBVIOUS
      <4>1. smWarps[z] \in Seq(LaunchedWarps)
        BY <1>1
      <4>2. smWarps[z][j] \in LaunchedWarps
        BY <4>1
      <4> QED BY <4>2 DEF LaunchInv, Numbering, LaunchedWarps
    <3>2. CASE s = home /\ i = last
      BY <1>2, <2>2, <3>2
    <3>3. CASE ~ (s = home /\ i = last)
      <4>1. i \in DOMAIN smWarps[s] /\ smWarps'[s][i] = smWarps[s][i]
        BY <2>1, <2>2, <2>3, <3>3
      <4> QED BY <3>1, <4>1
    <3> QED BY <3>2, <3>3
  <2>4. ASSUME NEW s \in SMs, NEW i \in DOMAIN smWarps'[s]
        PROVE  smWarps'[s][i].id < globalWarpId'
    BY <1>1, <1>2, <2>3
  <2>5. ASSUME NEW s \in SMs, NEW z \in SMs, NEW i \in DOMAIN smWarps'[s],
               NEW j \in DOMAIN smWarps'[z], smWarps'[s][i].id = smWarps'[z][j].id
        PROVE  s = z /\ i = j
    <3>1. CASE i \in DOMAIN smWarps[s] /\ j \in DOMAIN smWarps[z]
               /\ smWarps[s][i].id = smWarps[z][j].id
      BY <3>1 DEF LaunchInv, Numbering
    <3>2. \/ s = home /\ i = last /\ z = home /\ j = last
          \/ i \in DOMAIN smWarps[s] /\ j \in DOMAIN smWarps[z]
             /\ smWarps[s][i].id = smWarps[z][j].id
      BY <1>1, <2>3, <2>5
    <3> QED BY <3>1, <3>2
  <2> QED BY <1>2, <2>4, <2>5 DEF Numbering
<1>3. CASE PlaceWarp
  <2>1. /\ placedWarp \in LaunchedWarps /\ cta % config.smCount \in SMs
        /\ config' = config /\ globalWarpId' = globalWarpId + 1
        /\ smWarps' = [smWarps EXCEPT ![cta % config.smCount]
                         = Append(smWarps[cta % config.smCount], placedWarp)]
    BY <1>3, PlacedType DEF LaunchInv, PlaceWarp
  <2>2. placedWarp.id = globalWarpId /\ SMs' = SMs
    BY <2>1 DEF placedWarp, SMs
  <2> QED BY <1>2, <2>1, <2>2
<1>4. CASE SetWarps
  <2>1. spareWarp \in LaunchedWarps /\ sm \in SMs /\ config' = config
    BY <1>4, SpareType DEF LaunchInv, SetWarps
  <2>2. spareWarp.id = globalWarpId /\ SMs' = SMs
    BY <2>1 DEF spareWarp, SMs
  <2>3. CASE smWarps[sm] = << >>
    <3>1. /\ smWarps' = [smWarps EXCEPT ![sm] = Append(smWarps[sm], spareWarp)]
          /\ globalWarpId' = globalWarpId + 1
      BY <1>4, <2>3 DEF SetWarps
    <3> QED BY <1>2, <2>1, <2>2, <3>1
  <2>4. CASE smWarps[sm] # << >>
    <3>1. UNCHANGED <<smWarps, globalWarpId>>
      BY <1>4, <2>4 DEF SetWarps
    <3> QED BY <2>2, <3>1 DEF LaunchInv, Numbering
  <2> QED BY <2>3, <2>4
<1> QED BY <1>3, <1>4 DEF Next

LEMMA LaunchInvariant == Spec => []LaunchInv
<1>1. Init => LaunchInv
  <2> SUFFICES ASSUME Init PROVE LaunchInv
    OBVIOUS
  <2>1. TypeOK
    BY Dimensions DEF Init, TypeOK, SMs
  <2>2. \A s \in SMs : DOMAIN smWarps[s] = {}
    BY DEF Init
  <2>3. warpsPerCTA \in Nat \ {0} /\ gridDim \in Nat \ {0}
        /\ sm = 0 /\ cta = 0 /\ blockWarp = 0 /\ globalWarpId = 0
    BY Dimensions DEF Init
  <2>4. Progress
    BY <2>3 DEF Progress
  <2>5. Placement
    BY <2>2, <2>3 DEF Placement
  <2>6. Numbering
    BY <2>2 DEF Numbering
  <2> QED BY <2>1, <2>4, <2>5, <2>6 DEF LaunchInv
<1>2. LaunchInv /\ [Next]_launchVars => LaunchInv'
  <2>1. LaunchInv /\ Next => LaunchInv'
    BY TypeStep, ProgressStep, PlacementStep, NumberingStep DEF LaunchInv
  <2>2. LaunchInv /\ UNCHANGED launchVars => LaunchInv'
    <3> SUFFICES ASSUME LaunchInv, UNCHANGED launchVars PROVE LaunchInv'
      OBVIOUS
    <3>1. /\ config' = config /\ smWarps' = smWarps /\ globalWarpId' = globalWarpId
          /\ cta' = cta /\ blockWarp' = blockWarp /\ sm' = sm
      BY DEF launchVars
    <3>2. /\ gridDim' = gridDim /\ warpsPerCTA' = warpsPerCTA /\ SMs' = SMs
          /\ blockDim' = blockDim /\ LaneIds' = LaneIds
      BY <3>1 DEF gridDim, warpsPerCTA, SMs, blockDim, LaneIds
    <3>3. TypeOK'
      BY <3>1, <3>2 DEF LaunchInv, TypeOK, LaunchedWarps
    <3>4. Progress' /\ Numbering'
      BY <3>1, <3>2 DEF LaunchInv, Progress, Numbering
    <3>5. \A warp : \A s \in SMs : OfGrid(s, warp) => OfGrid(s, warp)'
      BY <3>1, <3>2 DEF OfGrid, lanesOf
    <3>6. \A warp : \A s \in SMs : IsSpare(s, warp) => IsSpare(s, warp)'
      BY <3>1, <3>2 DEF IsSpare
    <3>7. Placement'
      <4>1. Placement
        BY DEF LaunchInv
      <4> QED BY <3>1, <3>2, <3>5, <3>6, <4>1 DEF Placement
    <3> QED BY <3>3, <3>4, <3>7 DEF LaunchInv
  <2> QED BY <2>1, <2>2
<1> QED BY <1>1, <1>2, PTL DEF Spec

-----------------------------------------------------------------------------
(* A spare warp is of no CTA of the grid. *)
LEMMA SpareOutside ==
  ASSUME LaunchInv, NEW s \in SMs, NEW warp, IsSpare(s, warp)
  PROVE  ~ (warp.ctaId < gridDim)
<1>1. s \in Nat /\ gridDim \in Nat
  BY Dimensions DEF LaunchInv, TypeOK, SMs
<1>2. warp.ctaId = s /\ s >= gridDim
  BY DEF IsSpare
<1> QED BY <1>1, <1>2

LEMMA WarpsAt ==
  ASSUME LaunchInv, NEW p \in Places
  PROVE  /\ p[1] \in SMs /\ p[2] \in DOMAIN smWarps[p[1]] /\ p = <<p[1], p[2]>>
         /\ warpAt(p) \in LaunchedWarps
         /\ OfGrid(p[1], warpAt(p)) \/ IsSpare(p[1], warpAt(p))
<1>1. /\ p[1] \in SMs /\ p[2] \in DOMAIN smWarps[p[1]] /\ p = <<p[1], p[2]>>
  BY DEF Places
<1>2. smWarps[p[1]] \in Seq(LaunchedWarps)
  BY <1>1 DEF LaunchInv, TypeOK
<1>3. smWarps[p[1]][p[2]] \in LaunchedWarps
  BY <1>1, <1>2
<1> QED BY <1>1, <1>3 DEF warpAt, LaunchInv, Placement

(* No two warps have one number, and the warps of the grid are numbered as *)
(* in the reference.                                                       *)
THEOREM WarpsAreNumbered == Spec => []WarpsNumbered
<1>1. LaunchInv => WarpsNumbered
  <2> SUFFICES ASSUME LaunchInv PROVE WarpsNumbered
    OBVIOUS
  <2>1. ASSUME NEW p \in Places, NEW q \in Places, warpAt(p).id = warpAt(q).id
        PROVE  p = q
    <3>1. p[1] = q[1] /\ p[2] = q[2]
      BY <2>1, WarpsAt DEF warpAt, LaunchInv, Numbering
    <3>2. p = <<p[1], p[2]>> /\ q = <<q[1], q[2]>>
      BY WarpsAt
    <3> QED BY <3>1, <3>2
  <2>2. ASSUME NEW p \in Places, warpAt(p).ctaId < gridDim
        PROVE  warpAt(p).id = warpAt(p).ctaId * warpsPerCTA + warpAt(p).blockWarpId
    <3>1. OfGrid(p[1], warpAt(p)) \/ IsSpare(p[1], warpAt(p))
      BY WarpsAt
    <3>2. p[1] \in SMs
      BY WarpsAt
    <3>3. ~ IsSpare(p[1], warpAt(p))
      BY <2>2, <3>2, SpareOutside
    <3> QED BY <3>1, <3>3 DEF OfGrid
  <2> QED BY <2>1, <2>2 DEF WarpsNumbered
<1> QED BY <1>1, LaunchInvariant, PTL

(* The comparison does not take the registers of a spare warp for those of *)
(* a thread.                                                               *)
THEOREM SparesAreNotCompared == Spec => []SparesNotCompared
<1>1. LaunchInv => SparesNotCompared
  <2> SUFFICES ASSUME LaunchInv, NEW p \in Places, NEW lane \in LaneIds,
                      Compared(warpAt(p), lane)
               PROVE  warpAt(p).ctaId < gridDim
    BY DEF SparesNotCompared
  <2> DEFINE c == warpAt(p).ctaId
             t == threadId(warpAt(p), lane)
  <2>1. /\ gridDim \in Nat /\ blockDim \in Nat /\ config.lanesPerWarp \in Nat
        /\ c \in Nat /\ warpAt(p).blockWarpId \in Nat /\ lane \in Nat
    <3>1. warpAt(p) \in LaunchedWarps
      BY WarpsAt
    <3>2. c \in Nat /\ warpAt(p).blockWarpId \in Nat
      BY <3>1 DEF LaunchedWarps
    <3>3. /\ gridDim \in Nat /\ blockDim \in Nat /\ config.lanesPerWarp \in Nat
      BY Dimensions DEF LaunchInv, TypeOK
    <3>4. lane \in Nat
      BY <3>3 DEF LaneIds
    <3> QED BY <3>2, <3>3, <3>4
  <2>2. warpAt(p).blockWarpId * config.lanesPerWarp \in Nat
    BY <2>1
  <2>3. t \in Nat
    BY <2>1, <2>2 DEF threadId
  <2>4. c * blockDim + t < gridDim * blockDim
    BY DEF Compared, globalThreadId, ThreadCount
  <2> HIDE DEF c, t
  <2>5. c * blockDim \in Nat /\ gridDim * blockDim \in Nat
    BY <2>1
  <2>6. ~ (gridDim < c)
    <3> SUFFICES ASSUME gridDim < c PROVE FALSE
      OBVIOUS
    <3>1. gridDim * blockDim + blockDim <= c * blockDim
      BY <2>1, LeastFactor
    <3> QED BY <2>1, <2>3, <2>4, <2>5, <3>1
  <2>7. c # gridDim
    BY <2>1, <2>3, <2>4, <2>5
  <2> QED BY <2>1, <2>6, <2>7 DEF c
<1> QED BY <1>1, LaunchInvariant, PTL

-----------------------------------------------------------------------------
(* The lanes that run: each is that of a thread of the grid, or of a spare *)
(* warp.                                                                   *)
LEMMA RunnersAre ==
  ASSUME LaunchInv, NEW x \in RunningLanes
  PROVE  /\ x[1] \in Places /\ x[2] \in LaneIds /\ x = <<x[1], x[2]>>
         /\ \/ /\ OfGrid(x[1][1], warpAt(x[1]))
               /\ threadId(warpAt(x[1]), x[2]) < blockDim
            \/ IsSpare(x[1][1], warpAt(x[1]))
<1>1. /\ x[1] \in Places /\ x[2] \in LaneIds /\ x = <<x[1], x[2]>>
      /\ x[2] \in warpAt(x[1]).activeMask
  BY DEF RunningLanes
<1> QED BY <1>1, WarpsAt DEF OfGrid, lanesOf, threadId

LEMMA ThreadHasRunner ==
  ASSUME LaunchInv, Launched, NEW c \in 0..(gridDim - 1), NEW t \in 0..(blockDim - 1)
  PROVE  \E x \in RunningLanes : x \in Runners(c, t) /\ x[1][1] = c % config.smCount
<1> DEFINE n == config.lanesPerWarp
           b == t \div n
           lane == t % n
           s == c % config.smCount
<1>1. /\ config.smCount \in Nat \ {0} /\ n \in Nat \ {0} /\ gridDim \in Nat
      /\ blockDim \in Nat \ {0} /\ warpsPerCTA \in Nat /\ t \in Nat /\ c \in Nat
  BY Dimensions DEF LaunchInv, TypeOK
<1>2. b \in Nat /\ lane \in 0..(n - 1) /\ t = b * n + lane
  BY <1>1, DivMod
<1>3. b < warpsPerCTA
  <2>1. warpsPerCTA = (blockDim + n - 1) \div n
    BY DEF warpsPerCTA, warpsPerCTAFor, blockDim
  <2> QED BY <1>1, <2>1, QuotientBelow
<1>4. cta = gridDim /\ s \in SMs
  <2>1. cta = gridDim
    BY <1>1 DEF LaunchInv, Progress, Launched
  <2>2. s \in 0..(config.smCount - 1)
    BY <1>1, ModRange
  <2> QED BY <2>1, <2>2 DEF SMs
<1> HIDE DEF n, b, lane
<1>5. b \in 0..(warpsPerCTA - 1) /\ c < cta
  BY <1>1, <1>2, <1>3, <1>4
<1>6. PICK i \in DOMAIN smWarps[s] : smWarps[s][i].ctaId = c /\ smWarps[s][i].blockWarpId = b
  BY <1>5 DEF LaunchInv, Placement
<1>7. <<s, i>> \in Places /\ warpAt(<<s, i>>) = smWarps[s][i]
  BY <1>4, <1>6 DEF Places, warpAt
<1>8. OfGrid(s, smWarps[s][i])
  <2>1. OfGrid(s, smWarps[s][i]) \/ IsSpare(s, smWarps[s][i])
    BY <1>4, <1>6 DEF LaunchInv, Placement
  <2>2. ~ IsSpare(s, smWarps[s][i])
    <3>1. c < gridDim
      BY <1>1
    <3> QED BY <1>4, <1>6, <3>1, SpareOutside
  <2> QED BY <2>1, <2>2
<1>9. lane \in LaneIds /\ lane \in smWarps[s][i].activeMask
  <2>1. lane \in LaneIds
    BY <1>2 DEF LaneIds, n
  <2>2. b * n + lane < blockDim
    BY <1>1, <1>2
  <2>3. lane \in lanesOf(b)
    BY <2>1, <2>2 DEF lanesOf, n
  <2> QED BY <1>6, <1>8, <2>1, <2>3 DEF OfGrid
<1>10. threadId(smWarps[s][i], lane) = t
  BY <1>2, <1>6 DEF threadId, n
<1> DEFINE x == <<<<s, i>>, lane>>
<1>11. /\ x[1] = <<s, i>> /\ x[2] = lane /\ x[1][1] = s
       /\ x \in Places \X LaneIds
  BY <1>7, <1>9
<1> HIDE DEF x, s
<1>12. x \in RunningLanes
  BY <1>7, <1>9, <1>11 DEF RunningLanes
<1>13. x \in Runners(c, t)
  BY <1>6, <1>7, <1>10, <1>11, <1>12 DEF Runners
<1> QED BY <1>11, <1>12, <1>13 DEF s

LEMMA OneRunner ==
  ASSUME LaunchInv, NEW c \in 0..(gridDim - 1), NEW t \in Nat,
         NEW x \in Runners(c, t), NEW y \in Runners(c, t)
  PROVE  x = y
<1> DEFINE u == warpAt(x[1])
           v == warpAt(y[1])
           n == config.lanesPerWarp
<1>1. /\ x \in RunningLanes /\ y \in RunningLanes /\ u.ctaId = c /\ v.ctaId = c
      /\ threadId(u, x[2]) = t /\ threadId(v, y[2]) = t
  BY DEF Runners
<1>2. /\ x[1] \in Places /\ x[2] \in LaneIds /\ x = <<x[1], x[2]>>
      /\ y[1] \in Places /\ y[2] \in LaneIds /\ y = <<y[1], y[2]>>
      /\ OfGrid(x[1][1], u) \/ IsSpare(x[1][1], u)
      /\ OfGrid(y[1][1], v) \/ IsSpare(y[1][1], v)
  BY <1>1, RunnersAre
<1>3. /\ u \in LaunchedWarps /\ v \in LaunchedWarps
      /\ x[1][1] \in SMs /\ x[1][2] \in DOMAIN smWarps[x[1][1]]
      /\ y[1][1] \in SMs /\ y[1][2] \in DOMAIN smWarps[y[1][1]]
      /\ x[1] = <<x[1][1], x[1][2]>> /\ y[1] = <<y[1][1], y[1][2]>>
  BY <1>2, WarpsAt
<1>4. n \in Nat \ {0} /\ gridDim \in Nat /\ SMs \subseteq Nat
  BY Dimensions DEF LaunchInv, TypeOK, SMs
<1>5. u.blockWarpId \in Nat /\ v.blockWarpId \in Nat
  BY <1>3 DEF LaunchedWarps
<1>6. u.blockWarpId * n + x[2] = v.blockWarpId * n + y[2]
  BY <1>1 DEF threadId
<1>7. x[2] \in 0..(n - 1) /\ y[2] \in 0..(n - 1)
  BY <1>2 DEF LaneIds
<1> HIDE DEF n, u, v
<1>8. u.blockWarpId = v.blockWarpId /\ x[2] = y[2]
  <2> DEFINE a == u.blockWarpId
             b == v.blockWarpId
             k == x[2]
             m == y[2]
  <2>1. /\ a \in Nat /\ b \in Nat /\ k \in 0..(n - 1) /\ m \in 0..(n - 1)
        /\ a * n + k = b * n + m
    BY <1>5, <1>6, <1>7
  <2> HIDE DEF a, b, k, m
  <2>2. a = b /\ k = m
    BY <1>4, <2>1, UniqueQuotient
  <2> QED BY <2>2 DEF a, b, k, m
<1>9. OfGrid(x[1][1], u) /\ OfGrid(y[1][1], v)
  <2>1. c < gridDim
    BY <1>4
  <2>2. u.ctaId < gridDim /\ v.ctaId < gridDim
    BY <1>1, <2>1
  <2>3. ~ IsSpare(x[1][1], u)
    BY <1>3, <2>2, SpareOutside
  <2>4. ~ IsSpare(y[1][1], v)
    BY <1>3, <2>2, SpareOutside
  <2> QED BY <1>2, <2>3, <2>4
<1>10. u.id = v.id
  BY <1>1, <1>8, <1>9 DEF OfGrid
<1>11. x[1][1] = y[1][1] /\ x[1][2] = y[1][2]
  <2>1. smWarps[x[1][1]][x[1][2]].id = smWarps[y[1][1]][y[1][2]].id
    BY <1>10 DEF warpAt, u, v
  <2> QED BY <1>3, <2>1 DEF LaunchInv, Numbering
<1> QED BY <1>2, <1>3, <1>8, <1>11

(* Every thread of the grid is run by exactly one lane, on the SM its CTA  *)
(* is dealt to, whatever the grid, and only spare warps run anything else. *)
THEOREM ThreadsAreLaunchedOnce == Spec => []ThreadsLaunchedOnce
<1>1. LaunchInv => ThreadsLaunchedOnce
  <2> SUFFICES ASSUME LaunchInv, Launched PROVE ThreadsLaunchedOnce
    BY DEF ThreadsLaunchedOnce
  <2>1. gridDim \in Nat /\ blockDim \in Nat
    BY Dimensions DEF LaunchInv, TypeOK
  <2>2. ASSUME NEW c \in 0..(gridDim - 1), NEW t \in 0..(blockDim - 1)
        PROVE  \E x \in RunningLanes : Runners(c, t) = {x} /\ x[1][1] = c % config.smCount
    <3>1. PICK x \in RunningLanes : x \in Runners(c, t) /\ x[1][1] = c % config.smCount
      BY ThreadHasRunner
    <3>2. t \in Nat
      BY <2>1
    <3>3. \A y \in Runners(c, t) : y = x
      BY <3>1, <3>2, OneRunner
    <3> QED BY <3>1, <3>3
  <2>3. ASSUME NEW x \in RunningLanes
        PROVE  \/ warpAt(x[1]).ctaId < gridDim /\ threadId(warpAt(x[1]), x[2]) < blockDim
               \/ x[1][1] >= gridDim /\ Len(smWarps[x[1][1]]) = 1
    BY RunnersAre DEF OfGrid, IsSpare
  <2> QED BY <2>2, <2>3 DEF ThreadsLaunchedOnce
<1> QED BY <1>1, LaunchInvariant, PTL

-----------------------------------------------------------------------------
(* The least of a few limits is a limit, and bounds them all. *)
LEMMA LeastOfThree ==
  ASSUME NEW a \in Nat, NEW b \in Nat, NEW c \in Nat
  PROVE  /\ Min({a, b, c}) \in {a, b, c}
         /\ Min({a, b, c}) <= a /\ Min({a, b, c}) <= b /\ Min({a, b, c}) <= c
<1>1. \E x \in {a, b, c} : \A y \in {a, b, c} : x <= y
  OBVIOUS
<1>2. /\ Min({a, b, c}) \in {a, b, c}
      /\ \A y \in {a, b, c} : Min({a, b, c}) <= y
  BY <1>1 DEF Min
<1> QED BY <1>2

LEMMA AtLeastOne ==
  ASSUME NEW a \in Nat
  PROVE  Max({1, a}) \in Nat \ {0}
<1>1. \E x \in {1, a} : \A y \in {1, a} : x >= y
  OBVIOUS
<1>2. Max({1, a}) \in {1, a} /\ \A y \in {1, a} : Max({1, a}) >= y
  BY <1>1 DEF Max
<1> QED BY <1>2

(* The integer quotient is the most that fits. *)
LEMMA QuotientIsMost ==
  ASSUME NEW total \in Nat, NEW n \in Nat \ {0}, NEW q, q = total \div n
  PROVE  /\ q \in Nat /\ \A k \in Nat : k <= q => k * n <= total
         /\ \A k \in Nat : k > q => k * n > total
<1>1. /\ q \in Nat /\ total % n \in 0..(n - 1) /\ total = q * n + (total % n)
  BY DivMod
<1>2. q * n \in Nat
  BY <1>1
<1>3. ASSUME NEW k \in Nat, k <= q
      PROVE  k * n <= total
  <2>1. k * n \in Nat /\ k * n <= q * n
    <3>1. CASE k = q
      BY <1>2, <3>1
    <3>2. CASE k < q
      <4>1. k * n + n <= q * n
        BY <1>1, <3>2, LeastFactor
      <4>2. k * n \in Nat
        BY <1>3
      <4> QED BY <1>2, <4>1, <4>2
    <3> QED BY <1>1, <1>3, <3>1, <3>2
  <2> QED BY <1>1, <1>2, <2>1
<1>4. ASSUME NEW k \in Nat, k > q
      PROVE  k * n > total
  <2>1. q * n + n <= k * n
    BY <1>1, <1>4, LeastFactor
  <2>2. k * n \in Nat
    BY <1>4
  <2> QED BY <1>1, <1>2, <2>1, <2>2
<1> QED BY <1>1, <1>3, <1>4

(* A CTA has a warp, and a warp takes a register. *)
LEMMA ReportDimensions ==
  ASSUME NEW c \in Configurations, NEW maxReg \in Nat
  PROVE  warpsPerCTAFor(c) \in Nat \ {0} /\ regsPerWarp(c, maxReg) \in Nat \ {0}
<1>1. /\ c.warpsPerSM \in Nat \ {0} /\ c.lanesPerWarp \in Nat \ {0} /\ c.blockDim \in Nat
  BY DEF Configurations
<1>2. warpsPerCTAFor(c) \in Nat \ {0}
  <2>1. c.warpsPerSM * c.lanesPerWarp \in Nat \ {0}
    <3>1. 0 * c.lanesPerWarp + c.lanesPerWarp <= c.warpsPerSM * c.lanesPerWarp
      BY <1>1, LeastFactor
    <3> QED BY <1>1, <3>1
  <2>2. blockDimFor(c) \in Nat \ {0}
    BY <1>1, <2>1 DEF blockDimFor
  <2> QED BY <1>1, <2>2, Ceiling DEF warpsPerCTAFor
<1>3. regsPerWarp(c, maxReg) \in Nat \ {0}
  <2>1. (maxReg + 1) * c.lanesPerWarp \in Nat
    BY <1>1
  <2> QED BY <2>1, AtLeastOne DEF regsPerWarp
<1> QED BY <1>2, <1>3

(* For every configuration and every kernel, the reported number of CTAs   *)
(* is the most that an SM has room for.                                    *)
THEOREM ReportedCTAsAreMost ==
  ASSUME NEW c \in Configurations, NEW maxReg \in Nat
  PROVE  CTAsAreMost(c, maxReg)
<1> DEFINE W == warpsPerCTAFor(c)
           R == regsPerWarp(c, maxReg)
           slots == c.warpsPerSM
           regs == c.registerFileEntriesPerSM
           bytes == c.sharedMemoryBytesPerSM
           each == c.maxSharedMemoryPerCTA
           r == byRegisters(c, maxReg)
           k == ctasByShared(c)
           a == activeWarps(c, maxReg)
           n == activeCTAs(c, maxReg)
<1>1. /\ slots \in Nat \ {0} /\ regs \in Nat /\ bytes \in Nat /\ each \in Nat
      /\ c.lanesPerWarp \in Nat \ {0} /\ c.blockDim \in Nat
  BY DEF Configurations
<1>2. W \in Nat \ {0} /\ R \in Nat \ {0}
  BY ReportDimensions
<1>3. R \in Nat \ {0}
  BY <1>2
<1>4. /\ r = regs \div R
      /\ k = IF each = 0 THEN slots ELSE bytes \div each
      /\ a = Min({slots, r, k * W})
      /\ n = a \div W
  BY DEF byRegisters, ctasByShared, byShared, activeWarps, activeCTAs
<1>5. /\ CTAsFit(c, maxReg, n) <=>
           n * W <= slots /\ n * W * R <= regs /\ n * each <= bytes
      /\ CTAsFit(c, maxReg, n + 1) <=>
           (n + 1) * W <= slots /\ (n + 1) * W * R <= regs /\ (n + 1) * each <= bytes
  BY DEF CTAsFit
<1> HIDE DEF W, R, slots, regs, bytes, each, r, k, a, n
<1>6. /\ r \in Nat /\ \A x \in Nat : x <= r => x * R <= regs
      /\ \A x \in Nat : x > r => x * R > regs
  BY <1>1, <1>3, <1>4, QuotientIsMost
<1>7. /\ k \in Nat /\ \A x \in Nat : x <= k => x * each <= bytes
      /\ each # 0 => \A x \in Nat : x > k => x * each > bytes
  <2>1. CASE each = 0
    BY <1>1, <1>4, <2>1
  <2>2. CASE each # 0
    <3>1. k = bytes \div each /\ each \in Nat \ {0}
      BY <1>1, <1>4, <2>2
    <3> QED BY <1>1, <3>1, QuotientIsMost
  <2> QED BY <2>1, <2>2
<1>8. k * W \in Nat
  BY <1>2, <1>7
<1>9. a \in {slots, r, k * W} /\ a <= slots /\ a <= r /\ a <= k * W
  BY <1>1, <1>4, <1>6, <1>8, LeastOfThree
<1>10. a \in Nat
  BY <1>1, <1>6, <1>8, <1>9
<1>11. /\ n \in Nat /\ \A x \in Nat : x <= n => x * W <= a
       /\ \A x \in Nat : x > n => x * W > a
  BY <1>2, <1>4, <1>10, QuotientIsMost
<1>12. /\ n * W \in Nat /\ n * W <= a /\ (n + 1) * W \in Nat /\ (n + 1) * W > a
  <2>1. n * W \in Nat /\ (n + 1) * W \in Nat
    BY <1>2, <1>11
  <2> QED BY <1>11, <2>1
<1>13. CTAsFit(c, maxReg, n)
  <2>1. n * W <= slots /\ n * W <= r /\ n * W <= k * W
    BY <1>1, <1>6, <1>8, <1>9, <1>10, <1>12
  <2>2. n * W * R <= regs
    BY <1>6, <1>12, <2>1
  <2>3. n <= k
    <3> SUFFICES ASSUME k < n PROVE FALSE
      BY <1>7, <1>11
    <3>1. k * W + W <= n * W
      BY <1>2, <1>7, <1>11, LeastFactor
    <3> QED BY <1>2, <1>8, <1>12, <2>1, <3>1
  <2>4. n * each <= bytes
    BY <1>7, <1>11, <2>3
  <2> QED BY <1>5, <2>1, <2>2, <2>4
<1>14. ~ CTAsFit(c, maxReg, n + 1)
  <2>1. CASE a = slots
    BY <1>1, <1>5, <1>12, <2>1
  <2>2. CASE a = r
    <3>1. (n + 1) * W * R > regs
      BY <1>6, <1>12, <2>2
    <3>2. (n + 1) * W * R \in Nat
      BY <1>3, <1>12
    <3> QED BY <1>1, <1>5, <3>1, <3>2
  <2>3. CASE a = k * W
    <3>1. k < n + 1
      <4> SUFFICES ASSUME n + 1 <= k PROVE FALSE
        BY <1>7, <1>11
      <4>1. (n + 1) * W <= k * W
        <5>1. CASE n + 1 = k
          BY <1>8, <5>1
        <5>2. CASE n + 1 < k
          <6>1. (n + 1) * W + W <= k * W
            BY <1>2, <1>7, <1>11, <5>2, LeastFactor
          <6> QED BY <1>2, <1>8, <1>12, <6>1
        <5> QED BY <1>7, <1>11, <5>1, <5>2
      <4> QED BY <1>8, <1>12, <2>3, <4>1
    <3>2. CASE each # 0
      <4>1. n + 1 \in Nat /\ (n + 1) * each \in Nat
        BY <1>1, <1>11
      <4>2. (n + 1) * each > bytes
        BY <1>7, <3>1, <3>2, <4>1
      <4> QED BY <1>1, <1>5, <4>1, <4>2
    <3>3. CASE each = 0
      <4>1. k = slots
        BY <1>4, <3>3
      <4>2. slots <= k * W
        <5>1. PICK y \in Nat : W = 1 + y
          <6>1. W - 1 \in Nat /\ W = 1 + (W - 1)
            BY <1>2
          <6> QED BY <6>1
        <5>2. k * W = k + k * y /\ k * y \in Nat
          BY <1>7, <5>1
        <5> QED BY <1>1, <1>7, <4>1, <5>2
      <4> QED BY <1>1, <1>5, <1>8, <1>12, <2>3, <4>2
    <3> QED BY <3>2, <3>3
  <2> QED BY <1>9, <2>1, <2>2, <2>3
<1> QED BY <1>13, <1>14 DEF CTAsAreMost, n

(* So it is in every configuration that is launched. *)
THEOREM OccupancyReportsMost == Spec => []OccupancyIsMost
<1>1. TypeOK => OccupancyIsMost
  BY ConfigsAssumption, ReportedCTAsAreMost DEF TypeOK, OccupancyIsMost
<1> QED BY <1>1, LaunchTypeCorrect, PTL

(* For every configuration and every kernel, the resource that the report  *)
(* names as the limit has no room for one warp more.                       *)
THEOREM NamedLimitBinds ==
  ASSUME NEW c \in Configurations, NEW maxReg \in Nat
  PROVE  LimitBinds(c, maxReg)
<1> DEFINE W == warpsPerCTAFor(c)
           R == regsPerWarp(c, maxReg)
           slots == c.warpsPerSM
           regs == c.registerFileEntriesPerSM
           r == byRegisters(c, maxReg)
           k == ctasByShared(c)
           a == activeWarps(c, maxReg)
           more == WarpsTake(c, maxReg, a + 1)
           limit == limitingFactor(c, maxReg)
<1>1. /\ slots \in Nat \ {0} /\ regs \in Nat
      /\ c.sharedMemoryBytesPerSM \in Nat /\ c.maxSharedMemoryPerCTA \in Nat
  BY DEF Configurations
<1>2. W \in Nat \ {0} /\ R \in Nat \ {0}
  BY ReportDimensions
<1>3. /\ r = regs \div R /\ byShared(c) = k * W
      /\ a = Min({slots, r, k * W})
      /\ limit = IF a = r THEN "registers"
                 ELSE IF a = k * W THEN "shared memory" ELSE "warp slots"
      /\ more.slots = a + 1 /\ more.registers = (a + 1) * R
      /\ more.ctas = (a + 1 + W - 1) \div W
  BY DEF byRegisters, byShared, activeWarps, limitingFactor, WarpsTake
<1>4. k \in Nat
  <2>1. CASE c.maxSharedMemoryPerCTA = 0
    BY <1>1, <2>1 DEF ctasByShared
  <2>2. CASE c.maxSharedMemoryPerCTA # 0
    BY <1>1, <2>2, DivMod DEF ctasByShared
  <2> QED BY <2>1, <2>2
<1>5. /\ limit = "registers" /\ more.registers > regs => LimitBinds(c, maxReg)
      /\ limit = "shared memory" /\ more.ctas > k => LimitBinds(c, maxReg)
      /\ limit = "warp slots" /\ more.slots > slots => LimitBinds(c, maxReg)
  <2>1. ASSUME limit = "registers", more.registers > regs PROVE LimitBinds(c, maxReg)
    BY <2>1 DEF LimitBinds
  <2>2. ASSUME limit = "shared memory", more.ctas > k PROVE LimitBinds(c, maxReg)
    BY <2>2 DEF LimitBinds
  <2>3. ASSUME limit = "warp slots", more.slots > slots PROVE LimitBinds(c, maxReg)
    BY <2>3 DEF LimitBinds
  <2> QED BY <2>1, <2>2, <2>3
<1> HIDE DEF W, R, slots, regs, r, k, a, more, limit
<1>6. /\ r \in Nat /\ \A x \in Nat : x > r => x * R > regs
  BY <1>1, <1>2, <1>3, QuotientIsMost
<1>7. k * W \in Nat
  BY <1>2, <1>4
<1>8. a \in {slots, r, k * W} /\ a \in Nat
  <2>1. a \in {slots, r, k * W}
    BY <1>1, <1>3, <1>6, <1>7, LeastOfThree
  <2> QED BY <1>1, <1>6, <1>7, <2>1
<1>9. CASE a = r
  <2>1. a + 1 \in Nat /\ a + 1 > r
    BY <1>8, <1>9
  <2>2. more.registers > regs
    BY <1>3, <1>6, <2>1
  <2>3. limit = "registers"
    BY <1>3, <1>9
  <2> QED BY <1>5, <2>2, <2>3
<1>10. CASE a # r /\ a = k * W
  <2>1. a + 1 + W - 1 = (k + 1) * W + 0
    BY <1>2, <1>4, <1>7, <1>10
  <2>2. a + 1 + W - 1 \in Nat
    BY <1>2, <1>8
  <2>3. more.ctas = k + 1
    <3>1. /\ more.ctas \in Nat /\ (a + 1 + W - 1) % W \in 0..(W - 1)
          /\ a + 1 + W - 1 = more.ctas * W + ((a + 1 + W - 1) % W)
      BY <1>2, <1>3, <2>2, DivMod
    <3>2. 0 \in 0..(W - 1) /\ k + 1 \in Nat
      BY <1>2, <1>4
    <3> DEFINE q == more.ctas
               z == (a + 1 + W - 1) % W
    <3>3. /\ q \in Nat /\ z \in 0..(W - 1)
          /\ q * W + z = (k + 1) * W + 0
      BY <2>1, <3>1
    <3> HIDE DEF q, z
    <3>4. q = k + 1
      BY <1>2, <3>2, <3>3, UniqueQuotient
    <3> QED BY <3>4 DEF q
  <2>4. more.ctas > k
    BY <1>4, <2>3
  <2>5. limit = "shared memory"
    BY <1>3, <1>10
  <2> QED BY <1>5, <2>4, <2>5
<1>11. CASE a # r /\ a # k * W
  <2>1. more.slots > slots
    <3>1. a = slots
      BY <1>8, <1>11
    <3>2. more.slots = slots + 1
      BY <1>3, <3>1
    <3> QED BY <1>1, <3>2
  <2>2. limit = "warp slots"
    BY <1>3, <1>11
  <2> QED BY <1>5, <2>1, <2>2
<1> QED BY <1>9, <1>10, <1>11

(* So it is in every configuration that is launched. *)
THEOREM OccupancyNamesTheLimit == Spec => []OccupancyLimitBinds
<1>1. TypeOK => OccupancyLimitBinds
  BY ConfigsAssumption, NamedLimitBinds DEF TypeOK, OccupancyLimitBinds
<1> QED BY <1>1, LaunchTypeCorrect, PTL


-----------------------------------------------------------------------------
(* The operands of the mnemonics. *)

LEMMA OneSyntax ==
  ASSUME NEW s \in Syntax, NEW other \in Syntax, s[1] = other[1]
  PROVE  s[2] = other[2]
BY DEF Syntax

LEMMA FieldsAre ==
  ASSUME NEW s \in Syntax
  PROVE  Fields(s[1]) = s[2]
<1>1. PICK chosen \in Syntax : chosen = CHOOSE other \in Syntax : other[1] = s[1]
  OBVIOUS
<1> QED BY <1>1, OneSyntax DEF Fields

(* Each field is set once, and which are set is what the switches over     *)
(* opcodes take it to be.                                                  *)
Present(op, fields) == \E i \in DOMAIN Fields(op) : Fields(op)[i] \in fields

ReadsA == {"MOV", "ADDI", "SHL", "SHR", "LD.GLOBAL", "LD.SHARED", "ADD", "SUB", "MUL", "AND",
           "OR", "XOR", "SETP.EQ", "SETP.NE", "SETP.LT", "SETP.GE", "ST.GLOBAL", "ST.SHARED",
           "SHFL.IDX", "MAD"}
ReadsB == ReadsA \ {"MOV", "ADDI", "SHL", "SHR", "LD.GLOBAL", "LD.SHARED"}
WritesNone == {"NOP", "HALT", "BRA", "BRA.P", "ST.GLOBAL", "ST.SHARED", "BAR.SYNC",
               "SETP.EQ", "SETP.NE", "SETP.LT", "SETP.GE", "VOTE.ALL", "VOTE.ANY"}

RegisterFields == {"dst", "srcA", "[srcA]", "srcB", "srcC"}
OtherFields == {"pred", "predDst", "imm", "label"}

LEMMA SyntaxIs ==
  ASSUME NEW op \in Mnemonics
  PROVE  /\ IsSequence(Fields(op))
         /\ \A i \in DOMAIN Fields(op) : Fields(op)[i] \in RegisterFields \cup OtherFields
         /\ \A i, j \in DOMAIN Fields(op) : Fields(op)[i] = Fields(op)[j] => i = j
         /\ ~ (Present(op, {"srcA"}) /\ Present(op, {"[srcA]"}))
         /\ Present(op, {"dst"}) <=> op \notin WritesNone
         /\ Present(op, {"srcA", "[srcA]"}) <=> op \in ReadsA
         /\ Present(op, {"srcB"}) <=> op \in ReadsB
         /\ Present(op, {"srcC"}) <=> op = "MAD"
<1>1. PICK F : <<op, F>> \in Syntax /\ Fields(op) = F
  <2>1. PICK s \in Syntax : s[1] = op
    BY DEF Mnemonics
  <2>2. s = <<op, s[2]>>
    BY <2>1 DEF Syntax
  <2>3. Fields(op) = s[2]
    BY <2>1, FieldsAre
  <2> QED BY <2>2, <2>3
<1> DEFINE Shape(ops, fields) == op \in ops /\ F = fields
           Has(fields) == \E i \in DOMAIN F : F[i] \in fields
           Goal == /\ IsSequence(F)
                   /\ \A i \in DOMAIN F : F[i] \in RegisterFields \cup OtherFields
                   /\ \A i, j \in DOMAIN F : F[i] = F[j] => i = j
                   /\ ~ (Has({"srcA"}) /\ Has({"[srcA]"}))
                   /\ Has({"dst"}) <=> op \notin WritesNone
                   /\ Has({"srcA", "[srcA]"}) <=> op \in ReadsA
                   /\ Has({"srcB"}) <=> op \in ReadsB
                   /\ Has({"srcC"}) <=> op = "MAD"
<1>2. \/ Shape({"NOP", "HALT", "BAR.SYNC"}, << >>)
      \/ Shape({"BRA"}, <<"label">>)
      \/ Shape({"BRA.P"}, <<"pred", "label">>)
      \/ Shape({"MOV"}, <<"dst", "srcA">>)
      \/ Shape({"MOVI"}, <<"dst", "imm">>)
      \/ Shape({"MAD"}, <<"dst", "srcA", "srcB", "srcC">>)
      \/ Shape({"BALLOT"}, <<"dst", "pred">>)
      \/ Shape({"ADD", "SUB", "MUL", "AND", "OR", "XOR", "SHFL.IDX"}, <<"dst", "srcA", "srcB">>)
      \/ Shape({"ADDI", "SHL", "SHR"}, <<"dst", "srcA", "imm">>)
      \/ Shape({"SETP.EQ", "SETP.NE", "SETP.LT", "SETP.GE"}, <<"predDst", "srcA", "srcB">>)
      \/ Shape({"LD.GLOBAL", "LD.SHARED"}, <<"dst", "[srcA]">>)
      \/ Shape({"ST.GLOBAL", "ST.SHARED"}, <<"[srcA]", "srcB">>)
      \/ Shape({"MOV.LANEID", "MOV.WARPID", "MOV.CTAID", "MOV.TID",
                "MOV.GTID", "MOV.NTID", "MOV.NCTA"}, <<"dst">>)
      \/ Shape({"VOTE.ALL", "VOTE.ANY"}, <<"predDst", "pred">>)
  BY <1>1 DEF Syntax
<1> USE DEF IsSequence, WritesNone, ReadsA, ReadsB, RegisterFields, OtherFields
<1>3. ASSUME Shape({"NOP", "HALT", "BAR.SYNC"}, << >>) PROVE Goal
  BY <1>3
<1>4. ASSUME Shape({"BRA"}, <<"label">>) PROVE Goal
  BY <1>4
<1>5. ASSUME Shape({"BRA.P"}, <<"pred", "label">>) PROVE Goal
  BY <1>5
<1>6. ASSUME Shape({"MOV"}, <<"dst", "srcA">>) PROVE Goal
  BY <1>6
<1>7. ASSUME Shape({"MOVI"}, <<"dst", "imm">>) PROVE Goal
  BY <1>7
<1>8. ASSUME Shape({"MAD"}, <<"dst", "srcA", "srcB", "srcC">>) PROVE Goal
  BY <1>8
<1>9. ASSUME Shape({"BALLOT"}, <<"dst", "pred">>) PROVE Goal
  BY <1>9
<1>10. ASSUME Shape({"ADD", "SUB", "MUL", "AND", "OR", "XOR", "SHFL.IDX"},
                    <<"dst", "srcA", "srcB">>) PROVE Goal
  BY <1>10
<1>11. ASSUME Shape({"ADDI", "SHL", "SHR"}, <<"dst", "srcA", "imm">>) PROVE Goal
  BY <1>11
<1>12. ASSUME Shape({"SETP.EQ", "SETP.NE", "SETP.LT", "SETP.GE"},
                    <<"predDst", "srcA", "srcB">>) PROVE Goal
  BY <1>12
<1>13. ASSUME Shape({"LD.GLOBAL", "LD.SHARED"}, <<"dst", "[srcA]">>) PROVE Goal
  BY <1>13
<1>14. ASSUME Shape({"ST.GLOBAL", "ST.SHARED"}, <<"[srcA]", "srcB">>) PROVE Goal
  BY <1>14
<1>15. ASSUME Shape({"MOV.LANEID", "MOV.WARPID", "MOV.CTAID",
                   "MOV.TID", "MOV.GTID", "MOV.NTID", "MOV.NCTA"}, <<"dst">>) PROVE Goal
  BY <1>15
<1>16. ASSUME Shape({"VOTE.ALL", "VOTE.ANY"}, <<"predDst", "pred">>) PROVE Goal
  BY <1>16
<1>17. Goal
  BY <1>2, <1>3, <1>4, <1>5, <1>6, <1>7, <1>8, <1>9, <1>10, <1>11, <1>12, <1>13, <1>14, <1>15, <1>16
<1> QED BY <1>1, <1>17 DEF Present

-----------------------------------------------------------------------------
(* The registers of an instruction. *)

Operands(op, operands) ==
  /\ IsSequence(operands)
  /\ \A j \in DOMAIN operands :
       operands[j].kind \in {"register", "memory"} => operands[j].value \in Registers

LEMMA ValueIs ==
  ASSUME NEW op \in Mnemonics, NEW operands, DOMAIN operands = DOMAIN Fields(op), NEW fields,
         NEW j \in DOMAIN operands, Fields(op)[j] \in fields,
         \A i \in DOMAIN operands : Fields(op)[i] \in fields => i = j
  PROVE  valueOf(op, operands, fields) = operands[j].value
<1>1. {i \in DOMAIN operands : Fields(op)[i] \in fields} = {j}
  OBVIOUS
<1> QED BY <1>1 DEF valueOf

LEMMA ValueIsNone ==
  ASSUME NEW op \in Mnemonics, NEW operands, DOMAIN operands = DOMAIN Fields(op), NEW fields,
         ~ Present(op, fields)
  PROVE  valueOf(op, operands, fields) = None
<1>1. {i \in DOMAIN operands : Fields(op)[i] \in fields} = {}
  BY DEF Present
<1> QED BY <1>1 DEF valueOf

FieldSets == {{"dst"}, {"srcA", "[srcA]"}, {"srcB"}, {"srcC"}}

(* A register field holds a register if the syntax has it, and is None     *)
(* otherwise.                                                              *)
LEMMA FieldIs ==
  ASSUME NEW op, NEW operands, Operands(op, operands), Parses(op, operands),
         NEW fields \in FieldSets
  PROVE  /\ ~ Present(op, fields) => valueOf(op, operands, fields) = None
         /\ Present(op, fields) => valueOf(op, operands, fields) \in Registers
         /\ \A j \in DOMAIN operands :
              Fields(op)[j] \in fields => operands[j].value = valueOf(op, operands, fields)
         /\ Present(op, fields) => \E j \in DOMAIN operands : Fields(op)[j] \in fields
<1>1. op \in Mnemonics /\ DOMAIN operands = DOMAIN Fields(op)
  BY SyntaxIs DEF Parses, Operands, IsSequence
<1>2. CASE ~ Present(op, fields)
  BY <1>1, <1>2, ValueIsNone DEF Present
<1>3. CASE Present(op, fields)
  <2>1. PICK j \in DOMAIN operands : Fields(op)[j] \in fields
    BY <1>1, <1>3 DEF Present
  <2>2. \A i \in DOMAIN operands : Fields(op)[i] \in fields => i = j
    <3> SUFFICES ASSUME NEW i \in DOMAIN operands, Fields(op)[i] \in fields PROVE i = j
      OBVIOUS
    <3>1. CASE Fields(op)[i] = Fields(op)[j]
      BY <1>1, <3>1, SyntaxIs
    <3>2. CASE Fields(op)[i] # Fields(op)[j]
      <4>1. Present(op, {"srcA"}) /\ Present(op, {"[srcA]"})
        BY <1>1, <2>1, <3>2 DEF Present, FieldSets
      <4> QED BY <1>1, <4>1, SyntaxIs
    <3> QED BY <3>1, <3>2
  <2>3. valueOf(op, operands, fields) = operands[j].value
    BY <1>1, <2>1, <2>2, ValueIs
  <2>4. operands[j].kind \in {"register", "memory"}
    <3>1. OperandKind(Fields(op)[j]) \in {"register", "memory"} /\ Fields(op)[j] # "label"
      BY <2>1 DEF OperandKind, FieldSets
    <3> QED BY <3>1 DEF Parses
  <2> QED BY <1>3, <2>1, <2>2, <2>3, <2>4 DEF Operands
<1> QED BY <1>2, <1>3

(* The parser's view of the registers and the line's are the same. *)
LEMMA NamedRegisters ==
  ASSUME NEW line, Operands(line.op, line.operands), Parses(line.op, line.operands),
         NEW inst, inst.dst = valueOf(line.op, line.operands, {"dst"}),
         inst.srcA = valueOf(line.op, line.operands, {"srcA", "[srcA]"}),
         inst.srcB = valueOf(line.op, line.operands, {"srcB"}),
         inst.srcC = valueOf(line.op, line.operands, {"srcC"})
  PROVE  /\ RegistersNamed(line) = NamedIn(inst)
         /\ NamedIn(inst) \subseteq Registers
<1> DEFINE named == {j \in DOMAIN line.operands :
                       /\ line.operands[j].kind \in {"register", "memory"}
                       /\ Fields(line.op)[j] # "label"}
           A == {"srcA", "[srcA]"}
<1>1. \A j \in DOMAIN line.operands :
        j \in named <=> Fields(line.op)[j] \in RegisterFields
  <2> SUFFICES ASSUME NEW j \in DOMAIN line.operands
               PROVE  j \in named <=> Fields(line.op)[j] \in RegisterFields
    OBVIOUS
  <2>1. PICK field : field = Fields(line.op)[j]
    OBVIOUS
  <2>2. field \in RegisterFields \cup OtherFields
    BY <2>1, SyntaxIs DEF Parses, Operands, IsSequence
  <2>3. line.operands[j].kind = OperandKind(field) \/ field = "label"
    BY <2>1 DEF Parses
  <2>4. CASE field \in RegisterFields
    <3>1. OperandKind(field) \in {"register", "memory"} /\ field # "label"
      BY <2>4 DEF OperandKind, RegisterFields
    <3> QED BY <2>1, <2>3, <2>4, <3>1
  <2>5. CASE field \in OtherFields \ {"label"}
    <3>1. OperandKind(field) \notin {"register", "memory"} /\ field \notin RegisterFields
      BY <2>5 DEF OperandKind, RegisterFields, OtherFields
    <3> QED BY <2>1, <2>3, <2>5, <3>1
  <2>6. CASE field = "label"
    BY <2>1, <2>6 DEF RegisterFields
  <2> QED BY <2>2, <2>4, <2>5, <2>6
<1>2. RegistersNamed(line) = {line.operands[j].value : j \in named}
  BY DEF RegistersNamed
<1>3. RegistersNamed(line) \subseteq Registers /\ None \notin Registers
  BY <1>2, NoneAssumption DEF Operands
<1>4. ASSUME NEW j \in named PROVE line.operands[j].value \in NamedIn(inst)
  <2>1. Fields(line.op)[j] \in {"dst"} \/ Fields(line.op)[j] \in A
        \/ Fields(line.op)[j] \in {"srcB"} \/ Fields(line.op)[j] \in {"srcC"}
    BY <1>1 DEF RegisterFields
  <2>2. line.operands[j].value \in {inst.dst, inst.srcA, inst.srcB, inst.srcC}
    BY <2>1, FieldIs DEF FieldSets
  <2>3. line.operands[j].value # None
    BY <1>2, <1>3
  <2> QED BY <2>2, <2>3 DEF NamedIn
<1>5. ASSUME NEW r \in NamedIn(inst) PROVE r \in RegistersNamed(line)
  <2>1. ASSUME NEW fields \in FieldSets,
               r = valueOf(line.op, line.operands, fields)
        PROVE  r \in RegistersNamed(line)
    <3>0. r # None
      BY DEF NamedIn
    <3>1. PICK j \in DOMAIN line.operands : Fields(line.op)[j] \in fields
      BY <2>1, <3>0, FieldIs
    <3>2. line.operands[j].value = r
      BY <2>1, <3>1, FieldIs
    <3>3. j \in named
      <4>1. fields \subseteq RegisterFields
        BY DEF RegisterFields, FieldSets
      <4> QED BY <1>1, <3>1, <4>1
    <3> QED BY <1>2, <3>2, <3>3
  <2> QED BY <2>1 DEF NamedIn, FieldSets
<1> QED BY <1>2, <1>3, <1>4, <1>5

(* What the pipeline sees of them. *)
LEMMA DecodedRegisters ==
  ASSUME NEW line, Operands(line.op, line.operands), Parses(line.op, line.operands),
         NEW inst, inst.op = line.op, inst.target \in Nat,
         inst.dst = valueOf(line.op, line.operands, {"dst"}),
         inst.srcA = valueOf(line.op, line.operands, {"srcA", "[srcA]"}),
         inst.srcB = valueOf(line.op, line.operands, {"srcB"}),
         inst.srcC = valueOf(line.op, line.operands, {"srcC"})
  PROVE  /\ Decoded(inst) \in Instructions
         /\ NamedIn(inst) = Decoded(inst).srcs \cup ({Decoded(inst).dst} \ {None})
<1> DEFINE op == line.op
<1>1. op \in Mnemonics /\ None \notin Registers
  BY NoneAssumption DEF Parses
<1>2. /\ IF op \in WritesNone THEN inst.dst = None ELSE inst.dst \in Registers
      /\ IF op \in ReadsA THEN inst.srcA \in Registers ELSE inst.srcA = None
      /\ IF op \in ReadsB THEN inst.srcB \in Registers ELSE inst.srcB = None
      /\ IF op = "MAD" THEN inst.srcC \in Registers ELSE inst.srcC = None
  BY <1>1, SyntaxIs, FieldIs DEF FieldSets
<1>3. sourceRegisters(inst) = {inst.srcA, inst.srcB, inst.srcC} \ {None}
  BY <1>1, <1>2 DEF sourceRegisters, ReadsA, ReadsB
<1>4. writesRegister(inst) <=> inst.dst \in Registers
  BY <1>1, <1>2 DEF writesRegister, WritesNone
<1>5. Kind(op) \in Opcodes /\ (Kind(op) \in RegisterWriters => op \notin WritesNone)
  BY DEF Kind, WritesNone, Opcodes, RegisterWriters, GlobalMemoryOps, SharedMemoryOps
<1>6. Decoded(inst) = [op |-> Kind(op), dst |-> inst.dst, srcs |-> sourceRegisters(inst),
                       target |-> inst.target, array |-> None]
  BY <1>1, <1>2, <1>4 DEF Decoded
<1>7. Decoded(inst) \in Instructions
  BY <1>2, <1>3, <1>5, <1>6 DEF Instructions
<1> QED BY <1>3, <1>6, <1>7 DEF NamedIn

-----------------------------------------------------------------------------
(* Counting instructions. *)

LEMMA CountType ==
  ASSUME NEW i \in Nat
  PROVE  /\ IsFiniteSet({j \in 1..(i - 1) : IsInstruction(source[j])})
         /\ InstructionsBefore(i) \in Nat
<1>1. IsFiniteSet(1..(i - 1))
  BY FS_Interval
<1>2. IsFiniteSet({j \in 1..(i - 1) : IsInstruction(source[j])})
  BY <1>1, FS_Subset
<1> QED BY <1>2, FS_CardinalityType DEF InstructionsBefore

LEMMA CountNext ==
  ASSUME NEW i \in Nat \ {0}
  PROVE  InstructionsBefore(i + 1)
           = InstructionsBefore(i) + (IF IsInstruction(source[i]) THEN 1 ELSE 0)
<1> DEFINE before == {j \in 1..(i - 1) : IsInstruction(source[j])}
           upTo == {j \in 1..((i + 1) - 1) : IsInstruction(source[j])}
<1>1. IsFiniteSet(before) /\ InstructionsBefore(i) \in Nat
  BY CountType
<1>2. upTo = IF IsInstruction(source[i]) THEN before \cup {i} ELSE before
  OBVIOUS
<1>3. i \notin before
  OBVIOUS
<1> HIDE DEF before, upTo
<1>4. Cardinality(before \cup {i}) = Cardinality(before) + 1
  BY <1>1, <1>3, FS_AddElement
<1> QED BY <1>1, <1>2, <1>4 DEF InstructionsBefore, before, upTo

LEMMA CountGrows ==
  ASSUME NEW i \in Nat \ {0}, NEW n \in Nat, i < n, IsInstruction(source[i])
  PROVE  InstructionsBefore(i) + 1 <= InstructionsBefore(n)
<1> DEFINE upTo == {j \in 1..((i + 1) - 1) : IsInstruction(source[j])}
           all == {j \in 1..(n - 1) : IsInstruction(source[j])}
<1>1. upTo \in SUBSET all
  OBVIOUS
<1>2. IsFiniteSet(all)
  BY CountType
<1> HIDE DEF upTo, all
<1>3. Cardinality(upTo) <= Cardinality(all)
  BY <1>1, <1>2, FS_Subset
<1>4. InstructionsBefore(i + 1) <= InstructionsBefore(n)
  BY <1>3 DEF InstructionsBefore, upTo, all
<1>5. InstructionsBefore(i + 1) = InstructionsBefore(i) + 1
  BY CountNext
<1> QED BY <1>4, <1>5

-----------------------------------------------------------------------------
(* The inductive invariant. *)

TextTyped ==
  /\ source \in Sources
  /\ lineNumber \in 1..(Len(source) + 1)
  /\ outcome \in {"reading", "linking", "parsed", "rejected"}

LinesRead == {i \in 1..(lineNumber - 1) : IsInstruction(source[i])}

(* What a line may be made into: the target of a branch comes later. *)
MadeFrom(line) ==
  {[parseInstruction(line.op, line.operands) EXCEPT !.target = t] : t \in Nat}
Parsed == UNION {MadeFrom(source[i]) : i \in InstructionLines}

ReadSoFar ==
  /\ instructions \in Seq(Parsed)
  /\ Len(instructions) = InstructionsBefore(lineNumber)
  /\ \A i \in LinesRead : Made(i) \in MadeFrom(source[i])
  /\ \A k \in DOMAIN instructions : \E i \in LinesRead : k = InstructionsBefore(i) + 1

AcceptedSoFar ==
  /\ \A i \in 1..(lineNumber - 1) : source[i].label # EmptyLabel
  /\ \A i \in LinesRead : Parses(source[i].op, source[i].operands)

DefinedSoFar(name) == {i \in 1..(lineNumber - 1) : source[i].label = name}

(* A label stands for the instruction after its last definition. *)
LabelsDefined ==
  /\ DOMAIN labels = Labels
  /\ \A name \in Labels :
       IF DefinedSoFar(name) = {} THEN labels[name] = Undefined
       ELSE \E m \in DefinedSoFar(name) : /\ \A i \in DefinedSoFar(name) : i <= m
                                          /\ labels[name] = InstructionsBefore(m)

(* A branch is linked or on the list. *)
Linked(inst) ==
  inst.label \in Labels /\ labels[inst.label] # Undefined /\ inst.target = labels[inst.label]

BranchesKept ==
  /\ unresolved \in Seq(Nat)
  /\ \A u \in DOMAIN unresolved : /\ unresolved[u] \in DOMAIN instructions
                                  /\ instructions[unresolved[u]].label # None
  /\ \A k \in DOMAIN instructions :
       instructions[k].label # None =>
         \/ \E u \in DOMAIN unresolved : unresolved[u] = k
         \/ outcome # "reading" /\ Linked(instructions[k])

OutcomeRight ==
  /\ outcome \in {"linking", "parsed"} => lineNumber = Len(source) + 1
  /\ outcome = "parsed" => unresolved = << >> /\ instructions # << >>
  /\ outcome = "rejected" => ~ WellFormed

ParserInv ==
  TextTyped /\ ReadSoFar /\ AcceptedSoFar /\ LabelsDefined /\ BranchesKept /\ OutcomeRight

LEMMA Texts ==
  ASSUME source \in Sources
  PROVE  /\ IsSequence(source)
         /\ \A i \in DOMAIN source : /\ source[i].label \in Labels \cup {None, EmptyLabel}
                                     /\ Operands(source[i].op, source[i].operands)
BY SourcesAreTexts DEF Operands

LEMMA MadeFromIs ==
  ASSUME NEW line, NEW inst \in MadeFrom(line)
  PROVE  /\ inst.op = line.op
         /\ inst.label = parseInstruction(line.op, line.operands).label
         /\ inst.target \in Nat
         /\ inst.dst = valueOf(line.op, line.operands, {"dst"})
         /\ inst.srcA = valueOf(line.op, line.operands, {"srcA", "[srcA]"})
         /\ inst.srcB = valueOf(line.op, line.operands, {"srcB"})
         /\ inst.srcC = valueOf(line.op, line.operands, {"srcC"})
         /\ \A t \in Nat : [inst EXCEPT !.target = t] \in MadeFrom(line)
<1>1. PICK t0 \in Nat :
        inst = [parseInstruction(line.op, line.operands) EXCEPT !.target = t0]
  BY DEF MadeFrom
<1>2. \A t \in Nat :
        [inst EXCEPT !.target = t]
          = [parseInstruction(line.op, line.operands) EXCEPT !.target = t]
  BY <1>1 DEF parseInstruction
<1>3. \A t \in Nat : [inst EXCEPT !.target = t] \in MadeFrom(line)
  BY <1>2 DEF MadeFrom
<1> QED BY <1>1, <1>3 DEF parseInstruction

LEMMA ParsedIsMade ==
  ASSUME NEW line
  PROVE  parseInstruction(line.op, line.operands) \in MadeFrom(line)
<1>1. parseInstruction(line.op, line.operands)
        = [parseInstruction(line.op, line.operands) EXCEPT !.target = 0]
  BY DEF parseInstruction
<1> QED BY <1>1 DEF MadeFrom

-----------------------------------------------------------------------------
(* It holds at the start, and every step keeps it. *)

LEMMA InitParser == ParserInit => ParserInv
<1> SUFFICES ASSUME ParserInit PROVE ParserInv
  OBVIOUS
<1> USE DEF ParserInit
<1>1. TextTyped
  BY Texts DEF TextTyped, IsSequence
<1>2. LinesRead = {} /\ InstructionsBefore(lineNumber) = 0
  <2>1. {j \in 1..(lineNumber - 1) : IsInstruction(source[j])} = {}
    OBVIOUS
  <2> QED BY <2>1, FS_EmptySet DEF LinesRead, InstructionsBefore
<1>3. ReadSoFar
  BY <1>2 DEF ReadSoFar
<1>4. AcceptedSoFar
  BY <1>2 DEF AcceptedSoFar
<1>5. LabelsDefined
  BY DEF LabelsDefined, DefinedSoFar
<1>6. BranchesKept /\ OutcomeRight
  BY DEF BranchesKept, OutcomeRight
<1> QED BY <1>1, <1>3, <1>4, <1>5, <1>6 DEF ParserInv

(* Going on to the next line. *)
LEMMA LineIsRead ==
  ASSUME TextTyped, Reading, NextLine, NEW n, n = lineNumber
  PROVE  /\ n \in Nat \ {0} /\ n \in DOMAIN source /\ TextTyped'
         /\ \A i : InstructionsBefore(i)' = InstructionsBefore(i)
         /\ InstructionsBefore(lineNumber)'
              = InstructionsBefore(n) + (IF IsInstruction(source[n]) THEN 1 ELSE 0)
         /\ LinesRead' = LinesRead \cup (IF IsInstruction(source[n]) THEN {n} ELSE {})
         /\ \A name : DefinedSoFar(name)'
                        = DefinedSoFar(name) \cup (IF source[n].label = name THEN {n} ELSE {})
<1>1. /\ n \in Nat \ {0} /\ n \in DOMAIN source /\ n <= Len(source)
      /\ Len(source) \in Nat
  BY Texts DEF TextTyped, Reading, IsSequence
<1>2. source' = source /\ outcome' = outcome /\ lineNumber' = n + 1
  BY DEF NextLine
<1>3. TextTyped'
  BY <1>1, <1>2 DEF TextTyped
<1>4. \A i : InstructionsBefore(i)' = InstructionsBefore(i)
  BY <1>2 DEF InstructionsBefore, IsInstruction, IsDirective
<1>5. InstructionsBefore(lineNumber)' = InstructionsBefore(n + 1)
  BY <1>2 DEF InstructionsBefore, IsInstruction, IsDirective
<1>6. InstructionsBefore(n + 1)
        = InstructionsBefore(n) + (IF IsInstruction(source[n]) THEN 1 ELSE 0)
  BY <1>1, CountNext
<1>7. LinesRead' = LinesRead \cup (IF IsInstruction(source[n]) THEN {n} ELSE {})
  <2>1. LinesRead' = {i \in 1..n : IsInstruction(source[i])}
    BY <1>1, <1>2 DEF LinesRead, IsInstruction, IsDirective
  <2> QED BY <1>1, <2>1 DEF LinesRead
<1>8. ASSUME NEW name
      PROVE  DefinedSoFar(name)'
               = DefinedSoFar(name) \cup (IF source[n].label = name THEN {n} ELSE {})
  BY <1>1, <1>2 DEF DefinedSoFar
<1> QED BY <1>1, <1>3, <1>4, <1>5, <1>6, <1>7, <1>8

LEMMA LabelIsDefined ==
  ASSUME ParserInv, Reading, NextLine, CurrentLine.label # EmptyLabel,
         labels' = defined(CurrentLine.label)
  PROVE  LabelsDefined'
<1>1. PICK n : n = lineNumber
  OBVIOUS
<1> DEFINE label == source[n].label
<1>2. /\ n \in Nat \ {0} /\ n \in DOMAIN source
      /\ \A i : InstructionsBefore(i)' = InstructionsBefore(i)
      /\ \A name : DefinedSoFar(name)'
                     = DefinedSoFar(name) \cup (IF label = name THEN {n} ELSE {})
  BY <1>1, LineIsRead DEF ParserInv
<1>3. label \in Labels \cup {None}
  BY <1>1, <1>2, Texts DEF ParserInv, TextTyped, CurrentLine
<1>4. /\ labels' = IF label = None THEN labels
                   ELSE [labels EXCEPT ![label] = InstructionsBefore(n)]
      /\ DOMAIN labels = Labels
  BY <1>1 DEF defined, CurrentLine, ParserInv, ReadSoFar, LabelsDefined
<1>5. DOMAIN labels' = Labels
  BY <1>4
<1>6. ASSUME NEW name \in Labels
      PROVE  IF DefinedSoFar(name)' = {} THEN labels'[name] = Undefined
             ELSE \E m \in DefinedSoFar(name)' :
                    /\ \A i \in DefinedSoFar(name)' : i <= m
                    /\ labels'[name] = InstructionsBefore(m)'
  <2>1. name # None
    BY LabelNames
  <2>2. CASE label = name
    <3>1. n \in DefinedSoFar(name)' /\ labels'[name] = InstructionsBefore(n)'
      BY <1>2, <1>4, <2>1, <2>2
    <3>2. \A i \in DefinedSoFar(name)' : i <= n
      BY <1>1, <1>2 DEF DefinedSoFar
    <3> QED BY <3>1, <3>2
  <2>3. CASE label # name
    <3>1. DefinedSoFar(name)' = DefinedSoFar(name) /\ labels'[name] = labels[name]
      BY <1>2, <1>3, <1>4, <2>3
    <3>2. IF DefinedSoFar(name) = {} THEN labels[name] = Undefined
          ELSE \E m \in DefinedSoFar(name) : /\ \A i \in DefinedSoFar(name) : i <= m
                                             /\ labels[name] = InstructionsBefore(m)
      BY DEF ParserInv, LabelsDefined
    <3> QED BY <1>2, <3>1, <3>2
  <2> QED BY <2>2, <2>3
<1> QED BY <1>5, <1>6 DEF LabelsDefined

LEMMA LineIsAccepted ==
  ASSUME ParserInv, Reading, NextLine, CurrentLine.label # EmptyLabel,
         IsInstruction(CurrentLine) => Parses(CurrentLine.op, CurrentLine.operands)
  PROVE  AcceptedSoFar'
<1>1. PICK n : n = lineNumber
  OBVIOUS
<1>2. /\ n \in Nat \ {0} /\ source' = source /\ lineNumber' = n + 1
      /\ LinesRead' = LinesRead \cup (IF IsInstruction(source[n]) THEN {n} ELSE {})
  BY <1>1, LineIsRead DEF ParserInv, NextLine
<1>3. \A i \in 1..n : source[i].label # EmptyLabel
  BY <1>1, <1>2 DEF ParserInv, AcceptedSoFar, CurrentLine
<1>4. \A i \in LinesRead' : Parses(source[i].op, source[i].operands)
  BY <1>1, <1>2 DEF ParserInv, AcceptedSoFar, CurrentLine
<1> QED BY <1>2, <1>3, <1>4 DEF AcceptedSoFar, Parses

(* A line without an instruction. *)
LEMMA NothingIsMade ==
  ASSUME ParserInv, Reading, NextLine, CurrentLine.label # EmptyLabel,
         labels' = defined(CurrentLine.label), ~ IsInstruction(CurrentLine),
         UNCHANGED <<instructions, unresolved>>
  PROVE  ParserInv'
<1>1. PICK n : n = lineNumber
  OBVIOUS
<1>2. /\ TextTyped'
      /\ \A i : InstructionsBefore(i)' = InstructionsBefore(i)
      /\ InstructionsBefore(lineNumber)' = InstructionsBefore(n)
      /\ LinesRead' = LinesRead
  <2>1. TextTyped
    BY DEF ParserInv
  <2>2. n \in Nat \ {0} /\ ~ IsInstruction(source[n])
    BY <1>1, <2>1, LineIsRead DEF CurrentLine
  <2>3. InstructionsBefore(n) \in Nat
    BY <2>2, CountType
  <2>4. /\ TextTyped' /\ \A i : InstructionsBefore(i)' = InstructionsBefore(i)
        /\ InstructionsBefore(lineNumber)' = InstructionsBefore(n) + 0
        /\ LinesRead' = LinesRead \cup {}
    BY <1>1, <2>1, <2>2, LineIsRead
  <2> QED BY <2>3, <2>4
<1>3. ReadSoFar'
  <2>1. /\ source' = source /\ instructions' = instructions
        /\ Parsed' = Parsed
    BY DEF NextLine, Parsed, InstructionLines, IsInstruction, IsDirective, MadeFrom,
           parseInstruction, valueOf
  <2>2. \A line : MadeFrom(line)' = MadeFrom(line)
    BY DEF MadeFrom
  <2>3. \A i : Made(i)' = Made(i)
    BY <1>2, <2>1 DEF Made
  <2> QED BY <1>1, <1>2, <2>1, <2>2, <2>3 DEF ParserInv, ReadSoFar
<1>4. AcceptedSoFar' /\ LabelsDefined'
  BY LineIsAccepted, LabelIsDefined
<1>5. outcome' = "reading" /\ outcome = "reading"
  BY DEF NextLine, Reading
<1>6. BranchesKept' /\ OutcomeRight'
  BY <1>5 DEF ParserInv, BranchesKept, OutcomeRight
<1> QED BY <1>2, <1>3, <1>4, <1>6 DEF ParserInv

LEMMA DirectiveStep ==
  ASSUME ParserInv, Directive
  PROVE  ParserInv'
<1>1. CurrentLine.label = None /\ CurrentLine.label # EmptyLabel /\ ~ IsInstruction(CurrentLine)
  BY LabelNames DEF Directive, IsDirective, IsInstruction
<1>2. labels' = defined(CurrentLine.label)
  BY <1>1 DEF defined, Directive
<1> QED BY <1>1, <1>2, NothingIsMade DEF Directive

LEMMA LabelLineStep ==
  ASSUME ParserInv, LabelLine
  PROVE  ParserInv'
BY NothingIsMade DEF LabelLine, IsInstruction

(* Appending, for a list of which only the length is named. *)
LEMMA AppendedTo ==
  ASSUME NEW S, NEW s \in Seq(S), NEW e \in S, NEW n, n = Len(s), NEW t, t = Append(s, e)
  PROVE  /\ t \in Seq(S) /\ n \in Nat /\ Len(t) = n + 1
         /\ DOMAIN s = 1..n /\ DOMAIN t = 1..(n + 1)
         /\ \A k \in 1..n : t[k] = s[k]
         /\ t[n + 1] = e
OBVIOUS

LEMMA InstructionLineStep ==
  ASSUME ParserInv, InstructionLine
  PROVE  ParserInv'
<1> DEFINE line == CurrentLine
           inst == parseInstruction(line.op, line.operands)
<1>1. PICK n, made, used : n = lineNumber /\ made = inst /\ used = Len(instructions)
  OBVIOUS
<1>2. /\ Reading /\ NextLine /\ IsInstruction(line) /\ line.label # EmptyLabel
      /\ Parses(line.op, line.operands)
      /\ labels' = defined(line.label)
      /\ instructions' = Append(instructions, made)
      /\ unresolved' = IF made.label = None THEN unresolved ELSE Append(unresolved, used + 1)
  BY <1>1 DEF InstructionLine, IsInstruction
<1>3. /\ n \in Nat \ {0} /\ n \in DOMAIN source /\ line = source[n]
      /\ TextTyped'
      /\ \A i : InstructionsBefore(i)' = InstructionsBefore(i)
      /\ InstructionsBefore(lineNumber)' = InstructionsBefore(n) + 1
      /\ LinesRead' = LinesRead \cup {n}
  <2>1. TextTyped
    BY DEF ParserInv
  <2>2. line = source[n]
    BY <1>1 DEF CurrentLine
  <2> QED BY <1>1, <1>2, <2>1, <2>2, LineIsRead
<1>4. /\ instructions \in Seq(Parsed) /\ used = InstructionsBefore(n) /\ used \in Nat
      /\ \A i \in LinesRead : Made(i) \in MadeFrom(source[i])
      /\ \A k \in DOMAIN instructions : \E i \in LinesRead : k = InstructionsBefore(i) + 1
  BY <1>1 DEF ParserInv, ReadSoFar
<1>5. made \in MadeFrom(source[n]) /\ made \in Parsed
  BY <1>1, <1>2, <1>3, ParsedIsMade DEF Parsed, InstructionLines
<1> HIDE DEF line, inst
<1>6. /\ source' = source /\ outcome = "reading" /\ outcome' = "reading"
  BY <1>2 DEF Reading, NextLine
<1>7. /\ instructions' \in Seq(Parsed) /\ Len(instructions') = used + 1
      /\ \A k \in 1..used : instructions'[k] = instructions[k]
      /\ instructions'[used + 1] = made
      /\ DOMAIN instructions = 1..used /\ DOMAIN instructions' = 1..(used + 1)
  <2>1. instructions' = Append(instructions, made) /\ used = Len(instructions)
    BY <1>1, <1>2
  <2>2. instructions \in Seq(Parsed) /\ made \in Parsed
    BY <1>4, <1>5
  <2> QED BY <2>1, <2>2, AppendedTo
<1>8. ReadSoFar'
  <2>1. Parsed' = Parsed
    BY <1>6 DEF Parsed, InstructionLines, IsInstruction, IsDirective, MadeFrom
  <2>2. ASSUME NEW i \in LinesRead' PROVE Made(i)' \in MadeFrom(source[i])
    <3>1. Made(i)' = instructions'[InstructionsBefore(i) + 1]
      BY <1>3 DEF Made
    <3>2. CASE i = n
      BY <1>4, <1>5, <1>7, <3>1, <3>2
    <3>3. CASE i # n
      <4>1. i \in LinesRead /\ i \in Nat \ {0} /\ i < n /\ IsInstruction(source[i])
        BY <1>1, <1>3, <3>3 DEF LinesRead
      <4>2. InstructionsBefore(i) + 1 <= used /\ InstructionsBefore(i) \in Nat
        BY <1>3, <1>4, <4>1, CountGrows, CountType
      <4>3. Made(i)' = Made(i)
        BY <1>4, <1>7, <3>1, <4>2 DEF Made
      <4> QED BY <1>4, <4>1, <4>3
    <3> QED BY <3>2, <3>3
  <2>3. ASSUME NEW k \in DOMAIN instructions'
        PROVE  \E i \in LinesRead' : k = InstructionsBefore(i) + 1
    BY <1>3, <1>4, <1>7
  <2>4. instructions' \in Seq(Parsed') /\ Len(instructions') = InstructionsBefore(lineNumber)'
    BY <1>3, <1>4, <1>7, <2>1
  <2>5. \A i \in LinesRead' : Made(i)' \in MadeFrom(source[i])'
    BY <1>6, <2>2 DEF MadeFrom
  <2>6. \A k \in DOMAIN instructions' : \E i \in LinesRead' : k = InstructionsBefore(i)' + 1
    BY <1>3, <2>3
  <2> QED BY <2>4, <2>5, <2>6 DEF ReadSoFar
<1>9. AcceptedSoFar' /\ LabelsDefined'
  BY <1>2, LineIsAccepted, LabelIsDefined DEF line
<1>10. BranchesKept'
  <2>1. /\ unresolved \in Seq(Nat)
        /\ \A u \in DOMAIN unresolved : /\ unresolved[u] \in 1..used
                                        /\ instructions[unresolved[u]].label # None
        /\ \A k \in 1..used :
             instructions[k].label # None => \E u \in DOMAIN unresolved : unresolved[u] = k
    BY <1>6, <1>7 DEF ParserInv, BranchesKept
  <2>2. /\ unresolved' \in Seq(Nat)
        /\ \A u \in DOMAIN unresolved' : /\ unresolved'[u] \in 1..(used + 1)
                                         /\ instructions'[unresolved'[u]].label # None
        /\ \A k \in 1..(used + 1) :
             instructions'[k].label # None => \E u \in DOMAIN unresolved' : unresolved'[u] = k
    <3>1. CASE made.label = None
      BY <1>2, <1>4, <1>7, <2>1, <3>1
    <3>2. CASE made.label # None
      <4>1. PICK m \in Nat : m = Len(unresolved)
        BY <2>1
      <4>2. /\ unresolved' \in Seq(Nat) /\ DOMAIN unresolved' = 1..(m + 1)
            /\ DOMAIN unresolved = 1..m
            /\ \A u \in 1..m : unresolved'[u] = unresolved[u]
            /\ unresolved'[m + 1] = used + 1
        BY <1>2, <1>4, <2>1, <3>2, <4>1, AppendedTo
      <4>3. ASSUME NEW u \in 1..(m + 1)
            PROVE  /\ unresolved'[u] \in 1..(used + 1)
                   /\ instructions'[unresolved'[u]].label # None
        <5>1. CASE u \in 1..m
          <6>1. PICK b \in 1..used : /\ unresolved'[u] = b /\ unresolved[u] = b
                                     /\ instructions[b].label # None
            BY <2>1, <4>2, <5>1
          <6>2. instructions'[b] = instructions[b]
            BY <1>7
          <6> QED BY <1>4, <6>1, <6>2
        <5>2. CASE u = m + 1
          BY <1>4, <1>7, <3>2, <4>2, <5>2
        <5> QED BY <4>1, <5>1, <5>2
      <4>4. ASSUME NEW k \in 1..(used + 1), instructions'[k].label # None
            PROVE  \E u \in 1..(m + 1) : unresolved'[u] = k
        <5>1. CASE k \in 1..used
          <6>1. PICK u \in 1..m : unresolved[u] = k
            BY <1>7, <2>1, <4>2, <4>4, <5>1
          <6> QED BY <4>1, <4>2, <6>1
        <5>2. CASE k = used + 1
          BY <4>1, <4>2, <5>2
        <5> QED BY <1>4, <5>1, <5>2
      <4> QED BY <4>2, <4>3, <4>4
    <3> QED BY <3>1, <3>2
  <2> QED BY <1>7, <2>2 DEF BranchesKept
<1>11. OutcomeRight'
  BY <1>6 DEF OutcomeRight
<1> QED BY <1>3, <1>8, <1>9, <1>10, <1>11 DEF ParserInv

(* What was read stays read. *)
LEMMA ReadStaysRead ==
  ASSUME ParserInv, UNCHANGED <<source, lineNumber, instructions, labels>>
  PROVE  ReadSoFar' /\ AcceptedSoFar' /\ LabelsDefined'
<1>1. /\ \A i : InstructionsBefore(i)' = InstructionsBefore(i) /\ Made(i)' = Made(i)
      /\ \A name : DefinedSoFar(name)' = DefinedSoFar(name)
      /\ InstructionsBefore(lineNumber)' = InstructionsBefore(lineNumber)
      /\ LinesRead' = LinesRead /\ Parsed' = Parsed
  BY DEF InstructionsBefore, Made, DefinedSoFar, LinesRead, Parsed, InstructionLines,
         IsInstruction, IsDirective, MadeFrom
<1>2. ReadSoFar' /\ LabelsDefined'
  BY <1>1 DEF ParserInv, ReadSoFar, LabelsDefined, MadeFrom
<1>3. AcceptedSoFar'
  BY <1>1 DEF ParserInv, AcceptedSoFar, Parses
<1> QED BY <1>2, <1>3

(* What a rejected text lacks is not there after all lines either. *)
LEMMA Rejected ==
  ASSUME ParserInv, Reject, ~ WellFormed
  PROVE  ParserInv'
<1> USE DEF Reject
<1>1. ReadSoFar' /\ AcceptedSoFar' /\ LabelsDefined'
  BY ReadStaysRead
<1>2. TextTyped' /\ BranchesKept'
  BY DEF ParserInv, TextTyped, BranchesKept, Linked
<1>3. ~ WellFormed'
  BY DEF WellFormed, InstructionLines, IsInstruction, IsDirective, Definitions, Parses
<1> QED BY <1>1, <1>2, <1>3 DEF ParserInv, OutcomeRight

LEMMA BadLineStep ==
  ASSUME ParserInv, BadLine
  PROVE  ParserInv'
<1>1. lineNumber \in DOMAIN source
  BY Texts DEF BadLine, Reading, ParserInv, TextTyped, IsSequence
<1>2. ~ WellFormed
  BY <1>1 DEF BadLine, CurrentLine, WellFormed, InstructionLines, IsInstruction
<1> QED BY <1>2, Rejected DEF BadLine

LEMMA EndOfTextStep ==
  ASSUME ParserInv, EndOfText
  PROVE  ParserInv'
<1> USE DEF EndOfText
<1>1. lineNumber = Len(source) + 1
  BY Texts DEF ParserInv, TextTyped, IsSequence
<1>2. ReadSoFar' /\ AcceptedSoFar' /\ LabelsDefined'
  BY ReadStaysRead
<1>3. TextTyped' /\ BranchesKept'
  BY DEF ParserInv, TextTyped, BranchesKept
<1>4. OutcomeRight'
  BY <1>1 DEF OutcomeRight
<1> QED BY <1>2, <1>3, <1>4 DEF ParserInv

(* Once all lines are read, what was seen of the text is all of it. *)
LEMMA AllIsRead ==
  ASSUME ParserInv, lineNumber = Len(source) + 1
  PROVE  /\ LinesRead = InstructionLines
         /\ \A name : DefinedSoFar(name) = Definitions(name)
         /\ Len(instructions) = Cardinality(InstructionLines)
         /\ IsFiniteSet(InstructionLines)
<1>1. Len(source) \in Nat /\ DOMAIN source = 1..Len(source)
  BY Texts DEF ParserInv, TextTyped, IsSequence
<1>2. LinesRead = InstructionLines /\ \A name : DefinedSoFar(name) = Definitions(name)
  BY <1>1 DEF LinesRead, InstructionLines, DefinedSoFar, Definitions
<1>3. {j \in 1..(lineNumber - 1) : IsInstruction(source[j])} = InstructionLines
  BY <1>2 DEF LinesRead
<1>4. InstructionsBefore(lineNumber) = Cardinality(InstructionLines)
  BY <1>3 DEF InstructionsBefore
<1>5. IsFiniteSet(InstructionLines)
  BY <1>1, <1>3, CountType
<1> QED BY <1>2, <1>4, <1>5 DEF ParserInv, ReadSoFar

LEMMA LinkStep ==
  ASSUME ParserInv, Link
  PROVE  ParserInv'
<1>1. PICK at, name, rest, value :
        /\ at = Head(unresolved) /\ name = instructions[at].label
        /\ rest = Len(unresolved) - 1 /\ value = labels[name]
  OBVIOUS
<1>2. /\ unresolved \in Seq(Nat) /\ rest \in Nat /\ Len(unresolved) = rest + 1
      /\ at = unresolved[1] /\ at \in DOMAIN instructions /\ name # None
      /\ outcome = "linking" /\ lineNumber = Len(source) + 1
  <2>1. unresolved \in Seq(Nat) /\ unresolved # << >> /\ outcome = "linking"
    BY DEF Link, ParserInv, BranchesKept
  <2>2. at = unresolved[1] /\ 1 \in DOMAIN unresolved /\ rest \in Nat /\ Len(unresolved) = rest + 1
    BY <1>1, <2>1
  <2> QED BY <1>1, <2>1, <2>2 DEF ParserInv, BranchesKept, OutcomeRight
<1>3. PICK line \in InstructionLines :
        at = InstructionsBefore(line) + 1 /\ instructions[at] \in MadeFrom(source[line])
  BY <1>2, AllIsRead DEF ParserInv, ReadSoFar, Made
<1>4. name = parseInstruction(source[line].op, source[line].operands).label
  BY <1>1, <1>3, MadeFromIs
<1>5. name \in Labels =>
        IF Definitions(name) = {} THEN value = Undefined
        ELSE \E m \in Definitions(name) : value = InstructionsBefore(m)
  BY <1>1, <1>2, AllIsRead DEF ParserInv, LabelsDefined
<1>6. CASE name \notin Labels \/ value = Undefined
  <2>1. Reject
    BY <1>1, <1>6 DEF Link
  <2>2. ~ WellFormed
    <3> SUFFICES ASSUME WellFormed PROVE FALSE
      OBVIOUS
    <3>1. PICK i \in DOMAIN source : source[i].label = name
      BY <1>2, <1>4 DEF WellFormed, Definitions
    <3>2. name \in Labels
      BY <1>2, <3>1, Texts DEF WellFormed, ParserInv, TextTyped
    <3>3. PICK m \in Definitions(name) : value = InstructionsBefore(m)
      BY <1>5, <3>1, <3>2 DEF Definitions
    <3>4. m \in Nat
      BY <3>3, Texts DEF Definitions, ParserInv, TextTyped, IsSequence
    <3>5. value \in Nat
      BY <3>3, <3>4, CountType
    <3> QED BY <1>6, <3>2, <3>5 DEF Undefined
  <2> QED BY <2>1, <2>2, Rejected
<1>7. CASE name \in Labels /\ value # Undefined
  <2>1. /\ instructions' = [instructions EXCEPT ![at].target = value]
        /\ unresolved' = Tail(unresolved)
        /\ UNCHANGED <<source, lineNumber, labels, outcome>>
    BY <1>1, <1>7 DEF Link
  <2>2. value \in Nat
    <3>1. PICK m \in Definitions(name) : value = InstructionsBefore(m)
      BY <1>5, <1>7
    <3>2. m \in Nat
      BY <3>1, Texts DEF Definitions, ParserInv, TextTyped, IsSequence
    <3> QED BY <3>1, <3>2, CountType
  <2>3. PICK linked : linked = [instructions[at] EXCEPT !.target = value]
    OBVIOUS
  <2>4. /\ linked \in MadeFrom(source[line]) /\ linked \in Parsed
        /\ linked.label = name /\ linked.target = value
    <3>1. linked \in MadeFrom(source[line])
      BY <1>3, <2>2, <2>3, MadeFromIs
    <3>2. linked.label = name
      BY <1>4, <3>1, MadeFromIs
    <3>3. linked.target = value
      BY <1>3, <2>3 DEF MadeFrom, parseInstruction
    <3> QED BY <3>1, <3>2, <3>3 DEF Parsed
  <2>5. /\ instructions \in Seq(Parsed)
        /\ instructions' = [instructions EXCEPT ![at] = linked]
    BY <2>1, <2>3 DEF ParserInv, ReadSoFar
  <2>6. /\ instructions' \in Seq(Parsed) /\ Len(instructions') = Len(instructions)
        /\ DOMAIN instructions' = DOMAIN instructions
        /\ instructions'[at] = linked
        /\ \A k \in DOMAIN instructions : k # at => instructions'[k] = instructions[k]
    BY <1>2, <2>4, <2>5
  <2>7. /\ \A i : InstructionsBefore(i)' = InstructionsBefore(i)
        /\ \A other : DefinedSoFar(other)' = DefinedSoFar(other)
        /\ InstructionsBefore(lineNumber)' = InstructionsBefore(lineNumber)
        /\ LinesRead' = LinesRead /\ Parsed' = Parsed
    BY <2>1 DEF InstructionsBefore, DefinedSoFar, LinesRead, Parsed, InstructionLines,
                IsInstruction, IsDirective, MadeFrom
  <2>8. TextTyped' /\ AcceptedSoFar' /\ LabelsDefined' /\ OutcomeRight'
    <3>1. TextTyped'
      BY <2>1 DEF ParserInv, TextTyped
    <3>2. AcceptedSoFar'
      BY <2>1, <2>7 DEF ParserInv, AcceptedSoFar, Parses
    <3>3. LabelsDefined'
      BY <2>1, <2>7 DEF ParserInv, LabelsDefined
    <3>4. OutcomeRight'
      BY <1>2, <2>1 DEF OutcomeRight
    <3> QED BY <3>1, <3>2, <3>3, <3>4
  <2>9. ReadSoFar'
    <3>1. ASSUME NEW i \in LinesRead PROVE Made(i)' \in MadeFrom(source[i])
      <4>1. Made(i)' = instructions'[InstructionsBefore(i) + 1]
        BY <2>7 DEF Made
      <4>2. InstructionsBefore(i) + 1 \in DOMAIN instructions /\ Made(i) \in MadeFrom(source[i])
        <5>1. i \in Nat \ {0} /\ lineNumber \in Nat /\ i < lineNumber /\ IsInstruction(source[i])
          BY Texts DEF LinesRead, ParserInv, TextTyped, IsSequence
        <5>2. InstructionsBefore(i) \in Nat /\ InstructionsBefore(i) + 1 <= Len(instructions)
          BY <5>1, CountType, CountGrows DEF ParserInv, ReadSoFar
        <5> QED BY <2>5, <5>2 DEF ParserInv, ReadSoFar
      <4>3. CASE InstructionsBefore(i) + 1 = at
        <5>1. instructions[at] \in MadeFrom(source[i])
          BY <4>2, <4>3 DEF Made
        <5> QED BY <2>2, <2>3, <2>6, <4>1, <4>3, <5>1, MadeFromIs
      <4>4. CASE InstructionsBefore(i) + 1 # at
        BY <2>6, <4>1, <4>2, <4>4 DEF Made
      <4> QED BY <4>3, <4>4
    <3> QED BY <2>1, <2>6, <2>7, <3>1 DEF ParserInv, ReadSoFar, MadeFrom
  <2>10. BranchesKept'
    <3>1. /\ unresolved' \in Seq(Nat) /\ DOMAIN unresolved' = 1..rest
          /\ DOMAIN unresolved = 1..(rest + 1)
          /\ \A u \in 1..rest : unresolved'[u] = unresolved[u + 1] /\ u + 1 \in 1..(rest + 1)
      BY <1>2, <2>1
    <3>2. \A k \in DOMAIN instructions :
            instructions'[k].label = instructions[k].label
      BY <1>1, <2>4, <2>6
    <3>3. ASSUME NEW u \in DOMAIN unresolved'
          PROVE  /\ unresolved'[u] \in DOMAIN instructions'
                 /\ instructions'[unresolved'[u]].label # None
      <4>1. PICK b : b = unresolved[u + 1] /\ b = unresolved'[u]
        BY <3>1
      <4>2. b \in DOMAIN instructions /\ instructions[b].label # None
        BY <3>1, <4>1 DEF ParserInv, BranchesKept
      <4> QED BY <2>6, <3>2, <4>1, <4>2
    <3>4. ASSUME NEW k \in DOMAIN instructions', instructions'[k].label # None
          PROVE  \/ \E u \in DOMAIN unresolved' : unresolved'[u] = k
                 \/ outcome' # "reading" /\ Linked(instructions[k])'
      <4>1. CASE k = at
        <5>1. linked.label \in Labels /\ labels'[linked.label] = value /\ linked.target = value
          BY <1>1, <1>7, <2>1, <2>4
        <5>2. instructions'[k] = linked
          BY <2>6, <4>1
        <5> QED BY <1>2, <1>7, <2>1, <5>1, <5>2 DEF Linked
      <4>2. CASE k # at
        <5>1. instructions'[k] = instructions[k] /\ k \in DOMAIN instructions
          BY <2>6, <4>2
        <5>2. \/ \E u \in DOMAIN unresolved : unresolved[u] = k
              \/ Linked(instructions[k])
          BY <3>4, <5>1 DEF ParserInv, BranchesKept
        <5>3. CASE Linked(instructions[k])
          BY <1>2, <2>1, <5>1, <5>3 DEF Linked
        <5>4. ASSUME NEW u \in DOMAIN unresolved, unresolved[u] = k
              PROVE  \E v \in DOMAIN unresolved' : unresolved'[v] = k
          <6>1. u # 1 /\ u \in 1..(rest + 1)
            BY <1>2, <3>1, <4>2, <5>4
          <6>2. u - 1 \in 1..rest /\ (u - 1) + 1 = u
            BY <1>2, <6>1
          <6> QED BY <3>1, <5>4, <6>2
        <5> QED BY <5>2, <5>3, <5>4
      <4> QED BY <4>1, <4>2
    <3> QED BY <3>1, <3>3, <3>4 DEF BranchesKept
  <2> QED BY <2>8, <2>9, <2>10 DEF ParserInv
<1> QED BY <1>1, <1>6, <1>7

LEMMA FinishStep ==
  ASSUME ParserInv, Finish
  PROVE  ParserInv'
<1>1. /\ outcome = "linking" /\ unresolved = << >>
      /\ outcome' = IF instructions = << >> THEN "rejected" ELSE "parsed"
      /\ UNCHANGED <<source, lineNumber, instructions, labels, unresolved>>
  BY DEF Finish
<1>2. lineNumber = Len(source) + 1
  BY <1>1 DEF ParserInv, OutcomeRight
<1>3. CASE instructions = << >>
  <2>1. Cardinality(InstructionLines) = 0 /\ IsFiniteSet(InstructionLines)
    BY <1>2, <1>3, AllIsRead
  <2>2. InstructionLines = {}
    BY <2>1, FS_EmptySet
  <2>3. ~ WellFormed
    BY <2>2 DEF WellFormed
  <2>4. Reject
    BY <1>1, <1>3 DEF Reject
  <2> QED BY <2>3, <2>4, Rejected
<1>4. CASE instructions # << >>
  <2>1. ReadSoFar' /\ AcceptedSoFar' /\ LabelsDefined'
    BY <1>1, ReadStaysRead
  <2>2. TextTyped' /\ BranchesKept'
    BY <1>1 DEF ParserInv, TextTyped, BranchesKept, Linked
  <2>3. OutcomeRight'
    BY <1>1, <1>2, <1>4 DEF OutcomeRight
  <2> QED BY <2>1, <2>2, <2>3 DEF ParserInv
<1> QED BY <1>3, <1>4

LEMMA NoParserStep ==
  ASSUME ParserInv, UNCHANGED parserVars
  PROVE  ParserInv'
<1>1. UNCHANGED <<source, lineNumber, instructions, labels, unresolved, outcome>>
  BY DEF parserVars
<1>2. ReadSoFar' /\ AcceptedSoFar' /\ LabelsDefined'
  BY <1>1, ReadStaysRead
<1>3. TextTyped' /\ BranchesKept'
  BY <1>1 DEF ParserInv, TextTyped, BranchesKept, Linked
<1>4. OutcomeRight'
  BY <1>1 DEF ParserInv, OutcomeRight, WellFormed, InstructionLines, IsInstruction,
              IsDirective, Definitions, Parses
<1> QED BY <1>2, <1>3, <1>4 DEF ParserInv

LEMMA ParserInvariant == ParserSpec => []ParserInv
<1>1. ParserInv /\ [Parse]_parserVars => ParserInv'
  BY DirectiveStep, LabelLineStep, InstructionLineStep, BadLineStep, EndOfTextStep, LinkStep,
     FinishStep, NoParserStep DEF Parse
<1> QED BY <1>1, InitParser, PTL DEF ParserSpec

-----------------------------------------------------------------------------
(* The parsed program. *)

LEMMA ParsedLine ==
  ASSUME ParserInv, outcome = "parsed", NEW i \in InstructionLines
  PROVE  /\ Made(i) \in MadeFrom(source[i]) /\ Parses(source[i].op, source[i].operands)
         /\ InstructionsBefore(i) + 1 \in DOMAIN instructions
         /\ Made(i).label # None =>
              \E m \in Definitions(Made(i).label) :
                /\ \A j \in Definitions(Made(i).label) : j <= m
                /\ Made(i).target = InstructionsBefore(m)
<1>1. /\ lineNumber = Len(source) + 1 /\ unresolved = << >>
      /\ LinesRead = InstructionLines
      /\ \A name : DefinedSoFar(name) = Definitions(name)
  BY AllIsRead DEF ParserInv, OutcomeRight
<1>2. Made(i) \in MadeFrom(source[i]) /\ Parses(source[i].op, source[i].operands)
  BY <1>1 DEF ParserInv, ReadSoFar, AcceptedSoFar
<1>3. InstructionsBefore(i) + 1 \in DOMAIN instructions
  <2>1. i \in Nat \ {0} /\ lineNumber \in Nat /\ i < lineNumber /\ IsInstruction(source[i])
    BY <1>1, Texts DEF LinesRead, ParserInv, TextTyped, IsSequence
  <2>2. InstructionsBefore(i) \in Nat /\ InstructionsBefore(i) + 1 <= Len(instructions)
    BY <2>1, CountType, CountGrows DEF ParserInv, ReadSoFar
  <2> QED BY <2>2 DEF ParserInv, ReadSoFar
<1>4. ASSUME Made(i).label # None
      PROVE  \E m \in Definitions(Made(i).label) :
               /\ \A j \in Definitions(Made(i).label) : j <= m
               /\ Made(i).target = InstructionsBefore(m)
  <2>1. Linked(Made(i))
    BY <1>1, <1>3, <1>4 DEF ParserInv, BranchesKept, Made
  <2> QED BY <1>1, <2>1 DEF Linked, ParserInv, LabelsDefined
<1> QED BY <1>2, <1>3, <1>4

(* Whatever the text: Parser accepts it exactly if its lines are well      *)
(* formed, it has an instruction, and every branch names a label that some *)
(* line defines.                                                           *)
THEOREM TextsAcceptedIfWellFormed == ParserSpec => []AcceptedIfWellFormed
<1>1. ParserInv => AcceptedIfWellFormed
  <2> SUFFICES ASSUME ParserInv, outcome = "parsed" PROVE WellFormed
    BY DEF AcceptedIfWellFormed, ParserInv, OutcomeRight
  <2>1. lineNumber = Len(source) + 1 /\ Len(source) \in Nat /\ DOMAIN source = 1..Len(source)
    BY Texts DEF ParserInv, OutcomeRight, TextTyped, IsSequence
  <2>2. \A i \in DOMAIN source : source[i].label # EmptyLabel
    BY <2>1 DEF ParserInv, AcceptedSoFar
  <2>3. \A i \in InstructionLines : Parses(source[i].op, source[i].operands)
    BY ParsedLine
  <2>4. InstructionLines # {}
    <3>1. Len(instructions) # 0
      BY DEF ParserInv, ReadSoFar, OutcomeRight
    <3> QED BY <2>1, <3>1, AllIsRead, FS_EmptySet
  <2>5. ASSUME NEW i \in InstructionLines,
               parseInstruction(source[i].op, source[i].operands).label # None
        PROVE  Definitions(parseInstruction(source[i].op, source[i].operands).label) # {}
    <3>1. Made(i).label = parseInstruction(source[i].op, source[i].operands).label
      BY ParsedLine, MadeFromIs
    <3> QED BY <2>5, <3>1, ParsedLine
  <2> QED BY <2>2, <2>3, <2>4, <2>5 DEF WellFormed
<1> QED BY <1>1, ParserInvariant, PTL

(* Whatever the text: the second loop of parseText, which links branches   *)
(* from a list, leaves every branch of a parsed program where the last     *)
(* definition of its label stands, and each line's instruction in place.   *)
THEOREM BranchesAreLinked == ParserSpec => []BranchesGoToLabels
<1>1. ParserInv => BranchesGoToLabels
  <2> SUFFICES ASSUME ParserInv, outcome = "parsed"
               PROVE  /\ Len(instructions) = Cardinality(InstructionLines)
                      /\ \A i \in InstructionLines :
                           /\ Made(i).op = source[i].op
                           /\ Made(i).label # None =>
                                Made(i).target = Means(Made(i).label)
    BY DEF BranchesGoToLabels
  <2>1. Len(instructions) = Cardinality(InstructionLines)
    BY AllIsRead DEF ParserInv, OutcomeRight
  <2>2. ASSUME NEW i \in InstructionLines PROVE Made(i).op = source[i].op
    BY ParsedLine, MadeFromIs
  <2>3. ASSUME NEW i \in InstructionLines, Made(i).label # None
        PROVE  Made(i).target = Means(Made(i).label)
    <3> DEFINE D == Definitions(Made(i).label)
    <3>1. PICK m \in D : (\A j \in D : j <= m) /\ Made(i).target = InstructionsBefore(m)
      BY <2>3, ParsedLine
    <3>2. D \subseteq Nat
      BY Texts DEF Definitions, ParserInv, TextTyped, IsSequence
    <3>3. \A x \in D : (\A j \in D : x >= j) => x = m
      BY <3>1, <3>2
    <3>4. \A j \in D : m >= j
      BY <3>1, <3>2
    <3>5. Max(D) = m
      BY <3>1, <3>3, <3>4 DEF Max
    <3> QED BY <3>1, <3>5 DEF Means
  <2> QED BY <2>1, <2>2, <2>3
<1> QED BY <1>1, ParserInvariant, PTL

(* Whatever the text: a parsed program is one that the pipeline runs, and  *)
(* sourceRegisters, writesRegister and the occupancy report agree on the   *)
(* registers that its lines name.                                          *)
THEOREM RegistersAreAgreed == ParserSpec => []RegistersAgree
<1>1. ParserInv => RegistersAgree
  <2> SUFFICES ASSUME ParserInv, outcome = "parsed"
               PROVE  /\ \A i \in InstructionLines :
                           /\ Decoded(Made(i)) \in Instructions
                           /\ RegistersNamed(source[i])
                                = Decoded(Made(i)).srcs \cup ({Decoded(Made(i)).dst} \ {None})
                      /\ maxRegister(instructions)
                           = Max({0} \cup UNION {RegistersNamed(source[i]) :
                                                   i \in InstructionLines})
    BY DEF RegistersAgree
  <2>1. ASSUME NEW i \in InstructionLines
        PROVE  /\ Decoded(Made(i)) \in Instructions
               /\ RegistersNamed(source[i]) = NamedIn(Made(i))
               /\ NamedIn(Made(i)) = Decoded(Made(i)).srcs \cup ({Decoded(Made(i)).dst} \ {None})
    <3>1. Made(i) \in MadeFrom(source[i]) /\ Parses(source[i].op, source[i].operands)
      BY ParsedLine
    <3>2. Operands(source[i].op, source[i].operands)
      BY Texts DEF InstructionLines, ParserInv, TextTyped
    <3> QED BY <3>1, <3>2, MadeFromIs, NamedRegisters, DecodedRegisters
  <2>2. UNION {NamedIn(instructions[k]) : k \in DOMAIN instructions}
          = UNION {RegistersNamed(source[i]) : i \in InstructionLines}
    <3>1. ASSUME NEW k \in DOMAIN instructions
          PROVE  \E i \in InstructionLines : NamedIn(instructions[k]) = RegistersNamed(source[i])
      <4>1. PICK i \in LinesRead : k = InstructionsBefore(i) + 1
        BY DEF ParserInv, ReadSoFar
      <4>2. i \in InstructionLines
        BY <4>1, AllIsRead DEF ParserInv, OutcomeRight
      <4> QED BY <2>1, <4>1, <4>2 DEF Made
    <3>2. ASSUME NEW i \in InstructionLines
          PROVE  \E k \in DOMAIN instructions : NamedIn(instructions[k]) = RegistersNamed(source[i])
      BY <2>1, ParsedLine DEF Made
    <3> QED BY <3>1, <3>2
  <2> QED BY <2>1, <2>2 DEF maxRegister
<1> QED BY <1>1, ParserInvariant, PTL

-----------------------------------------------------------------------------
(* A run of main up to its first cycle is a run of the parser and one of   *)
(* GPU::loadProgram, so all of the above holds of it.                      *)
THEOREM RunsParseAndLaunch == CommandLineSpec => ParserSpec /\ Spec
<1>1. CommandLineInit => ParserInit /\ Init
  BY DEF CommandLineInit
<1>2. [CommandLineNext]_<<launchVars, parserVars>>
        => [Parse]_parserVars /\ [Next]_launchVars
  BY DEF CommandLineNext, loadProgram
<1> QED BY <1>1, <1>2, PTL DEF CommandLineSpec, ParserSpec, Spec
=============================================================================
