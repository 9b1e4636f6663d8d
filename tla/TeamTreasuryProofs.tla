------------------------- MODULE TeamTreasuryProofs -------------------------
(***************************************************************************)
(* What holds of the global pool for all fees, rates and wallets.          *)
(***************************************************************************)
EXTENDS TeamTreasury, TLAPS

-----------------------------------------------------------------------------
(* Sums over the table.                                                     *)

\* A sum of naturals is a natural.
LEMMA SumSlotsNat ==
    ASSUME NEW f \in [Slots -> Nat]
    PROVE  SumSlots(f) \in Nat
<1>1. \A i \in Slots : f[i] \in Nat
  OBVIOUS
<1> QED BY <1>1 DEF SumSlots, Slots

\* A sum of at most as much per place is at most as much.
LEMMA SumSlotsMonotone ==
    ASSUME NEW f \in [Slots -> Nat], NEW g \in [Slots -> Nat],
           \A i \in Slots : f[i] <= g[i]
    PROVE  SumSlots(f) <= SumSlots(g)
<1>1. \A i \in Slots : f[i] \in Nat /\ g[i] \in Nat
  OBVIOUS
<1> QED BY <1>1 DEF SumSlots, Slots

\* Two tables that differ in one place only differ by that place in their sums.
LEMMA SumSlotsUpdate ==
    ASSUME NEW f \in [Slots -> Nat], NEW g \in [Slots -> Nat], NEW k \in Slots,
           \A i \in Slots \ {k} : g[i] = f[i]
    PROVE  SumSlots(g) + f[k] = SumSlots(f) + g[k]
<1>1. \A i \in Slots : f[i] \in Nat /\ g[i] \in Nat
  OBVIOUS
<1>2. k \in {0, 1, 2, 3, 4, 5, 6, 7}
  BY DEF Slots
<1> QED BY <1>1, <1>2 DEF SumSlots, Slots

\* No place holds more than the sum.
LEMMA SumSlotsBound ==
    ASSUME NEW f \in [Slots -> Nat], NEW k \in Slots
    PROVE  f[k] <= SumSlots(f)
<1>1. \A i \in Slots : f[i] \in Nat
  OBVIOUS
<1>2. k \in {0, 1, 2, 3, 4, 5, 6, 7}
  BY DEF Slots
<1> QED BY <1>1, <1>2 DEF SumSlots, Slots

-----------------------------------------------------------------------------
\* The rates in use are naturals.
LEMMA LiveRateType ==
    ASSUME TeamTypeOK
    PROVE  LiveRate \in [Slots -> Nat]
BY TeamAssumption DEF LiveRate, TeamTypeOK

\* Every reachable global pool has the types of its account: for every choice of
\* fees, rates and wallets, through every sequence of instructions.
LEMMA TeamTypeInit == TeamInit => TeamTypeOK
BY TeamAssumption DEF TeamInit, TeamTypeOK, Currency, Slots

LEMMA TeamTypeNext ==
    ASSUME TeamTypeOK, [TeamNext]_globalVars
    PROVE  TeamTypeOK'
<1> USE TeamAssumption
<1>1. ASSUME NEW admin \in Admins, Initialize(admin)
      PROVE  TeamTypeOK'
  BY <1>1, TeamTypeOK DEF Initialize, TeamTypeOK
<1>2. ASSUME NEW admin \in Admins, NEW sol_fee \in Fees, NEW token_fee \in Fees,
             UpdateFee(admin, sol_fee, token_fee)
      PROVE  TeamTypeOK'
  <2>1. sol_fee \in 0..PERMYRIAD - 1 /\ token_fee \in 0..PERMYRIAD - 1
    BY <1>2 DEF UpdateFee
  <2> QED BY <1>2, <2>1, TeamTypeOK DEF UpdateFee, TeamTypeOK
<1>3. ASSUME NEW admin \in Admins, NEW address \in Treasuries, NEW rate \in Rates,
             AddTeamTreasury(admin, address, rate)
      PROVE  TeamTypeOK'
  <2>1. rate \in 0..PERMYRIAD /\ team_count \in Slots /\ team_count + 1 \in 0..MAX_TEAM
    BY <1>3, TeamTypeOK DEF AddTeamTreasury, TeamTypeOK, Slots
  <2> QED BY <1>3, <2>1, TeamTypeOK DEF AddTeamTreasury, TeamTypeOK
<1>4. ASSUME NEW admin \in Admins, NEW address \in Treasuries,
             RemoveTeamTreasury(admin, address)
      PROVE  TeamTypeOK'
  <2>1. PICK i \in LiveSlots :
          /\ team_treasury' =
               IF i < team_count - 1
               THEN [team_treasury EXCEPT ![i] = team_treasury[team_count - 1],
                                          ![team_count - 1] = Default]
               ELSE team_treasury
          /\ treasury_rate' =
               IF i < team_count - 1
               THEN [treasury_rate EXCEPT ![i] = treasury_rate[team_count - 1],
                                          ![team_count - 1] = 0]
               ELSE treasury_rate
          /\ team_count' = IF i < team_count - 1 /\ address = Default
                           THEN team_count - 1 - 1 ELSE team_count - 1
    BY <1>4 DEF RemoveTeamTreasury
  <2>2. i \in Slots /\ team_count - 1 \in Slots
    BY <1>4, TeamTypeOK DEF RemoveTeamTreasury, TeamTypeOK, LiveSlots, Slots
  <2>3. team_count' \in 0..MAX_TEAM
    BY <1>4, <2>1, <2>2, TeamTypeOK DEF TeamTypeOK, Slots
  <2>4. team_treasury' \in [Slots -> Treasuries \cup {Default}]
    BY <2>1, <2>2, TeamTypeOK DEF TeamTypeOK
  <2>5. treasury_rate' \in [Slots -> 0..PERMYRIAD]
    BY <2>1, <2>2, TeamTypeOK DEF TeamTypeOK
  <2> QED BY <1>4, <2>3, <2>4, <2>5, TeamTypeOK DEF RemoveTeamTreasury, TeamTypeOK
<1>5. CASE UNCHANGED globalVars
  BY <1>5, TeamTypeOK DEF globalVars, TeamTypeOK
<1> QED BY <1>1, <1>2, <1>3, <1>4, <1>5 DEF TeamNext

\* The GlobalPool account keeps the types of its fields: the fees stay below the
\* whole, and the count never leaves the table.
THEOREM TeamTypeCorrect == TeamSpec => []TeamTypeOK
<1>1. TeamTypeOK /\ [TeamNext]_globalVars => TeamTypeOK'
  BY TeamTypeNext
<1> QED BY TeamTypeInit, <1>1, PTL DEF TeamSpec

-----------------------------------------------------------------------------
\* A table entry that is overwritten where it is not in use adds its rate.
LEMMA AddKeepsWellFormed ==
    ASSUME TeamTypeOK, TeamTypeOK', TeamWellFormed,
           NEW admin \in Admins, NEW address \in Treasuries, NEW rate \in Rates,
           AddTeamTreasury(admin, address, rate)
    PROVE  TeamWellFormed'
<1> USE TeamAssumption
<1>1. /\ team_count \in Slots
      /\ rate \in Nat /\ rate > 0
      /\ team_treasury' = [team_treasury EXCEPT ![team_count] = address]
      /\ treasury_rate' = [treasury_rate EXCEPT ![team_count] = rate]
      /\ team_count' = team_count + 1
      /\ address \notin Team
      /\ RateSum + rate <= PERMYRIAD
  BY DEF AddTeamTreasury, TeamTypeOK, Slots
<1>2. LiveSlots' = LiveSlots \cup {team_count}
  BY <1>1, TeamTypeOK DEF LiveSlots, TeamTypeOK, Slots
<1>3. /\ team_count \notin LiveSlots
      /\ LiveSlots \subseteq Slots
  BY TeamTypeOK DEF LiveSlots, TeamTypeOK
<1>4. TeamDistinct'
  <2> SUFFICES ASSUME NEW i \in LiveSlots', NEW j \in LiveSlots',
                      team_treasury'[i] = team_treasury'[j]
               PROVE  i = j
    BY DEF TeamDistinct
  <2>1. \A k \in LiveSlots : team_treasury'[k] = team_treasury[k] /\ team_treasury[k] # address
    BY <1>1, <1>3, TeamTypeOK DEF Team, TeamTypeOK
  <2>2. team_treasury'[team_count] = address
    BY <1>1, TeamTypeOK DEF TeamTypeOK
  <2> QED BY <1>2, <2>1, <2>2 DEF TeamWellFormed, TeamDistinct
<1>5. \A i \in LiveSlots' : treasury_rate'[i] > 0
  BY <1>1, <1>2, <1>3, TeamTypeOK DEF TeamWellFormed, TeamTypeOK
<1>6. RateSum' = RateSum + rate
  <2>1. LiveRate \in [Slots -> Nat] /\ LiveRate' \in [Slots -> Nat]
    BY LiveRateType DEF LiveRate, TeamTypeOK
  <2>2. LiveRate[team_count] = 0 /\ LiveRate'[team_count] = rate
    BY <1>1, TeamTypeOK DEF LiveRate, TeamTypeOK, Slots
  <2>3. \A i \in Slots \ {team_count} : LiveRate'[i] = LiveRate[i]
    BY <1>1, TeamTypeOK DEF LiveRate, TeamTypeOK, Slots
  <2>4. SumSlots(LiveRate') + 0 = SumSlots(LiveRate) + rate
    BY <1>1, <2>1, <2>2, <2>3, SumSlotsUpdate
  <2>5. SumSlots(LiveRate) \in Nat /\ SumSlots(LiveRate') \in Nat
    BY <2>1, SumSlotsNat
  <2> QED BY <1>1, <2>4, <2>5 DEF RateSum, SumSlots
<1> QED BY <1>1, <1>4, <1>5, <1>6 DEF TeamWellFormed

\* What a removal of the entry in place i does, written out.
RemovesAt(i, address) ==
    LET last == team_count - 1
    IN  /\ team_treasury[i] = address
        /\ team_treasury' =
             IF i < last
             THEN [team_treasury EXCEPT ![i] = team_treasury[last], ![last] = Default]
             ELSE team_treasury
        /\ treasury_rate' =
             IF i < last
             THEN [treasury_rate EXCEPT ![i] = treasury_rate[last], ![last] = 0]
             ELSE treasury_rate
        /\ team_count' = IF i < last /\ address = Default THEN last - 1 ELSE last

\* A removal closes the gap with the last entry and leaves every other entry where it
\* is, the wallet together with its rate.
LEMMA RemovalMoves ==
    ASSUME TeamTypeOK, TeamTypeOK', NEW admin \in Admins, NEW address \in Treasuries,
           RemoveTeamTreasury(admin, address)
    PROVE  \E i \in LiveSlots :
              /\ RemovesAt(i, address)
              /\ team_count - 1 \in LiveSlots
              /\ LiveSlots' \subseteq LiveSlots \ {team_count - 1}
              /\ address # Default => LiveSlots' = LiveSlots \ {team_count - 1}
              /\ \A j \in LiveSlots' :
                    /\ team_treasury'[j] = team_treasury[IF j = i THEN team_count - 1 ELSE j]
                    /\ treasury_rate'[j] = treasury_rate[IF j = i THEN team_count - 1 ELSE j]
<1> USE TeamAssumption
<1> DEFINE last == team_count - 1
<1>1. PICK i \in LiveSlots : RemovesAt(i, address)
  BY DEF RemoveTeamTreasury, RemovesAt
<1>2. /\ i \in Slots /\ last \in Slots
      /\ team_count \in Nat /\ team_count' \in Nat /\ team_count' <= last
      /\ i <= last /\ last \in LiveSlots
  BY <1>1, TeamTypeOK, TeamTypeOK'
  DEF RemoveTeamTreasury, RemovesAt, TeamTypeOK, LiveSlots, Slots
<1>3. LiveSlots' \subseteq LiveSlots \ {last}
  BY <1>2 DEF LiveSlots, Slots
<1>4. \A j \in LiveSlots' : /\ team_treasury'[j] = team_treasury[IF j = i THEN last ELSE j]
                            /\ treasury_rate'[j] = treasury_rate[IF j = i THEN last ELSE j]
  <2> SUFFICES ASSUME NEW j \in LiveSlots'
               PROVE  /\ team_treasury'[j] = team_treasury[IF j = i THEN last ELSE j]
                      /\ treasury_rate'[j] = treasury_rate[IF j = i THEN last ELSE j]
    OBVIOUS
  <2>1. j \in Slots /\ j < last /\ j # last
    BY <1>2 DEF LiveSlots, Slots
  <2>2. CASE i < last
    BY <1>1, <1>2, <2>1, <2>2, TeamTypeOK DEF RemovesAt, TeamTypeOK
  <2>3. CASE ~ (i < last)
    <3>1. j # i
      BY <1>2, <2>1, <2>3 DEF Slots
    <3> QED BY <1>1, <2>3, <3>1 DEF RemovesAt
  <2> QED BY <2>2, <2>3
<1>5. address # Default => LiveSlots' = LiveSlots \ {last}
  <2> SUFFICES ASSUME address # Default PROVE LiveSlots' = LiveSlots \ {last}
    OBVIOUS
  <2>1. team_count' = last
    BY <1>1 DEF RemovesAt
  <2> QED BY <1>2, <2>1 DEF LiveSlots, Slots
<1> QED BY <1>1, <1>2, <1>3, <1>4, <1>5

\* Removing an entry takes its rate off the sum and keeps the rest distinct.
LEMMA RemoveKeepsWellFormed ==
    ASSUME TeamTypeOK, TeamTypeOK', TeamWellFormed,
           NEW admin \in Admins, NEW address \in Treasuries,
           RemoveTeamTreasury(admin, address)
    PROVE  TeamWellFormed'
<1> USE TeamAssumption
<1> DEFINE last == team_count - 1
<1>1. PICK i \in LiveSlots :
        /\ RemovesAt(i, address)
        /\ last \in LiveSlots
        /\ LiveSlots' \subseteq LiveSlots \ {last}
        /\ \A j \in LiveSlots' :
              /\ team_treasury'[j] = team_treasury[IF j = i THEN last ELSE j]
              /\ treasury_rate'[j] = treasury_rate[IF j = i THEN last ELSE j]
  BY RemovalMoves
<1>2. /\ i \in Slots /\ last \in Slots
      /\ team_count \in Nat /\ team_count' \in Nat /\ team_count' <= last
      /\ i <= last /\ last \in LiveSlots
  BY <1>1, TeamTypeOK, TeamTypeOK'
  DEF RemoveTeamTreasury, RemovesAt, TeamTypeOK, LiveSlots, Slots
<1>3. LiveSlots' \subseteq LiveSlots \ {last}
  BY <1>1
<1>4. \A j \in LiveSlots' : /\ team_treasury'[j] = team_treasury[IF j = i THEN last ELSE j]
                            /\ treasury_rate'[j] = treasury_rate[IF j = i THEN last ELSE j]
  BY <1>1
<1>5. TeamDistinct'
  <2> SUFFICES ASSUME NEW j \in LiveSlots', NEW k \in LiveSlots',
                      team_treasury'[j] = team_treasury'[k]
               PROVE  j = k
    BY DEF TeamDistinct
  <2>1. j \in LiveSlots /\ k \in LiveSlots /\ j # last /\ k # last
    BY <1>3
  <2> QED BY <1>2, <1>4, <2>1 DEF TeamWellFormed, TeamDistinct
<1>6. \A j \in LiveSlots' : treasury_rate'[j] > 0
  BY <1>2, <1>3, <1>4 DEF TeamWellFormed
<1>7. RateSum' <= RateSum
  <2> DEFINE cut  == [j \in Slots |-> IF j = last THEN 0 ELSE LiveRate[j]]
             swap == [j \in Slots |-> IF j = i THEN cut[last] ELSE cut[j]]
             moved == [j \in Slots |-> IF i < last /\ j = i THEN LiveRate[last] ELSE cut[j]]
  <2>1. LiveRate \in [Slots -> Nat] /\ LiveRate' \in [Slots -> Nat]
    BY LiveRateType DEF LiveRate, TeamTypeOK
  <2>2. cut \in [Slots -> Nat] /\ moved \in [Slots -> Nat]
    BY <1>2, <2>1
  <2>3. SumSlots(cut) + LiveRate[last] = SumSlots(LiveRate) + 0
    <3>1. cut[last] = 0 /\ \A j \in Slots \ {last} : cut[j] = LiveRate[j]
      BY <1>2
    <3>2. SumSlots(cut) + LiveRate[last] = SumSlots(LiveRate) + cut[last]
      BY <1>2, <2>1, <2>2, <3>1, SumSlotsUpdate
    <3> QED BY <3>1, <3>2
  <2>4. SumSlots(moved) <= SumSlots(LiveRate)
    <3>1. CASE i < last
      <4>1. moved[i] = LiveRate[last] /\ cut[i] = LiveRate[i]
        BY <1>2, <3>1
      <4>2. \A j \in Slots \ {i} : moved[j] = cut[j]
        OBVIOUS
      <4>3. SumSlots(moved) + cut[i] = SumSlots(cut) + moved[i]
        BY <1>2, <2>2, <4>2, SumSlotsUpdate
      <4>4. SumSlots(moved) \in Nat /\ SumSlots(cut) \in Nat /\ SumSlots(LiveRate) \in Nat
            /\ LiveRate[i] \in Nat /\ LiveRate[last] \in Nat
        BY <1>2, <2>1, <2>2, SumSlotsNat
      <4> HIDE DEF cut, moved
      <4> QED BY <2>3, <4>1, <4>3, <4>4
    <3>2. CASE ~ (i < last)
      <4>1. \A j \in Slots : moved[j] <= LiveRate[j]
        <5>1. \A j \in Slots : LiveRate[j] \in Nat
          BY <2>1
        <5> QED BY <3>2, <5>1
      <4> HIDE DEF cut, moved
      <4> QED BY <2>1, <2>2, <4>1, SumSlotsMonotone
    <3> QED BY <3>1, <3>2
  <2>5. \A j \in Slots : LiveRate'[j] <= moved[j]
    <3> SUFFICES ASSUME NEW j \in Slots
                 PROVE  LiveRate'[j] <= moved[j]
      OBVIOUS
    <3>1. moved[j] \in Nat
      BY <2>2
    <3>2. CASE j < team_count'
      <4>1. j \in LiveSlots' /\ j # last /\ j \in LiveSlots
        BY <1>2, <1>3, <3>2 DEF LiveSlots, Slots
      <4>2. LiveRate'[j] = treasury_rate[IF j = i THEN last ELSE j]
        BY <1>4, <3>2, <4>1 DEF LiveRate
      <4>3. j = i => i < last
        BY <1>2, <4>1 DEF Slots
      <4>4. LiveRate[last] = treasury_rate[last] /\ LiveRate[j] = treasury_rate[j]
        BY <1>2, <4>1 DEF LiveRate, LiveSlots
      <4>5. LiveRate'[j] = moved[j]
        BY <4>1, <4>2, <4>3, <4>4
      <4> HIDE DEF cut, moved
      <4> QED BY <3>1, <4>5
    <3>3. CASE ~ (j < team_count')
      <4>1. LiveRate'[j] = 0
        BY <3>3 DEF LiveRate
      <4> HIDE DEF cut, moved
      <4> QED BY <3>1, <4>1
    <3> QED BY <3>2, <3>3
  <2>6. SumSlots(LiveRate') <= SumSlots(moved)
    <3> HIDE DEF cut, moved
    <3> QED BY <2>1, <2>2, <2>5, SumSlotsMonotone
  <2>7. SumSlots(LiveRate') \in Nat /\ SumSlots(moved) \in Nat /\ SumSlots(LiveRate) \in Nat
    BY <2>1, <2>2, SumSlotsNat
  <2> HIDE DEF cut, moved
  <2> QED BY <2>4, <2>6, <2>7 DEF RateSum, SumSlots
<1>8. RateSum \in Nat /\ RateSum' \in Nat
  BY LiveRateType, SumSlotsNat DEF RateSum, SumSlots, LiveRate, TeamTypeOK
<1> QED BY <1>5, <1>6, <1>7, <1>8 DEF TeamWellFormed

\* Through every sequence of additions and removals the table holds distinct wallets
\* with positive rates whose sum does not pass the whole.
THEOREM TeamAlwaysWellFormed == TeamSpec => []TeamWellFormed
<1> DEFINE Inv == TeamTypeOK /\ TeamWellFormed
<1>1. TeamInit => Inv
  <2> SUFFICES ASSUME TeamInit
               PROVE  TeamWellFormed
    BY TeamTypeInit
  <2>1. LiveSlots = {} /\ \A i \in Slots : LiveRate[i] = 0
    BY DEF TeamInit, LiveSlots, LiveRate, Slots
  <2> QED BY <2>1, TeamAssumption DEF TeamWellFormed, TeamDistinct, RateSum, SumSlots, Slots
<1>2. Inv /\ [TeamNext]_globalVars => Inv'
  <2> SUFFICES ASSUME TeamTypeOK, TeamWellFormed, [TeamNext]_globalVars
               PROVE  TeamTypeOK' /\ TeamWellFormed'
    OBVIOUS
  <2>1. TeamTypeOK'
    BY TeamTypeNext
  <2>2. CASE UNCHANGED <<team_count, team_treasury, treasury_rate>>
    BY <2>1, <2>2 DEF TeamWellFormed, TeamDistinct, RateSum, LiveRate, LiveSlots, SumSlots
  <2>3. ASSUME NEW admin \in Admins, NEW address \in Treasuries, NEW rate \in Rates,
               AddTeamTreasury(admin, address, rate)
        PROVE  TeamWellFormed'
    BY <2>1, <2>3, AddKeepsWellFormed
  <2>4. ASSUME NEW admin \in Admins, NEW address \in Treasuries,
               RemoveTeamTreasury(admin, address)
        PROVE  TeamWellFormed'
    BY <2>1, <2>4, RemoveKeepsWellFormed
  <2> QED BY <2>1, <2>2, <2>3, <2>4 DEF TeamNext, Initialize, UpdateFee, globalVars
<1> QED BY <1>1, <1>2, PTL DEF TeamSpec

-----------------------------------------------------------------------------
\* Everything in use is a wallet that an administrator has named: the places that a
\* removal clears are never in use again before they are written again.
TeamNamed == Team \subseteq Treasuries

\* An addition brings in the wallet it names and nobody else.
LEMMA AddBringsOne ==
    ASSUME TeamTypeOK, NEW admin, NEW address, NEW rate,
           AddTeamTreasury(admin, address, rate)
    PROVE  Team' \subseteq Team \cup {address}
<1> SUFFICES ASSUME NEW i \in LiveSlots'
             PROVE  team_treasury'[i] \in Team \cup {address}
  BY DEF Team
<1>1. i \in LiveSlots \/ i = team_count
  BY TeamAssumption DEF AddTeamTreasury, LiveSlots, Slots, TeamTypeOK
<1>2. i \in Slots /\ team_treasury'[i] = IF i = team_count THEN address ELSE team_treasury[i]
  BY DEF AddTeamTreasury, LiveSlots, TeamTypeOK
<1> QED BY <1>1, <1>2 DEF Team

\* A removal brings in nobody.
LEMMA RemoveBringsNone ==
    ASSUME TeamTypeOK, TeamTypeOK', NEW admin \in Admins, NEW address \in Treasuries,
           RemoveTeamTreasury(admin, address)
    PROVE  Team' \subseteq Team
<1> SUFFICES ASSUME NEW i \in LiveSlots' PROVE team_treasury'[i] \in Team
  BY DEF Team
<1>1. \E j \in LiveSlots : team_treasury'[i] = team_treasury[j]
  BY RemovalMoves
<1> QED BY <1>1 DEF Team

LEMMA TeamAlwaysNamed == TeamSpec => []TeamNamed
<1>1. TeamInit => TeamNamed
  <2> SUFFICES ASSUME TeamInit PROVE LiveSlots = {}
    BY DEF TeamNamed, Team
  <2> QED BY DEF TeamInit, LiveSlots, Slots
<1>2. TeamTypeOK /\ TeamTypeOK' /\ TeamNamed /\ [TeamNext]_globalVars => TeamNamed'
  <2> SUFFICES ASSUME TeamTypeOK, TeamTypeOK', TeamNamed, [TeamNext]_globalVars
               PROVE  Team' \subseteq Treasuries
    BY DEF TeamNamed
  <2>1. CASE UNCHANGED <<team_count, team_treasury>>
    BY <2>1 DEF TeamNamed, Team, LiveSlots
  <2>2. ASSUME NEW admin \in Admins, NEW address \in Treasuries, NEW rate \in Rates,
               AddTeamTreasury(admin, address, rate)
        PROVE  Team' \subseteq Treasuries
    BY <2>2, AddBringsOne DEF TeamNamed
  <2>3. ASSUME NEW admin \in Admins, NEW address \in Treasuries,
               RemoveTeamTreasury(admin, address)
        PROVE  Team' \subseteq Treasuries
    BY <2>3, RemoveBringsNone DEF TeamNamed
  <2> QED BY <2>1, <2>2, <2>3 DEF TeamNext, Initialize, UpdateFee, globalVars
<1> QED BY <1>1, <1>2, TeamTypeCorrect, PTL DEF TeamSpec

-----------------------------------------------------------------------------
\* In every behaviour of the global pool, for any wallets, rates and sizes of the
\* table: while the default key is not in it, a wallet that leaves the table takes no
\* other wallet's place or rate with it.
THEOREM RemovalsKeepOthers == TeamSpec => RemoveWalletKeepsOthers
<1> DEFINE Kept ==
             Default \notin Team =>
               \A i \in LiveSlots : team_treasury[i] \notin Team' => OthersStay(i)
<1>1. TeamTypeOK /\ TeamTypeOK' /\ TeamNext => Kept
  <2> SUFFICES ASSUME TeamTypeOK, TeamTypeOK', TeamNext, Default \notin Team,
                      NEW i \in LiveSlots, team_treasury[i] \notin Team',
                      NEW j \in LiveSlots, j # i
               PROVE  \E k \in LiveSlots' : /\ team_treasury'[k] = team_treasury[j]
                                            /\ treasury_rate'[k] = treasury_rate[j]
    BY DEF OthersStay
  <2>1. CASE UNCHANGED <<team_count, team_treasury, treasury_rate>>
    BY <2>1 DEF LiveSlots
  <2>2. ASSUME NEW admin \in Admins, NEW address \in Treasuries, NEW rate \in Rates,
               AddTeamTreasury(admin, address, rate)
        PROVE  FALSE
    <3>1. i \in LiveSlots' /\ team_treasury'[i] = team_treasury[i]
      BY <2>2, TeamAssumption DEF AddTeamTreasury, LiveSlots, Slots, TeamTypeOK
    <3> QED BY <3>1 DEF Team
  <2>3. ASSUME NEW admin \in Admins, NEW address \in Treasuries,
               RemoveTeamTreasury(admin, address)
        PROVE  \E k \in LiveSlots' : /\ team_treasury'[k] = team_treasury[j]
                                     /\ treasury_rate'[k] = treasury_rate[j]
    <3> DEFINE last == team_count - 1
    <3>1. PICK r \in LiveSlots :
            /\ RemovesAt(r, address)
            /\ last \in LiveSlots
            /\ address # Default => LiveSlots' = LiveSlots \ {last}
            /\ \A k \in LiveSlots' :
                  /\ team_treasury'[k] = team_treasury[IF k = r THEN last ELSE k]
                  /\ treasury_rate'[k] = treasury_rate[IF k = r THEN last ELSE k]
      BY <2>3, RemovalMoves
    <3>2. LiveSlots' = LiveSlots \ {last}
      BY <3>1 DEF RemovesAt, Team
    <3> HIDE DEF last
    <3>3. r = i
      <4>1. ASSUME r # i PROVE FALSE
        <5>1. CASE i = last
          <6>1. r \in LiveSlots' /\ team_treasury'[r] = team_treasury[i]
            BY <3>1, <3>2, <4>1, <5>1
          <6> QED BY <6>1 DEF Team
        <5>2. CASE i # last
          <6>1. i \in LiveSlots' /\ team_treasury'[i] = team_treasury[i]
            BY <3>1, <3>2, <4>1, <5>2
          <6> QED BY <6>1 DEF Team
        <5> QED BY <5>1, <5>2
      <4> QED BY <4>1
    <3>4. CASE j = last
      <4>1. r \in LiveSlots'
        BY <3>2, <3>3, <3>4
      <4> QED BY <3>1, <3>4, <4>1
    <3>5. CASE j # last
      <4>1. j \in LiveSlots' /\ j # r
        BY <3>2, <3>3, <3>5
      <4> QED BY <3>1, <4>1
    <3> QED BY <3>4, <3>5
  <2> QED BY <2>1, <2>2, <2>3 DEF TeamNext, Initialize, UpdateFee
<1>2. [](TeamTypeOK) /\ [][TeamNext]_globalVars => [][Kept]_globalVars
  BY <1>1, PTL
<1>3. TeamSpec => [][Kept]_globalVars
  BY <1>2, TeamTypeCorrect, PTL DEF TeamSpec
<1> QED BY <1>3 DEF RemoveWalletKeepsOthers

-----------------------------------------------------------------------------
(* The division of fees.                                                    *)

\* What the integer division of the program returns.
LEMMA DivBounds ==
    ASSUME NEW a \in Nat, NEW d \in Nat \ {0}
    PROVE  /\ a \div d \in Nat
           /\ d * (a \div d) <= a
BY Z3

\* Products of naturals grow with their factors.
LEMMA TimesMonotone ==
    ASSUME NEW a \in Nat, NEW b \in Nat, NEW m \in Nat, a <= b
    PROVE  m * a \in Nat /\ m * b \in Nat /\ m * a <= m * b
BY Z3

\* A common positive factor can be taken off an inequality.
LEMMA TimesCancel ==
    ASSUME NEW a \in Nat, NEW b \in Nat, NEW m \in Nat \ {0}, m * a <= m * b
    PROVE  a <= b
BY Z3

\* A fee is no more than the price, because a market fee is below the whole.
LEMMA FeeWithinPrice ==
    ASSUME TeamTypeOK, NEW price \in Nat, NEW c \in Currency
    PROVE  /\ FeeAmount(price, c) \in Nat
           /\ FeeAmount(price, c) <= price
           /\ PERMYRIAD * FeeAmount(price, c) <= price * market_fee[c]
           /\ Proceeds(price, c) \in Nat
<1> USE TeamAssumption
<1> DEFINE rate == market_fee[c]
           fee == FeeAmount(price, c)
<1>1. rate \in Nat /\ rate <= PERMYRIAD
  BY DEF TeamTypeOK
<1>2. price * rate \in Nat /\ price * rate <= price * PERMYRIAD
  BY <1>1, TimesMonotone
<1>3. fee \in Nat /\ PERMYRIAD * fee <= price * rate
  BY <1>2, DivBounds DEF FeeAmount
<1>4. PERMYRIAD * fee <= PERMYRIAD * price
  <2>1. price * PERMYRIAD = PERMYRIAD * price /\ PERMYRIAD * price \in Nat
    OBVIOUS
  <2>2. PERMYRIAD * fee \in Nat
    BY <1>3
  <2> HIDE DEF fee, rate
  <2> QED BY <1>2, <1>3, <2>1, <2>2
<1>5. fee <= price
  BY <1>3, <1>4, TimesCancel
<1> QED BY <1>3, <1>5 DEF Proceeds

\* Each share is a natural, and the whole times a share is within the product of
\* the fee and the rate.
LEMMA ShareBounds ==
    ASSUME TeamTypeOK, NEW fee \in Nat, NEW i \in Slots
    PROVE  /\ Share(fee, i) \in Nat
           /\ PERMYRIAD * Share(fee, i) <= fee * treasury_rate[i]
<1>1. treasury_rate[i] \in Nat
  BY TeamAssumption DEF TeamTypeOK
<1>2. fee * treasury_rate[i] \in Nat
  BY <1>1
<1> QED BY <1>2, DivBounds, TeamAssumption DEF Share

\* The shares of a fee are within the fee.
LEMMA SharesWithin ==
    ASSUME TeamTypeOK, TeamWellFormed, NEW fee \in Nat
    PROVE  SharesPaid(fee) \in Nat /\ SharesPaid(fee) <= fee
<1> USE TeamAssumption
<1> DEFINE s == [i \in Slots |-> IF i < team_count THEN Share(fee, i) ELSE 0]
           r == LiveRate
<1>1. r \in [Slots -> Nat] /\ s \in [Slots -> Nat]
  BY LiveRateType, ShareBounds
<1>2. \A i \in Slots : PERMYRIAD * s[i] <= fee * r[i]
  <2> SUFFICES ASSUME NEW i \in Slots
               PROVE  PERMYRIAD * s[i] <= fee * r[i]
    OBVIOUS
  <2>1. CASE i < team_count
    BY <2>1, ShareBounds DEF LiveRate
  <2>2. CASE ~ (i < team_count)
    BY <2>2 DEF LiveRate
  <2> QED BY <2>1, <2>2
<1>3. SumSlots(s) \in Nat /\ SumSlots(r) \in Nat
  BY <1>1, SumSlotsNat
<1>4. PERMYRIAD * SumSlots(s) <= fee * SumSlots(r)
  <2>1. \A i \in Slots : s[i] \in Nat /\ r[i] \in Nat
    BY <1>1
  <2> HIDE DEF s, r
  <2>2. /\ PERMYRIAD * s[0] <= fee * r[0]
        /\ PERMYRIAD * s[1] <= fee * r[1]
        /\ PERMYRIAD * s[2] <= fee * r[2]
        /\ PERMYRIAD * s[3] <= fee * r[3]
        /\ PERMYRIAD * s[4] <= fee * r[4]
        /\ PERMYRIAD * s[5] <= fee * r[5]
        /\ PERMYRIAD * s[6] <= fee * r[6]
        /\ PERMYRIAD * s[7] <= fee * r[7]
    BY <1>2 DEF Slots
  <2> QED BY <2>1, <2>2 DEF SumSlots, Slots
<1>5. fee * SumSlots(r) <= fee * PERMYRIAD
  BY <1>3, TimesMonotone DEF TeamWellFormed, RateSum
<1>6. PERMYRIAD * SumSlots(s) <= PERMYRIAD * fee
  <2>1. fee * PERMYRIAD = PERMYRIAD * fee
    OBVIOUS
  <2>2. /\ PERMYRIAD * SumSlots(s) \in Nat
        /\ fee * SumSlots(r) \in Nat
        /\ PERMYRIAD * fee \in Nat
    BY <1>3
  <2> HIDE DEF s, r
  <2> QED BY <1>4, <1>5, <2>1, <2>2
<1>7. SumSlots(s) <= fee
  BY <1>3, <1>6, TimesCancel
<1> QED BY <1>3, <1>7 DEF SharesPaid

\* No product of a fee and a rate passes u64 once the product that gave the fee did
\* not: lib.rs:684 multiplies without a check and cannot wrap.
LEMMA ShareFits ==
    ASSUME TeamTypeOK, NEW price \in Nat, NEW c \in Currency, CanSettle(price, c),
           NEW i \in Slots
    PROVE  FeeAmount(price, c) * treasury_rate[i] <= MAX_U64
<1> USE TeamAssumption
<1> DEFINE fee == FeeAmount(price, c)
           rate == treasury_rate[i]
<1>1. fee \in Nat /\ PERMYRIAD * fee <= price * market_fee[c]
  BY FeeWithinPrice
<1>2. price * market_fee[c] \in Nat /\ price * market_fee[c] <= MAX_U64
  <2>1. market_fee[c] \in Nat
    BY DEF TeamTypeOK
  <2> QED BY <2>1 DEF CanSettle
<1>3. rate \in Nat /\ rate <= PERMYRIAD
  BY DEF TeamTypeOK
<1>4. fee * rate \in Nat /\ fee * PERMYRIAD \in Nat /\ fee * rate <= fee * PERMYRIAD
  BY <1>1, <1>3, TimesMonotone
<1>5. fee * PERMYRIAD = PERMYRIAD * fee
  BY <1>1
<1> HIDE DEF fee, rate
<1>6. fee * rate <= MAX_U64
  BY <1>1, <1>2, <1>4, <1>5
<1> QED BY <1>6 DEF fee, rate

\* In every reachable state, for every price and currency: the treasuries never
\* receive more than the fee, and no multiplication by a rate wraps.
THEOREM SharesAlwaysWithinFee == TeamSpec => []SharesWithinFee
<1>1. TeamTypeOK /\ TeamWellFormed => SharesWithinFee
  <2> SUFFICES ASSUME TeamTypeOK, TeamWellFormed,
                      NEW c \in Currency, NEW price \in 0..MAX_U64, CanSettle(price, c)
               PROVE  /\ SharesPaid(FeeAmount(price, c)) <= FeeAmount(price, c)
                      /\ \A i \in LiveSlots :
                            FeeAmount(price, c) * treasury_rate[i] <= MAX_U64
    BY DEF SharesWithinFee
  <2>1. price \in Nat
    BY TeamAssumption
  <2>2. FeeAmount(price, c) \in Nat
    BY <2>1, FeeWithinPrice
  <2> QED BY <2>1, <2>2, SharesWithin, ShareFits DEF LiveSlots
<1> QED BY <1>1, TeamTypeCorrect, TeamAlwaysWellFormed, PTL

-----------------------------------------------------------------------------
(* The loop of remove_team_treasury.                                        *)

\* The count and the arrays as the loop finds them.
LoopStart == [count |-> team_count, treasury |-> team_treasury, rate |-> treasury_rate]

\* g is what the iterations leave, one after the other.
IsLoop(g, address) ==
    g = [i \in 0..team_count |-> IF i = 0 THEN LoopStart
                                          ELSE RemoveBody(address, i - 1, g[i - 1])]

\* The result of the loop is the last of such iterations.
LEMMA LoopIsChosen ==
    ASSUME NEW address
    PROVE  RemoveLoop(address) = (CHOOSE g : IsLoop(g, address))[team_count]
BY DEF RemoveLoop, IsLoop, LoopStart

\* A column of the table once the entry in place r has been removed from it.
Closed(column, r, hole) ==
    IF r < team_count - 1
    THEN [column EXCEPT ![r] = column[team_count - 1], ![team_count - 1] = hole]
    ELSE column

\* What k iterations leave when the address is in place r.
After(r, address, k) ==
    IF k <= r
    THEN LoopStart
    ELSE [count    |-> IF r < team_count - 1 /\ address = Default /\ k = team_count
                       THEN team_count - 1 - 1 ELSE team_count - 1,
          treasury |-> Closed(team_treasury, r, Default),
          rate     |-> Closed(treasury_rate, r, 0)]

\* One more iteration: it leaves alone what it does not match, closes the gap in place
\* r, and at the end of the table meets the place that it has cleared itself.
LEMMA AfterStep ==
    ASSUME TeamTypeOK, TeamDistinct, NEW address, NEW r \in LiveSlots,
           team_treasury[r] = address, NEW k \in 0..team_count - 1
    PROVE  RemoveBody(address, k, After(r, address, k)) = After(r, address, k + 1)
<1> DEFINE last == team_count - 1
           before == After(r, address, k)
<1>1. /\ team_count \in 0..8 /\ r \in Slots /\ r < team_count /\ k \in LiveSlots
      /\ k \in Slots /\ k <= last /\ last \in Slots
  BY TeamAssumption DEF TeamTypeOK, LiveSlots, Slots
<1>2. k # r => team_treasury[k] # address
  BY <1>1 DEF TeamDistinct
<1>3. CASE k < r
  <2>1. before = LoopStart /\ After(r, address, k + 1) = LoopStart
    BY <1>1, <1>3 DEF After, Slots
  <2>2. LoopStart.treasury[k] # address
    BY <1>1, <1>2, <1>3 DEF LoopStart
  <2> HIDE DEF before
  <2>3. RemoveBody(address, k, before) = before
    BY <2>1, <2>2 DEF RemoveBody
  <2> QED BY <2>1, <2>3 DEF before
<1>4. CASE k = r
  <2>1. before = LoopStart
    BY <1>1, <1>4 DEF After, Slots
  <2>2. RemoveBody(address, k, LoopStart)
          = [count |-> last, treasury |-> Closed(team_treasury, r, Default),
             rate |-> Closed(treasury_rate, r, 0)]
    BY <1>1, <1>4 DEF RemoveBody, LoopStart, Closed
  <2>3. ~ (k + 1 <= r) /\ ~ (r < last /\ k + 1 = team_count)
    BY <1>1, <1>4 DEF Slots
  <2> QED BY <2>1, <2>2, <2>3 DEF After
<1>5. CASE k > r
  <2> DEFINE there == Closed(team_treasury, r, Default)
             rates == Closed(treasury_rate, r, 0)
  <2>1. r < last /\ ~ (k <= r) /\ ~ (k + 1 <= r) /\ k # team_count
    BY <1>1, <1>5 DEF Slots
  <2>2. before = [count |-> last, treasury |-> there, rate |-> rates]
    BY <2>1 DEF After
  <2>3. there[k] = IF k = last THEN Default ELSE team_treasury[k]
    BY <1>1, <1>5, <2>1, TeamTypeOK DEF Closed, TeamTypeOK
  <2> HIDE DEF there, rates, before
  <2>4. CASE k = last /\ address = Default
    <3>1. k + 1 = team_count /\ ~ (k < last - 1)
      BY <1>1, <2>4 DEF Slots
    <3>2. RemoveBody(address, k, before)
            = [count |-> last - 1, treasury |-> there, rate |-> rates]
      BY <2>2, <2>3, <2>4, <3>1 DEF RemoveBody
    <3>3. After(r, address, k + 1)
            = [count |-> last - 1, treasury |-> there, rate |-> rates]
      BY <2>1, <2>4, <3>1 DEF After, there, rates
    <3> QED BY <3>2, <3>3 DEF before
  <2>5. CASE ~ (k = last /\ address = Default)
    <3>1. there[k] # address
      BY <1>2, <1>5, <2>3, <2>5, <1>1 DEF Slots
    <3>2. RemoveBody(address, k, before) = before
      BY <2>2, <3>1 DEF RemoveBody
    <3>3. ~ (r < last /\ address = Default /\ k + 1 = team_count)
      BY <1>1, <2>5 DEF Slots
    <3>4. After(r, address, k + 1)
            = [count |-> last, treasury |-> there, rate |-> rates]
      BY <2>1, <3>3 DEF After, there, rates
    <3> QED BY <2>2, <3>2, <3>4 DEF before
  <2> QED BY <2>4, <2>5
<1> QED BY <1>1, <1>3, <1>4, <1>5 DEF Slots

\* There are such iterations, and whatever their result is, it is the closed form: the
\* table has at most eight places, so the argument goes through them one by one.
LEMMA LoopResult ==
    ASSUME TeamTypeOK, TeamDistinct, NEW address, NEW r \in LiveSlots,
           team_treasury[r] = address
    PROVE  RemoveLoop(address) = After(r, address, team_count)
<1>1. team_count \in 0..8 /\ r \in Nat
  BY TeamAssumption DEF TeamTypeOK, LiveSlots, Slots
<1>2. After(r, address, 0) = LoopStart
  BY <1>1 DEF After
<1>3. \E g : IsLoop(g, address)
  <2> DEFINE g == [i \in 0..team_count |-> After(r, address, i)]
  <2>1. ASSUME NEW i \in 0..team_count
        PROVE  g[i] = IF i = 0 THEN LoopStart ELSE RemoveBody(address, i - 1, g[i - 1])
    <3>1. CASE i = 0
      BY <1>2, <3>1
    <3>2. CASE i # 0
      <4>1. i - 1 \in 0..team_count - 1 /\ i - 1 \in 0..team_count /\ (i - 1) + 1 = i
        BY <1>1, <3>2
      <4>2. RemoveBody(address, i - 1, After(r, address, i - 1))
              = After(r, address, (i - 1) + 1)
        BY <4>1, AfterStep
      <4> QED BY <3>2, <4>1, <4>2
    <3> QED BY <3>1, <3>2
  <2>2. g = [i \in 0..team_count |-> g[i]]
    OBVIOUS
  <2> HIDE DEF g
  <2>3. IsLoop(g, address)
    BY <2>1, <2>2 DEF IsLoop
  <2> QED BY <2>3
<1>4. PICK g : IsLoop(g, address) /\ RemoveLoop(address) = g[team_count]
  <2> DEFINE c == CHOOSE h : IsLoop(h, address)
  <2>1. IsLoop(c, address)
    BY <1>3
  <2> QED BY <2>1, LoopIsChosen
<1>5. ASSUME NEW i \in 0..team_count
      PROVE  g[i] = IF i = 0 THEN LoopStart ELSE RemoveBody(address, i - 1, g[i - 1])
  BY <1>4 DEF IsLoop
<1>6. ASSUME NEW k \in 0..7, k < team_count, g[k] = After(r, address, k)
      PROVE  g[k + 1] = After(r, address, k + 1)
  <2>1. k \in 0..team_count - 1 /\ k + 1 \in 0..team_count /\ k + 1 # 0 /\ (k + 1) - 1 = k
    BY <1>1, <1>6
  <2>2. g[k + 1] = RemoveBody(address, k, g[k])
    BY <1>5, <2>1
  <2> QED BY <1>6, <2>1, <2>2, AfterStep
<1> DEFINE Agrees(k) == k <= team_count => g[k] = After(r, address, k)
<1>7. Agrees(0)
  BY <1>1, <1>2, <1>5
<1>8. ASSUME NEW k \in 0..7, Agrees(k) PROVE Agrees(k + 1)
  BY <1>1, <1>6, <1>8
<1> HIDE DEF Agrees
<1>9. /\ Agrees(1) /\ Agrees(2) /\ Agrees(3) /\ Agrees(4)
      /\ Agrees(5) /\ Agrees(6) /\ Agrees(7) /\ Agrees(8)
  <2>1. Agrees(0 + 1)
    BY <1>7, <1>8
  <2>2. Agrees(1 + 1)
    BY <2>1, <1>8
  <2>3. Agrees(2 + 1)
    BY <2>2, <1>8
  <2>4. Agrees(3 + 1)
    BY <2>3, <1>8
  <2>5. Agrees(4 + 1)
    BY <2>4, <1>8
  <2>6. Agrees(5 + 1)
    BY <2>5, <1>8
  <2>7. Agrees(6 + 1)
    BY <2>6, <1>8
  <2>8. Agrees(7 + 1)
    BY <2>7, <1>8
  <2> QED BY <2>1, <2>2, <2>3, <2>4, <2>5, <2>6, <2>7, <2>8
<1>10. Agrees(team_count)
  BY <1>1, <1>7, <1>9
<1> QED BY <1>1, <1>4, <1>10 DEF Agrees

\* In every behaviour of the global pool, for any wallets, rates and sizes of the table:
\* a removal leaves what the loop of the code leaves, also when the address is the
\* default key and the loop meets the place that it has just cleared.
THEOREM RemovalIsLoop == TeamSpec => RemoveMatchesLoop
<1> DEFINE Matches ==
             \A address \in Treasuries, admin \in Admins :
                RemoveTeamTreasury(admin, address)
                  => RemoveLoop(address) = [count    |-> team_count',
                                            treasury |-> team_treasury',
                                            rate     |-> treasury_rate']
<1>1. TeamTypeOK /\ TeamWellFormed => Matches
  <2> SUFFICES ASSUME TeamTypeOK, TeamDistinct,
                      NEW address \in Treasuries, NEW admin \in Admins,
                      RemoveTeamTreasury(admin, address)
               PROVE  RemoveLoop(address) = [count    |-> team_count',
                                             treasury |-> team_treasury',
                                             rate     |-> treasury_rate']
    BY DEF TeamWellFormed
  <2>1. PICK r \in LiveSlots : RemovesAt(r, address)
    BY DEF RemoveTeamTreasury, RemovesAt
  <2>2. /\ team_treasury[r] = address
        /\ team_treasury' = Closed(team_treasury, r, Default)
        /\ treasury_rate' = Closed(treasury_rate, r, 0)
        /\ team_count' = IF r < team_count - 1 /\ address = Default
                         THEN team_count - 1 - 1 ELSE team_count - 1
    BY <2>1 DEF RemovesAt, Closed
  <2>3. RemoveLoop(address) = After(r, address, team_count)
    BY <2>2, LoopResult
  <2>4. ~ (team_count <= r)
    BY TeamAssumption DEF TeamTypeOK, LiveSlots, Slots
  <2> QED BY <2>2, <2>3, <2>4 DEF After
<1>2. [](TeamTypeOK /\ TeamWellFormed) /\ [][TeamNext]_globalVars => [][Matches]_globalVars
  BY <1>1, PTL
<1>3. TeamSpec => [][Matches]_globalVars
  BY <1>2, TeamTypeCorrect, TeamAlwaysWellFormed, PTL DEF TeamSpec
<1> QED BY <1>3 DEF RemoveMatchesLoop
=============================================================================
