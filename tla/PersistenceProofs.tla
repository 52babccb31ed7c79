------------------------- MODULE PersistenceProofs --------------------------
(***************************************************************************)
(* Proofs about the stick's network tasks.  The flash holds the settings   *)
(* in use whenever the store task is done, for any topics, manifests,      *)
(* flash errors and resets; what the stick shows and announces as its      *)
(* address is the one it has leased, for any addresses and outages; and    *)
(* what is saved from the setup form is what was typed into it, for any    *)
(* values and however TCP delivers the request.                            *)
(***************************************************************************)
EXTENDS Persistence, Integers, Sequences, SequenceTheorems, NaturalsInduction,
        WellFoundedInduction, TLAPS

CONSTANTS Addresses, MaxEvents,
          Ssids, Passwords, Hostnames, EnteredTopics, MaxName, MaxPassword, MaxTopic, MaxRequest

VARIABLES server, form, wire, request, ended, answer, saved,
          reachable, controller, config_v4, tracker, station_ipv4, STATION_IPV4, mdns, announced,
          joined, events

Setup == INSTANCE SetupForm WITH at <- server, Topics <- EnteredTopics
Wifi == INSTANCE Station WITH serving <- joined

-----------------------------------------------------------------------------
(* The settings.                                                           *)

\* What Store::load takes for no record at all.
LEMMA BlankRecord == Blank \in Records /\ Blank.topic = NoTopic
  BY DEF Blank, Settings, Records

\* A factory-new stick, waiting in provisioning mode, satisfies the invariant.
LEMMA InitPersistence == Init => PersistenceInv
<1> SUFFICES ASSUME Init PROVE PersistenceInv
  OBVIOUS
<1>1. TypeOK
  BY SettingsAssumption, BlankRecord DEF Init, TypeOK
<1> QED
  BY <1>1 DEF Init, PersistenceInv, StateFollowed

\* network::start takes STATE and the store task's settings from one record.
LEMMA BootStep ==
    ASSUME PersistenceInv, NEW force \in BOOLEAN, Boot(force), UNCHANGED flash,
           resets' \in Nat, errors' \in Nat
    PROVE  PersistenceInv'
  BY SettingsAssumption
  DEF PersistenceInv, TypeOK, Records, StateFollowed, Boot, Blank, Settings

\* Store::save leaves the task idle with a failed save, or writing over a blank
\* sector.
LEMMA SaveStep ==
    ASSUME PersistenceInv, at = "idle",
           NEW topic \in Topics, NEW net \in Manifests \cup {NoManifest}, Save(topic, net)
    PROVE  /\ provisioning' = topic /\ network' = net
           /\ flash' \in Records /\ (flash'.topic = NoTopic => flash' = Blank)
           /\ errors' \in Nat
           /\ last_save' \in {"done", "failed"}
           /\ \/ at' = "writing"
              \/ at' = "idle" /\ last_save' = "failed"
<1>1. flash' \in {flash, Blank}
  BY DEF Save
<1>2. flash' \in Records /\ (flash'.topic = NoTopic => flash' = Blank)
  BY <1>1, BlankRecord DEF PersistenceInv, TypeOK
<1> QED
  BY <1>2 DEF PersistenceInv, TypeOK, Save, FlashError

\* Every step of the stick's tasks keeps STATE, the channels, the store task and
\* the flash in agreement.
LEMMA PersistenceStep == PersistenceInv /\ [Next]_vars => PersistenceInv'
<1> SUFFICES ASSUME PersistenceInv, [Next]_vars
             PROVE  PersistenceInv'
  OBVIOUS
<1> USE SettingsAssumption
<1>1. ASSUME NEW force \in BOOLEAN, PowerLoss(force)
      PROVE  PersistenceInv'
  <2>1. resets' \in Nat /\ errors' \in Nat
    BY <1>1 DEF PersistenceInv, TypeOK, PowerLoss
  <2> QED  BY <1>1, <2>1, BootStep DEF PowerLoss
<1>2. ASSUME NEW force \in BOOLEAN, Restart(force)
      PROVE  PersistenceInv'
  <2>1. resets' \in Nat /\ errors' \in Nat
    BY <1>2 DEF PersistenceInv, TypeOK, Restart
  <2> QED  BY <1>2, <2>1, BootStep DEF Restart
<1>3. CASE WriteRecord
  BY <1>3
  DEF PersistenceInv, TypeOK, StateFollowed, WriteRecord, FlashError, Records, Settings,
      Blank, stateVars
<1>4. CASE Bind
  BY <1>4 DEF PersistenceInv, TypeOK, StateFollowed, Bind, Settings, Blank, storeVars
<1>5. CASE StoreManifest
  <2>1. provisioning \in Topics /\ MANIFESTS \in Manifests /\ at = "idle"
    BY <1>5 DEF PersistenceInv, TypeOK, StateFollowed, StoreManifest
  <2>2. Save(provisioning, MANIFESTS)
    BY <1>5 DEF StoreManifest
  <2>3. /\ provisioning' = provisioning /\ network' = MANIFESTS
        /\ flash' \in Records /\ (flash'.topic = NoTopic => flash' = Blank)
        /\ errors' \in Nat
        /\ last_save' \in {"done", "failed"}
        /\ at' = "writing" \/ (at' = "idle" /\ last_save' = "failed")
    BY <2>1, <2>2, SaveStep
  <2>4. TypeOK'
    BY <1>5, <2>1, <2>3 DEF PersistenceInv, TypeOK, StoreManifest
  <2>5. StateFollowed'
    BY <1>5, <2>1, <2>3 DEF PersistenceInv, TypeOK, StateFollowed, StoreManifest
  <2> QED
    BY <1>5, <2>1, <2>3, <2>4, <2>5 DEF PersistenceInv, StoreManifest
<1>6. CASE StoreTopic
  <2>1. /\ TOPIC_UPDATES \in Topics /\ network \in Manifests \cup {NoManifest} /\ at = "idle"
        /\ TopicToSave(TOPIC_UPDATES) = TOPIC_UPDATES
    BY <1>6 DEF PersistenceInv, TypeOK, StoreTopic, TopicToSave
  <2>2. Save(TOPIC_UPDATES, network)
    BY <1>6, <2>1 DEF StoreTopic
  <2>3. /\ provisioning' = TOPIC_UPDATES /\ network' = network
        /\ flash' \in Records /\ (flash'.topic = NoTopic => flash' = Blank)
        /\ errors' \in Nat
        /\ last_save' \in {"done", "failed"}
        /\ at' = "writing" \/ (at' = "idle" /\ last_save' = "failed")
    BY <2>1, <2>2, SaveStep
  <2>4. TypeOK'
    BY <1>6, <2>1, <2>3 DEF PersistenceInv, TypeOK, StoreTopic
  <2>5. StateFollowed'
    BY <1>6, <2>1, <2>3 DEF PersistenceInv, TypeOK, StateFollowed, StoreTopic
  <2> QED
    BY <1>6, <2>1, <2>3, <2>4, <2>5 DEF PersistenceInv, StoreTopic
<1>7. ASSUME NEW topic \in Topics, Configure(topic)
      PROVE  PersistenceInv'
  <2>1. at = "idle" /\ Save(topic, NoManifest)
    BY <1>7 DEF Configure
  <2>2. /\ provisioning' = topic /\ network' = NoManifest
        /\ flash' \in Records /\ (flash'.topic = NoTopic => flash' = Blank)
        /\ errors' \in Nat
        /\ last_save' \in {"done", "failed"}
        /\ at' = "writing" \/ (at' = "idle" /\ last_save' = "failed")
    BY <2>1, SaveStep
  <2>4. TypeOK'
    BY <1>7, <2>2 DEF PersistenceInv, TypeOK, Configure, stateVars
  <2>5. StateFollowed'
    BY <1>7, <2>2 DEF PersistenceInv, TypeOK, StateFollowed, Configure, stateVars
  <2> QED
    BY <1>7, <2>2, <2>4, <2>5 DEF PersistenceInv, Configure, stateVars
<1>8. ASSUME NEW topic \in Topics, Regenerate(topic)
      PROVE  PersistenceInv'
  BY <1>8
  DEF PersistenceInv, TypeOK, StateFollowed, Regenerate, Latest, Settings, Blank, storeVars
<1>9. ASSUME NEW m \in Manifests, UpdateManifest(m)
      PROVE  PersistenceInv'
  BY <1>9
  DEF PersistenceInv, TypeOK, StateFollowed, UpdateManifest, Latest, Settings, Blank, storeVars
<1>10. CASE UNCHANGED vars
  BY <1>10
  DEF PersistenceInv, TypeOK, StateFollowed, Settings, Blank, vars, stateVars, storeVars
<1> QED  BY <1>1, <1>2, <1>3, <1>4, <1>5, <1>6, <1>7, <1>8, <1>9, <1>10 DEF Next

\* STATE, the channels, manifest_store's own copies and the flash always agree.
THEOREM PersistenceInvariant == Spec => []PersistenceInv
<1> QED  BY InitPersistence, PersistenceStep, PTL DEF Spec

\* Once manifest_store has drained its channels and its last save went through,
\* a restart finds exactly the topic and the manifest that were in use.
THEOREM SettingsAreSaved == Spec => []SettingsSaved
<1>1. PersistenceInv => SettingsSaved
  BY DEF PersistenceInv, StateFollowed, SettingsSaved, Settled, Settings
<1> QED  BY <1>1, PersistenceInvariant, PTL

-----------------------------------------------------------------------------
(* The address.                                                            *)

\* address_tracker waits for the configuration to change from what it has seen.
Tracked == tracker = IF Wifi!Up THEN "down" ELSE "up"

\* What address_tracker has seen last is what it has passed on.
TrackedShown == Tracked => station_ipv4 = config_v4 /\ STATION_IPV4 = config_v4

\* Only a responder that runs answers, and while the stick has an address with that one.
RunningAnswers ==
    /\ announced # Wifi!None => mdns = "running"
    /\ mdns = "running" /\ Wifi!Up => announced = config_v4

\* The events the stack has left are a number.
WifiInv == Wifi!TypeOK /\ events \in Nat /\ TrackedShown /\ RunningAnswers

\* The stick starts without an address, and shows and announces none.
LEMMA InitWifi == ASSUME Wifi!StationAssumption PROVE Wifi!Init => WifiInv
BY DEF Wifi!StationAssumption, Wifi!Init, WifiInv, Wifi!TypeOK, TrackedShown, Tracked,
       RunningAnswers, Wifi!Up, Wifi!None

\* The tasks pass on the address of the configuration.
LEMMA TasksKeepInv ==
    ASSUME Wifi!StationAssumption, WifiInv,
           \/ Wifi!Tracks \/ Wifi!MdnsStarts \/ Wifi!MdnsEnds \/ Wifi!MdnsFails
           \/ Wifi!MdnsTimer \/ Wifi!HttpStarts
    PROVE  WifiInv'
<1> USE DEF WifiInv, Wifi!TypeOK, TrackedShown, Tracked, RunningAnswers, Wifi!Up, Wifi!None
<1>1. CASE Wifi!Tracks
  BY <1>1 DEF Wifi!Tracks, Wifi!LcdAddress
<1>2. CASE Wifi!MdnsStarts
  BY <1>2 DEF Wifi!MdnsStarts
<1>3. CASE Wifi!MdnsEnds
  BY <1>3 DEF Wifi!MdnsEnds
<1>4. CASE Wifi!MdnsFails
  BY <1>4 DEF Wifi!MdnsFails
<1>5. CASE Wifi!MdnsTimer
  BY <1>5 DEF Wifi!MdnsTimer
<1>6. CASE Wifi!HttpStarts
  BY <1>6 DEF Wifi!HttpStarts
<1> QED BY <1>1, <1>2, <1>3, <1>4, <1>5, <1>6

\* The network changes the configuration only when the tasks have dealt with the last
\* change, so that the tracker waits for this one and the responder is not behind.
LEMMA NetworkKeepsInv ==
    ASSUME Wifi!StationAssumption, WifiInv,
           \/ Wifi!Connect \/ Wifi!Disconnect \/ Wifi!RetryTimer \/ Wifi!Leases
           \/ Wifi!LosesLease \/ Wifi!AccessPointChanges
    PROVE  WifiInv'
<1> USE DEF WifiInv, Wifi!TypeOK, TrackedShown, Tracked, RunningAnswers, Wifi!Up, Wifi!None,
            Wifi!taskVars
<1>1. CASE Wifi!Connect
  BY <1>1 DEF Wifi!Connect
<1>2. CASE Wifi!Disconnect
  BY <1>2 DEF Wifi!Disconnect, Wifi!Settled, Wifi!AfterDisconnect
<1>3. CASE Wifi!RetryTimer
  BY <1>3 DEF Wifi!RetryTimer
<1>4. CASE Wifi!Leases
  BY <1>4 DEF Wifi!Leases, Wifi!Settled, Wifi!MdnsLosesConfig, Wifi!StationAssumption
<1>5. CASE Wifi!LosesLease
  BY <1>5 DEF Wifi!LosesLease, Wifi!Settled
<1>6. CASE Wifi!AccessPointChanges
  BY <1>6 DEF Wifi!AccessPointChanges
<1> QED BY <1>1, <1>2, <1>3, <1>4, <1>5, <1>6

\* When the tasks have run, the LCD and the web page show the address the stick has, or
\* none, and mDNS never goes on answering with an address it no longer has.
THEOREM AddressIsCurrent ==
    ASSUME Wifi!StationAssumption
    PROVE  Wifi!Spec => [](Wifi!TypeOK /\ Wifi!AddressCurrent /\ Wifi!AnnouncesCurrent)
<1>1. WifiInv /\ [Wifi!Next]_(Wifi!vars) => WifiInv'
  <2> SUFFICES ASSUME WifiInv, [Wifi!Next]_(Wifi!vars) PROVE WifiInv'
    OBVIOUS
  <2>1. CASE UNCHANGED Wifi!vars
    BY <2>1 DEF Wifi!vars, Wifi!taskVars, WifiInv, Wifi!TypeOK, TrackedShown, Tracked,
                RunningAnswers, Wifi!Up, Wifi!None
  <2>2. CASE Wifi!Next
    BY <2>2, TasksKeepInv, NetworkKeepsInv DEF Wifi!Next
  <2> QED BY <2>1, <2>2
<1>2. WifiInv => Wifi!TypeOK /\ Wifi!AddressCurrent /\ Wifi!AnnouncesCurrent
  BY DEF WifiInv, TrackedShown, Tracked, RunningAnswers, Wifi!AddressCurrent,
         Wifi!AnnouncesCurrent, Wifi!Settled, Wifi!MdnsLosesConfig, Wifi!Up, Wifi!None
<1> QED BY <1>1, <1>2, InitWifi, PTL DEF Wifi!Spec

-----------------------------------------------------------------------------
(* Recursive functions.  What is encoded and decoded byte by byte is a     *)
(* recursive function; that it exists, and induction over it, come from    *)
(* the least element of a set of numbers.                                  *)

\* A set of numbers with an element has a least one.
LEMMA Least ==
    ASSUME NEW T, T \subseteq Nat, T # {}
    PROVE  \E x \in T : \A y \in T : x <= y
<1>1. \E R : IsWellFoundedOn(R, Nat) /\ \A x, y \in Nat : <<y, x>> \in R <=> y < x
  <2> DEFINE Q == OpToRel(<, Nat)
  <2>1. IsWellFoundedOn(Q, Nat)
    BY NatLessThanWellFounded
  <2>2. \A x, y \in Nat : <<y, x>> \in Q <=> y < x
    BY DEF OpToRel
  <2> HIDE DEF Q
  <2> QED BY <2>1, <2>2
<1>2. PICK R : IsWellFoundedOn(R, Nat) /\ \A x, y \in Nat : <<y, x>> \in R <=> y < x
  BY <1>1
<1>3. \E x \in T : \A y \in T : ~(<<y, x>> \in R)
  BY <1>2, WFMin
<1>4. PICK x \in T : \A y \in T : ~(<<y, x>> \in R)
  BY <1>3
<1>5. ASSUME NEW y \in T PROVE x <= y
  <2>1. ~(y < x) /\ x \in Nat /\ y \in Nat
    BY <1>2, <1>4
  <2> QED BY <2>1
<1> QED BY <1>5

\* So a set of numbers with 0 and every successor holds them all.
LEMMA Induction ==
    ASSUME NEW End \in Nat, NEW T, 0 \in T, \A n \in 0..End : n > 0 /\ n - 1 \in T => n \in T
    PROVE  0..End \subseteq T
<1> DEFINE D == {n \in 0..End : n \notin T}
<1>1. SUFFICES ASSUME D # {} PROVE FALSE
  OBVIOUS
<1>2. D \subseteq Nat
  OBVIOUS
<1>3. PICK n \in D : \A k \in D : n <= k
  <2> HIDE DEF D
  <2> QED BY <1>1, <1>2, Least
<1>4. n \in 0..End /\ n \notin T /\ n # 0
  OBVIOUS
<1>5. n - 1 \in 0..End /\ ~(n <= n - 1)
  BY <1>4
<1>6. n - 1 \in T
  BY <1>3, <1>5
<1> QED BY <1>4, <1>6

\* A function over 0..End is defined by its first value and by the step from each value to
\* the next, here the function g.
Recurs(f, End, V, base, g) ==
    f \in [0..End -> V] /\ f[0] = base /\ \A k \in 1..End : f[k] = g[k][f[k - 1]]

\* There is such a function.
LEMMA Recursion ==
    ASSUME NEW End \in Nat, NEW V, NEW base \in V, NEW g \in [1..End -> [V -> V]]
    PROVE  \E f : Recurs(f, End, V, base, g)
<1> DEFINE Fits(f, m) == f[0] = base /\ \A k \in 1..m : f[k] = g[k][f[k - 1]]
           T == {m \in 0..End : \E f \in [0..m -> V] : Fits(f, m)}
<1>1. 0 \in T
  <2> DEFINE f == [k \in 0..0 |-> base]
  <2>1. f \in [0..0 -> V] /\ Fits(f, 0)
    OBVIOUS
  <2> HIDE DEF f, Fits
  <2> QED BY <2>1
<1>2. ASSUME NEW m \in 0..End, m > 0, m - 1 \in T
      PROVE  m \in T
  <2>1. PICK f \in [0..(m - 1) -> V] : Fits(f, m - 1)
    BY <1>2
  <2> DEFINE h == [k \in 0..m |-> IF k = m THEN g[m][f[m - 1]] ELSE f[k]]
  <2>2. m \in 1..End /\ m - 1 \in 0..(m - 1) /\ f[m - 1] \in V
    BY <1>2, <2>1
  <2>3. g[m][f[m - 1]] \in V
    BY <2>2
  <2>4. h \in [0..m -> V]
    BY <2>3, <2>1
  <2>5. h[0] = base
    BY <2>1, <1>2
  <2>6. ASSUME NEW k \in 1..m PROVE h[k] = g[k][h[k - 1]]
    <3>1. k - 1 \in 0..m /\ k - 1 # m /\ h[k - 1] = f[k - 1] /\ k \in 0..m
      BY <1>2
    <3>2. CASE k = m
      BY <3>1, <3>2
    <3>3. CASE k # m
      <4>1. k \in 1..(m - 1) /\ h[k] = f[k]
        BY <3>3, <3>1, <1>2
      <4> QED BY <4>1, <3>1, <2>1
    <3> QED BY <3>2, <3>3
  <2> HIDE DEF h
  <2>7. Fits(h, m)
    BY <2>5, <2>6
  <2> HIDE DEF Fits
  <2> QED BY <2>4, <2>7
<1> HIDE DEF T
<1>3. 0..End \subseteq T
  BY <1>1, <1>2, Induction
<1>4. End \in T
  BY <1>3
<1>5. PICK f \in [0..End -> V] : Fits(f, End)
  BY <1>4 DEF T
<1>6. Recurs(f, End, V, base, g)
  BY <1>5 DEF Recurs
<1> QED BY <1>6

-----------------------------------------------------------------------------
(* The setup form.                                                         *)

\* The tokens of an encoded value: neither a separator nor a name is one.
Plain == Setup!Alphanumeric \cup {"-", "_", "+", "%"} \cup Setup!HexDigit

\* An escape stands for one byte.
LEMMA HexBytes ==
    \A b \in DOMAIN Setup!Hex :
       \E high, low \in Setup!HexDigit : Setup!Hex[b] = <<high, low>> /\ Setup!ByteOf(<<high, low>>) = b
<1> DEFINE Special == {"!", "%", "&", "+", "=", "xC3", "xA9"}
<1>1. DOMAIN Setup!Hex = Special
  BY DEF Setup!Hex
<1>2. /\ Setup!Hex["!"] = <<"2", "1">> /\ Setup!Hex["%"] = <<"2", "5">>
      /\ Setup!Hex["&"] = <<"2", "6">> /\ Setup!Hex["+"] = <<"2", "B">>
      /\ Setup!Hex["="] = <<"3", "D">> /\ Setup!Hex["xC3"] = <<"C", "3">>
      /\ Setup!Hex["xA9"] = <<"A", "9">>
  BY DEF Setup!Hex
<1>3. ASSUME NEW b \in Special PROVE \E high, low \in Setup!HexDigit : Setup!Hex[b] = <<high, low>>
  BY <1>2 DEF Setup!HexDigit
<1>4. \A b, c \in Special : Setup!Hex[b] = Setup!Hex[c] => b = c
  BY <1>2
<1>5. ASSUME NEW b \in Special PROVE Setup!ByteOf(Setup!Hex[b]) = b
  <2> HIDE DEF Special
  <2> QED BY <1>1, <1>4 DEF Setup!ByteOf
<1> HIDE DEF Special
<1> QED BY <1>1, <1>3, <1>5

\* What becomes of two sequences that are joined.
LEMMA Joined ==
    ASSUME NEW S, NEW s \in Seq(S), NEW t \in Seq(S), NEW st, st = s \o t
    PROVE  /\ st \in Seq(S) /\ Len(st) = Len(s) + Len(t)
           /\ \A i \in 1..Len(s) : st[i] = s[i]
           /\ \A i \in 1..Len(t) : st[Len(s) + i] = t[i]
<1>1. /\ st \in Seq(S) /\ Len(st) = Len(s) + Len(t)
      /\ \A i \in 1..Len(s) + Len(t) : st[i] = IF i <= Len(s) THEN s[i] ELSE t[i - Len(s)]
  BY ConcatProperties
<1>2. Len(s) \in Nat /\ Len(t) \in Nat
  OBVIOUS
<1>3. \A i \in 1..Len(s) : st[i] = s[i]
  BY <1>1, <1>2
<1>4. ASSUME NEW i \in 1..Len(t) PROVE st[Len(s) + i] = t[i]
  <2>1. Len(s) + i \in 1..Len(s) + Len(t) /\ ~(Len(s) + i <= Len(s)) /\ Len(s) + i - Len(s) = i
    BY <1>2
  <2> QED BY <1>1, <2>1
<1> QED BY <1>1, <1>3, <1>4

\* A sequence of one element.
LEMMA Single ==
    ASSUME NEW S, NEW a \in S, NEW w, w = <<a>>
    PROVE  w \in Seq(S) /\ Len(w) = 1 /\ w[1] = a
OBVIOUS

\* The same for two.
LEMMA Pair ==
    ASSUME NEW S, NEW a \in S, NEW b \in S, NEW w, w = <<a, b>>
    PROVE  w \in Seq(S) /\ Len(w) = 2 /\ w[1] = a /\ w[2] = b
OBVIOUS

\* What stands for the byte b: an escape, or one token.
StandsFor(w, b) ==
    \/ Len(w) = 1 /\ b = " " /\ w[1] = "+"
    \/ Len(w) = 1 /\ b \notin {"+", "%"} /\ w[1] = b
    \/ /\ Len(w) = 3 /\ w[1] = "%" /\ w[2] \in Setup!HexDigit /\ w[3] \in Setup!HexDigit
       /\ Setup!ByteOf(<<w[2], w[3]>>) = b

\* How the browser writes a byte.
LEMMA EscapedIs ==
    ASSUME NEW b \in Setup!Bytes
    PROVE  Setup!Escaped(b) \in Seq(Plain) /\ StandsFor(Setup!Escaped(b), b)
<1>0. DOMAIN Setup!Hex = {"!", "%", "&", "+", "=", "xC3", "xA9"}
  BY DEF Setup!Hex
<1>1. CASE b = " "
  <2>1. Setup!Escaped(b) = <<"+">>
    BY <1>1 DEF Setup!Escaped
  <2>2. "+" \in Plain
    BY DEF Plain
  <2> HIDE DEF Plain
  <2>3. <<"+">> \in Seq(Plain) /\ Len(<<"+">>) = 1 /\ <<"+">>[1] = "+"
    BY <2>2, Single
  <2> QED BY <1>1, <2>1, <2>3 DEF StandsFor
<1>2. CASE b \in DOMAIN Setup!Hex
  <2>1. PICK high \in Setup!HexDigit, low \in Setup!HexDigit :
          Setup!Hex[b] = <<high, low>> /\ Setup!ByteOf(<<high, low>>) = b
    BY <1>2, HexBytes
  <2>2. Setup!Escaped(b) = <<"%">> \o <<high, low>>
    BY <1>0, <1>2, <2>1 DEF Setup!Escaped
  <2>3. "%" \in Plain /\ high \in Plain /\ low \in Plain
    BY DEF Plain
  <2>4. PICK first, pair, w : first = <<"%">> /\ pair = <<high, low>> /\ w = first \o pair
    OBVIOUS
  <2> HIDE DEF Plain
  <2>5. /\ first \in Seq(Plain) /\ Len(first) = 1 /\ first[1] = "%"
        /\ pair \in Seq(Plain) /\ Len(pair) = 2 /\ pair[1] = high /\ pair[2] = low
    BY <2>3, <2>4, Single, Pair
  <2>6. /\ w \in Seq(Plain) /\ Len(w) = Len(first) + Len(pair)
        /\ \A i \in 1..Len(first) : w[i] = first[i]
        /\ \A i \in 1..Len(pair) : w[Len(first) + i] = pair[i]
    BY <2>4, <2>5, Joined
  <2>7. Len(w) = 3 /\ w[1] = "%" /\ w[2] = high /\ w[3] = low
    <3>1. w[Len(first) + 1] = pair[1] /\ w[Len(first) + 2] = pair[2] /\ w[1] = first[1]
      BY <2>4, <2>5, <2>6
    <3> QED BY <2>4, <2>5, <2>6, <3>1
  <2>8. Setup!Escaped(b) = w
    BY <2>2, <2>4, Zenon
  <2> QED BY <2>1, <2>6, <2>7, <2>8 DEF StandsFor
<1>3. CASE b # " " /\ b \notin DOMAIN Setup!Hex
  <2>1. Setup!Escaped(b) = <<b>>
    BY <1>3 DEF Setup!Escaped
  <2>2. b \in Plain
    BY <1>3 DEF Setup!Bytes, Plain
  <2>3. <<b>> \in Seq(Plain) /\ Len(<<b>>) = 1 /\ <<b>>[1] = b
    <3> HIDE DEF Plain
    <3> QED BY <2>2, Single
  <2> QED BY <1>0, <1>3, <2>1, <2>3 DEF StandsFor
<1> QED BY <1>1, <1>2, <1>3

\* e[n] is what the first n bytes of v are encoded as.
Encodes(e, v) ==
    /\ e \in [0..Len(v) -> Seq(Plain)]
    /\ e[0] = <<>>
    /\ \A n \in 1..Len(v) : e[n] = e[n - 1] \o Setup!Escaped(v[n])
    /\ Setup!Encoded(v) = e[Len(v)]

\* There is such an e.
LEMMA EncodedIs ==
    ASSUME NEW v \in Seq(Setup!Bytes)
    PROVE  \E e : Encodes(e, v)
<1> DEFINE End == Len(v)
           g == [n \in 1..End |-> [s \in Seq(Plain) |-> s \o Setup!Escaped(v[n])]]
           Is(f) == f = [n \in 0..End |-> IF n = 0 THEN <<>> ELSE f[n - 1] \o Setup!Escaped(v[n])]
           h == CHOOSE f : Is(f)
<1>1. End \in Nat /\ <<>> \in Seq(Plain)
  OBVIOUS
<1>2. ASSUME NEW n \in 1..End PROVE Setup!Escaped(v[n]) \in Seq(Plain)
  <2>1. v[n] \in Setup!Bytes
    OBVIOUS
  <2> QED BY <2>1, EscapedIs
<1>3. g \in [1..End -> [Seq(Plain) -> Seq(Plain)]]
  <2>1. ASSUME NEW n \in 1..End, NEW s \in Seq(Plain) PROVE s \o Setup!Escaped(v[n]) \in Seq(Plain)
    <3> HIDE DEF Plain
    <3> QED BY <1>2, <2>1, Joined
  <2> HIDE DEF End
  <2> QED BY <2>1
<1>4. PICK f : Recurs(f, End, Seq(Plain), <<>>, g)
  <2> HIDE DEF g, End
  <2> QED BY <1>1, <1>3, Recursion
<1>5. f \in [0..End -> Seq(Plain)] /\ f[0] = <<>> /\ \A n \in 1..End : f[n] = g[n][f[n - 1]]
  BY <1>4 DEF Recurs
<1>6. ASSUME NEW n \in 1..End PROVE f[n] = f[n - 1] \o Setup!Escaped(v[n])
  <2> DEFINE m == n - 1
  <2>1. m \in 0..End
    BY <1>1
  <2> HIDE DEF m, End
  <2>2. f[m] \in Seq(Plain)
    BY <1>5, <2>1
  <2>3. f[n] = g[n][f[m]]
    BY <1>5 DEF m
  <2>4. g[n][f[m]] = f[m] \o Setup!Escaped(v[n])
    BY <2>2
  <2> QED BY <2>3, <2>4 DEF m
<1>7. Is(f)
  <2> HIDE DEF End, g
  <2>1. f = [n \in 0..End |-> f[n]]
    BY <1>5
  <2>2. ASSUME NEW n \in 0..End
        PROVE  f[n] = IF n = 0 THEN <<>> ELSE f[n - 1] \o Setup!Escaped(v[n])
    <3>1. CASE n = 0
      BY <1>5, <3>1
    <3>2. CASE n # 0
      <4>1. n \in 1..End
        BY <1>1, <3>2
      <4>2. f[n] = f[n - 1] \o Setup!Escaped(v[n])
        BY <1>6, <4>1
      <4> QED BY <3>2, <4>2, Zenon
    <3> QED BY <3>1, <3>2
  <2> QED BY <2>1, <2>2
<1>8. Is(h)
  <2> HIDE DEF Is
  <2> QED BY <1>7
<1>9. Setup!Encoded(v) = h[Len(v)]
  BY DEF Setup!Encoded
<1> HIDE DEF h, g
<1>10. h = [n \in 0..End |-> IF n = 0 THEN <<>> ELSE h[n - 1] \o Setup!Escaped(v[n])]
  BY <1>8, Zenon
<1> HIDE DEF Is
<1>a. h[0] = <<>> /\ \A n \in 1..End : h[n] = h[n - 1] \o Setup!Escaped(v[n])
  <2> HIDE DEF End
  <2>1. ASSUME NEW n \in 0..End
        PROVE  h[n] = IF n = 0 THEN <<>> ELSE h[n - 1] \o Setup!Escaped(v[n])
    BY <1>10, Zenon
  <2>2. 0 \in 0..End /\ \A n \in 1..End : n \in 0..End /\ n # 0
    BY <1>1
  <2>3. h[0] = <<>>
    BY <2>1, <2>2, Zenon
  <2>4. ASSUME NEW n \in 1..End PROVE h[n] = h[n - 1] \o Setup!Escaped(v[n])
    BY <2>1, <2>2, Zenon
  <2> QED BY <2>3, <2>4
<1> DEFINE T == {n \in 0..End : h[n] \in Seq(Plain)}
<1>11. 0 \in T
  <2>1. 0 \in 0..End
    BY <1>1
  <2>2. h[0] \in Seq(Plain)
    BY <1>1, <1>a, Zenon
  <2> QED BY <2>1, <2>2
<1>12. ASSUME NEW n \in 0..End, n > 0, n - 1 \in T PROVE n \in T
  <2>1. n \in 1..End
    BY <1>12
  <2> DEFINE m == n - 1
  <2>2. h[n] = h[m] \o Setup!Escaped(v[n]) /\ h[m] \in Seq(Plain)
    BY <1>a, <1>12, <2>1
  <2> HIDE DEF m, Plain
  <2>3. h[n] \in Seq(Plain)
    BY <1>2, <2>1, <2>2, Joined
  <2> QED BY <2>3
<1> HIDE DEF T
<1>13. 0..End \subseteq T
  <2> HIDE DEF End
  <2> QED BY <1>1, <1>11, <1>12, Induction
<1>14. \A n \in 0..End : h[n] \in Seq(Plain)
  BY <1>13 DEF T
<1>15. h \in [0..End -> Seq(Plain)]
  <2> HIDE DEF End
  <2> QED BY <1>10, <1>14
<1> QED BY <1>9, <1>a, <1>15 DEF Encodes

\* Each byte adds what stands for it.
LEMMA EncodedStep ==
    ASSUME NEW v \in Seq(Setup!Bytes), NEW e, Encodes(e, v), NEW n \in 1..Len(v),
           NEW m \in 0..Len(v), n = m + 1
    PROVE  \E w \in Seq(Plain) :
             /\ StandsFor(w, v[n])
             /\ e[m] \in Seq(Plain) /\ e[n] \in Seq(Plain)
             /\ Len(e[n]) = Len(e[m]) + Len(w)
             /\ \A i \in 1..Len(e[m]) : e[n][i] = e[m][i]
             /\ \A i \in 1..Len(w) : e[n][Len(e[m]) + i] = w[i]
<1>1. v[n] \in Setup!Bytes /\ n - 1 = m
  OBVIOUS
<1>2. PICK w : w = Setup!Escaped(v[n])
  OBVIOUS
<1>3. w \in Seq(Plain) /\ StandsFor(w, v[n])
  BY <1>1, <1>2, EscapedIs
<1>4. e[n] = e[n - 1] \o w
  BY <1>2 DEF Encodes
<1>5. e[m] \in Seq(Plain)
  BY DEF Encodes
<1>6. PICK front, whole : front = e[m] /\ whole = e[n]
  OBVIOUS
<1>7. whole = front \o w /\ front \in Seq(Plain)
  BY <1>1, <1>4, <1>5, <1>6
<1>8. /\ whole \in Seq(Plain) /\ Len(whole) = Len(front) + Len(w)
      /\ \A i \in 1..Len(front) : whole[i] = front[i]
      /\ \A i \in 1..Len(w) : whole[Len(front) + i] = w[i]
  BY <1>3, <1>7, Joined
<1>9. /\ e[m] \in Seq(Plain) /\ e[n] \in Seq(Plain)
      /\ Len(e[n]) = Len(e[m]) + Len(w)
      /\ \A i \in 1..Len(e[m]) : e[n][i] = e[m][i]
      /\ \A i \in 1..Len(w) : e[n][Len(e[m]) + i] = w[i]
  BY <1>5, <1>6, <1>8
<1> QED BY <1>3, <1>9

\* What is encoded first stays in front, and takes a token or more for each byte.
LEMMA EncodedPrefix ==
    ASSUME NEW v \in Seq(Setup!Bytes), NEW e, Encodes(e, v), NEW n \in 0..Len(v)
    PROVE  /\ Len(e[n]) <= Len(e[Len(v)])
           /\ \A i \in 1..Len(e[n]) : e[Len(v)][i] = e[n][i]
<1> DEFINE End == Len(v)
           Front(k) == Len(e[k]) <= Len(e[End]) /\ \A i \in 1..Len(e[k]) : e[End][i] = e[k][i]
           T == {k \in 0..End : Front(End - k)}
<1>0. End \in Nat /\ \A k \in 0..End : e[k] \in Seq(Plain) /\ Len(e[k]) \in Nat
  BY DEF Encodes
<1>1. 0 \in T
  <2>1. End - 0 = End /\ 0 \in 0..End
    BY <1>0
  <2>2. Len(e[End]) <= Len(e[End])
    BY <1>0
  <2> QED BY <2>1, <2>2
<1>2. ASSUME NEW k \in 0..End, k > 0, k - 1 \in T PROVE k \in T
  <2> DEFINE m == End - k
             p == End - (k - 1)
  <2>1. p \in 1..End /\ p - 1 = m /\ m \in 0..End
    BY <1>0, <1>2
  <2>2. Front(p)
    BY <1>2
  <2> HIDE DEF m, p
  <2>8. p \in 1..Len(v) /\ m \in 0..Len(v) /\ p = m + 1
    BY <1>0, <2>1
  <2>a. PICK q \in 1..Len(v), l \in 0..Len(v) : q = p /\ l = m /\ q = l + 1
    BY <2>8
  <2>b. \E w \in Seq(Plain) :
             /\ StandsFor(w, v[q])
             /\ e[l] \in Seq(Plain) /\ e[q] \in Seq(Plain)
             /\ Len(e[q]) = Len(e[l]) + Len(w)
             /\ \A i \in 1..Len(e[l]) : e[q][i] = e[l][i]
             /\ \A i \in 1..Len(w) : e[q][Len(e[l]) + i] = w[i]
    BY <2>a, EncodedStep
  <2>4. PICK w \in Seq(Plain) :
            /\ Len(e[p]) = Len(e[m]) + Len(w)
            /\ \A i \in 1..Len(e[m]) : e[p][i] = e[m][i]
    BY <2>a, <2>b
  <2>7. Len(w) \in Nat /\ Len(e[p]) \in Nat /\ Len(e[m]) \in Nat /\ Len(e[End]) \in Nat
    BY <1>0, <2>1, <2>4
  <2> HIDE DEF End
  <2>5. Len(e[m]) <= Len(e[p]) /\ \A i \in 1..Len(e[m]) : e[p][i] = e[m][i] /\ i \in 1..Len(e[p])
    BY <2>4, <2>7
  <2>9. Len(e[p]) <= Len(e[End]) /\ \A i \in 1..Len(e[p]) : e[End][i] = e[p][i]
    BY <2>2
  <2>6. Front(m)
    <3>1. Len(e[m]) <= Len(e[End])
      BY <2>5, <2>7, <2>9
    <3>2. ASSUME NEW i \in 1..Len(e[m]) PROVE e[End][i] = e[m][i]
      BY <2>5, <2>9
    <3> QED BY <3>1, <3>2
  <2> HIDE DEF Front
  <2> QED BY <2>6 DEF m
<1> HIDE DEF T
<1>3. 0..End \subseteq T
  <2> HIDE DEF End
  <2> QED BY <1>0, <1>1, <1>2, Induction
<1>4. End - n \in T /\ End - (End - n) = n
  BY <1>0, <1>3
<1>5. Front(n)
  <2> HIDE DEF Front
  <2> QED BY <1>4 DEF T
<1> QED BY <1>5

\* What form_decode works with: an index and the bytes so far.
Out == Plain \cup {" ", "other"} \cup DOMAIN Setup!Hex

Loops == [index : Nat \ {0}, decoded : Seq(Out)]

\* A turn of the loop keeps their types.
LEMMA TurnType ==
    ASSUME NEW t \in Seq(Plain), NEW loop \in Loops
    PROVE  Setup!Turn(t, loop) \in Loops
<1> DEFINE i == loop.index
           to(k, bytes) == [index |-> k, decoded |-> loop.decoded \o bytes]
<1>1. i \in Nat /\ i # 0 /\ loop.decoded \in Seq(Out)
  BY DEF Loops
<1>2. ASSUME NEW b \in Out, NEW k \in Nat \ {0} PROVE to(k, <<b>>) \in Loops
  <2>1. <<b>> \in Seq(Out)
    <3> HIDE DEF Out
    <3> QED BY <1>2, Single
  <2>2. loop.decoded \o <<b>> \in Seq(Out)
    <3> HIDE DEF Out
    <3> QED BY <1>1, <2>1, Joined
  <2> QED BY <1>2, <2>2 DEF Loops
<1>3. ASSUME NEW k \in Nat \ {0} PROVE to(k, <<>>) \in Loops
  <2>1. loop.decoded \o <<>> \in Seq(Out)
    <3> HIDE DEF Out
    <3> QED BY <1>1
  <2> QED BY <2>1 DEF Loops
<1>4. \A h, l : Setup!ByteOf(<<h, l>>) \in Out
  BY DEF Setup!ByteOf, Out
<1>5. " " \in Out /\ \A k \in 1..Len(t) : t[k] \in Out
  <2>1. Plain \subseteq Out /\ " " \in Out
    BY DEF Out
  <2>2. \A k \in 1..Len(t) : t[k] \in Plain
    OBVIOUS
  <2> QED BY <2>1, <2>2
<1>6. i + 1 \in Nat \ {0} /\ i + 3 \in Nat \ {0}
  BY <1>1
<1>7. CASE i > Len(t)
  BY <1>7 DEF Setup!Turn
<1>8. CASE i <= Len(t)
  <2>1. i \in 1..Len(t) /\ ~(i > Len(t))
    BY <1>1, <1>8
  <2> HIDE DEF i, to, Out
  <2>2. \/ Setup!Turn(t, loop) = to(i + 1, <<" ">>)
        \/ Setup!Turn(t, loop) = to(i + 3, <<Setup!ByteOf(<<t[i + 1], t[i + 2]>>)>>)
        \/ Setup!Turn(t, loop) = to(i + 1, <<>>)
        \/ Setup!Turn(t, loop) = to(i + 1, <<t[i]>>)
    BY <2>1, Zenon DEF Setup!Turn, i, to
  <2>3. CASE Setup!Turn(t, loop) = to(i + 1, <<" ">>)
    BY <1>2, <1>5, <1>6, <2>3
  <2>4. CASE Setup!Turn(t, loop) = to(i + 3, <<Setup!ByteOf(<<t[i + 1], t[i + 2]>>)>>)
    BY <1>2, <1>4, <1>6, <2>4
  <2>5. CASE Setup!Turn(t, loop) = to(i + 1, <<>>)
    BY <1>3, <1>6, <2>5
  <2>6. CASE Setup!Turn(t, loop) = to(i + 1, <<t[i]>>)
    BY <1>2, <1>5, <1>6, <2>1, <2>6
  <2> QED BY <2>2, <2>3, <2>4, <2>5, <2>6
<1> QED BY <1>1, <1>7, <1>8

\* a[n] is what the first n turns of the loop make of t.
Decodes(a, t) ==
    /\ a \in [0..Len(t) -> Loops]
    /\ a[0] = [index |-> 1, decoded |-> <<>>]
    /\ \A n \in 1..Len(t) : a[n] = Setup!Turn(t, a[n - 1])
    /\ Setup!Decoded(t) = a[Len(t)].decoded

\* There is such an a.
LEMMA DecodedIs ==
    ASSUME NEW t \in Seq(Plain)
    PROVE  \E a : Decodes(a, t)
<1> DEFINE End == Len(t)
           first == [index |-> 1, decoded |-> <<>>]
           g == [n \in 1..End |-> [s \in Loops |-> Setup!Turn(t, s)]]
           Is(f) == f = [n \in 0..End |-> IF n = 0 THEN [index |-> 1, decoded |-> <<>>]
                                          ELSE Setup!Turn(t, f[n - 1])]
           h == CHOOSE f : Is(f)
<1>1. End \in Nat /\ first \in Loops
  BY DEF Loops
<1>2. \A s \in Loops : Setup!Turn(t, s) \in Loops
  BY TurnType
<1>3. g \in [1..End -> [Loops -> Loops]]
  <2> HIDE DEF End
  <2> QED BY <1>2
<1>4. PICK f : Recurs(f, End, Loops, first, g)
  <2> HIDE DEF g, End, first
  <2> QED BY <1>1, <1>3, Recursion
<1>5. f \in [0..End -> Loops] /\ f[0] = first /\ \A n \in 1..End : f[n] = g[n][f[n - 1]]
  BY <1>4, Zenon DEF Recurs
<1>6. ASSUME NEW n \in 1..End PROVE f[n] = Setup!Turn(t, f[n - 1])
  <2> DEFINE m == n - 1
  <2>1. m \in 0..End
    BY <1>1
  <2> HIDE DEF m, End
  <2>2. f[m] \in Loops
    BY <1>5, <2>1
  <2>3. f[n] = g[n][f[m]]
    BY <1>5 DEF m
  <2>4. g[n][f[m]] = Setup!Turn(t, f[m])
    BY <2>2
  <2> QED BY <2>3, <2>4 DEF m
<1>7. Is(f)
  <2> HIDE DEF End, g
  <2>1. f = [n \in 0..End |-> f[n]]
    BY <1>5
  <2>2. ASSUME NEW n \in 0..End
        PROVE  f[n] = IF n = 0 THEN first ELSE Setup!Turn(t, f[n - 1])
    <3> HIDE DEF first
    <3>1. CASE n = 0
      BY <1>5, <3>1, Zenon
    <3>2. CASE n # 0
      <4>1. n \in 1..End
        BY <1>1, <3>2
      <4>2. f[n] = Setup!Turn(t, f[n - 1])
        BY <1>6, <4>1
      <4> QED BY <3>2, <4>2, Zenon
    <3> QED BY <3>1, <3>2
  <2> QED BY <2>1, <2>2, Zenon
<1>8. Is(h)
  <2> HIDE DEF Is
  <2> QED BY <1>7
<1>9. Setup!Decoded(t) = h[Len(t)].decoded
  BY DEF Setup!Decoded
<1> HIDE DEF h, g
<1>10. h = [n \in 0..End |-> IF n = 0 THEN first ELSE Setup!Turn(t, h[n - 1])]
  BY <1>8, Zenon
<1> HIDE DEF Is
<1>a. h[0] = first /\ \A n \in 1..End : h[n] = Setup!Turn(t, h[n - 1])
  <2> HIDE DEF End, first
  <2>1. ASSUME NEW n \in 0..End PROVE h[n] = IF n = 0 THEN first ELSE Setup!Turn(t, h[n - 1])
    BY <1>10, Zenon
  <2>2. 0 \in 0..End /\ \A n \in 1..End : n \in 0..End /\ n # 0
    BY <1>1
  <2>3. h[0] = first
    BY <2>1, <2>2, Zenon
  <2>4. ASSUME NEW n \in 1..End PROVE h[n] = Setup!Turn(t, h[n - 1])
    BY <2>1, <2>2, Zenon
  <2> QED BY <2>3, <2>4
<1> DEFINE T == {n \in 0..End : h[n] \in Loops}
<1>11. 0 \in T
  <2>1. 0 \in 0..End
    BY <1>1
  <2>2. h[0] \in Loops
    BY <1>1, <1>a, Zenon
  <2> QED BY <2>1, <2>2
<1>12. ASSUME NEW n \in 0..End, n > 0, n - 1 \in T PROVE n \in T
  <2>1. n \in 1..End
    BY <1>12
  <2>2. h[n] \in Loops
    BY <1>2, <1>a, <1>12, <2>1, Zenon
  <2> QED BY <2>2
<1> HIDE DEF T
<1>13. 0..End \subseteq T
  <2> HIDE DEF End
  <2> QED BY <1>1, <1>11, <1>12, Induction
<1>14. \A n \in 0..End : h[n] \in Loops
  BY <1>13 DEF T
<1>15. h \in [0..End -> Loops]
  <2> HIDE DEF End, first
  <2> QED BY <1>10, <1>14
<1> QED BY <1>9, <1>a, <1>15, Zenon DEF Decodes

\* w is what t has after its first n tokens.
Follows(w, t, n) == n + Len(w) <= Len(t) /\ \A k \in 1..Len(w) : t[n + k] = w[k]

\* A turn at what stands for a byte adds that byte.
LEMMA TurnTakes ==
    ASSUME NEW t \in Seq(Plain), NEW loop \in Loops, NEW w \in Seq(Plain), NEW b, StandsFor(w, b),
           NEW n \in Nat, loop.index = n + 1, Follows(w, t, n)
    PROVE  Setup!Turn(t, loop) = [index |-> n + Len(w) + 1, decoded |-> loop.decoded \o <<b>>]
<1> DEFINE To(index, bytes) == [index |-> index, decoded |-> loop.decoded \o bytes]
<1>1. PICK i \in Nat : i = n + 1 /\ i = loop.index /\ n = i - 1 /\ Len(t) \in Nat
  OBVIOUS
<1>5. n + Len(w) <= Len(t) /\ \A k \in 1..Len(w) : t[n + k] = w[k]
  BY DEF Follows
<1>2. CASE Len(w) = 1
  <2>1. i <= Len(t) /\ ~(i > Len(t)) /\ t[i] = w[1]
    BY <1>1, <1>2, <1>5
  <2>2. \/ b = " " /\ t[i] = "+"
        \/ b \notin {"+", "%"} /\ t[i] = b
    <3>1. \/ b = " " /\ w[1] = "+"
          \/ b \notin {"+", "%"} /\ w[1] = b
          \/ Len(w) = 3
      BY Zenon DEF StandsFor
    <3>2. Len(w) # 3
      BY <1>2
    <3> QED BY <2>1, <3>1, <3>2, Zenon
  <2>3. Setup!Turn(t, loop) = To(i + 1, <<b>>)
    <3>1. CASE b = " " /\ t[i] = "+"
      BY <1>1, <2>1, <3>1, Zenon DEF Setup!Turn
    <3>2. CASE b \notin {"+", "%"} /\ t[i] = b
      <4>1. t[i] # "+" /\ t[i] # "%"
        BY <3>2
      <4> QED BY <1>1, <2>1, <3>2, <4>1, Zenon DEF Setup!Turn
    <3> QED BY <2>2, <3>1, <3>2
  <2> QED BY <1>1, <1>2, <2>3
<1>3. CASE Len(w) = 3
  <2>1. /\ ~(i > Len(t)) /\ i + 2 <= Len(t)
        /\ t[i] = w[1] /\ t[i + 1] = w[2] /\ t[i + 2] = w[3]
    <3>1. n + 1 = i /\ n + 2 = i + 1 /\ n + 3 = i + 2 /\ 1 \in 1..Len(w) /\ 2 \in 1..Len(w) /\ 3 \in 1..Len(w)
      BY <1>1, <1>3
    <3>2. t[n + 1] = w[1] /\ t[n + 2] = w[2] /\ t[n + 3] = w[3]
      BY <1>5, <3>1
    <3> QED BY <1>1, <1>3, <1>5, <3>1, <3>2
  <2>2. /\ w[1] = "%" /\ w[2] \in Setup!HexDigit /\ w[3] \in Setup!HexDigit
        /\ Setup!ByteOf(<<w[2], w[3]>>) = b
    BY <1>3 DEF StandsFor
  <2>3. t[i] # "+" /\ t[i] = "%"
    BY <2>1, <2>2
  <2>4. Setup!EscapeFits(t, i)
    BY <2>1 DEF Setup!EscapeFits
  <2>5. Setup!Turn(t, loop) = To(i + 3, <<b>>)
    BY <1>1, <2>1, <2>2, <2>3, <2>4, Zenon DEF Setup!Turn
  <2> QED BY <1>1, <1>3, <2>5
<1>4. Len(w) = 1 \/ Len(w) = 3
  BY Zenon DEF StandsFor
<1> QED BY <1>2, <1>3, <1>4

\* What was encoded is decoded to what it was.
LEMMA RoundTrip ==
    ASSUME NEW v \in Seq(Setup!Bytes)
    PROVE  /\ Setup!Encoded(v) \in Seq(Plain)
           /\ Setup!Decoded(Setup!Encoded(v)) = v
<1>1. PICK e : Encodes(e, v)
  BY EncodedIs
<1> DEFINE End == Len(v)
           t == e[End]
           Length(n) == Len(e[n])
<1>2. /\ End \in Nat /\ t = Setup!Encoded(v) /\ Len(e[0]) = 0
      /\ \A n \in 0..End : e[n] \in Seq(Plain) /\ Length(n) \in Nat
  BY <1>1 DEF Encodes
<1>3. t \in Seq(Plain) /\ Len(t) \in Nat
  BY <1>2
<1>4. PICK a : Decodes(a, t)
  BY <1>3, DecodedIs
<1>5. /\ a[0] = [index |-> 1, decoded |-> <<>>]
      /\ \A n \in 1..Len(t) : a[n] = Setup!Turn(t, a[n - 1])
      /\ \A n \in 0..Len(t) : a[n] \in Loops
      /\ Setup!Decoded(t) = a[Len(t)].decoded
  BY <1>4 DEF Decodes
<1>6. ASSUME NEW n \in 0..End
      PROVE  Length(n) <= Len(t) /\ \A i \in 1..Length(n) : t[i] = e[n][i]
  BY <1>1, <1>6, EncodedPrefix
<1> DEFINE Taken(n) == /\ n <= Length(n)
                       /\ a[n].index = Length(n) + 1
                       /\ Len(a[n].decoded) = n
                       /\ \A i \in 1..n : a[n].decoded[i] = v[i]
           T == {n \in 0..End : Taken(n)}
<1>7. 0 \in T
  <2>1. a[0].index = 1 /\ a[0].decoded = <<>> /\ Length(0) = 0
    BY <1>2, <1>5
  <2>2. Len(<<>>) = 0
    OBVIOUS
  <2>3. Taken(0)
    <3>1. a[0].index = Length(0) + 1 /\ 0 <= Length(0) /\ Len(a[0].decoded) = 0
      BY <2>1, <2>2
    <3> QED BY <3>1
  <2> HIDE DEF Taken
  <2> QED BY <1>1, <1>2, <2>3
<1>8. ASSUME NEW n \in 0..End, n > 0, n - 1 \in T PROVE n \in T
  <2>1. PICK m \in 0..End : m = n - 1 /\ n = m + 1 /\ n \in 1..End
    BY <1>2, <1>8
  <2>2. Taken(m)
    BY <1>8, <2>1
  <2>3. PICK w \in Seq(Plain) :
          /\ StandsFor(w, v[n])
          /\ e[m] \in Seq(Plain) /\ e[n] \in Seq(Plain)
          /\ Len(e[n]) = Len(e[m]) + Len(w)
          /\ \A i \in 1..Len(e[m]) : e[n][i] = e[m][i]
          /\ \A i \in 1..Len(w) : e[n][Len(e[m]) + i] = w[i]
    BY <1>1, <2>1, EncodedStep
  <2>4. Len(w) \in Nat /\ Len(w) >= 1
    <3>1. PICK width : width = Len(w)
      OBVIOUS
    <3>2. width = 1 \/ width = 3
      BY <2>3, <3>1, Zenon DEF StandsFor
    <3>3. width \in Nat /\ width >= 1
      BY <3>2
    <3> QED BY <3>1, <3>3, Zenon
  <2>5. /\ Length(m) \in Nat /\ Length(n) \in Nat /\ Length(n) <= Len(t)
        /\ \A i \in 1..Length(n) : t[i] = e[n][i]
    BY <1>2, <1>6, <2>1
  <2> HIDE DEF t, End
  <2>6. n \in 1..Len(t) /\ m \in 0..Len(t) /\ n <= Length(n)
    BY <2>1, <2>2, <2>3, <2>4, <2>5, <1>3
  <2>7. a[n] = Setup!Turn(t, a[m]) /\ a[m] \in Loops
    BY <1>5, <2>1, <2>6
  <2>8. PICK loop \in Loops : loop = a[m] /\ loop.index = Length(m) + 1
    BY <2>2, <2>7
  <2>9. Follows(w, t, Length(m))
    <3>1. Length(m) + Len(w) <= Len(t)
      BY <2>3, <2>5
    <3>2. ASSUME NEW k \in 1..Len(w) PROVE t[Length(m) + k] = w[k]
      <4>1. Length(m) + k \in 1..Length(n)
        BY <2>3, <2>4, <2>5
      <4>2. t[Length(m) + k] = e[n][Length(m) + k] /\ e[n][Length(m) + k] = w[k]
        BY <2>3, <2>5, <4>1
      <4> QED BY <4>2
    <3> QED BY <3>1, <3>2 DEF Follows
  <2>11. Setup!Turn(t, loop) = [index |-> Length(m) + Len(w) + 1, decoded |-> loop.decoded \o <<v[n]>>]
    <3>0. PICK b : b = v[n]
      OBVIOUS
    <3>1. PICK text \in Seq(Plain), l \in Nat : text = t /\ l = Length(m)
      BY <1>3, <2>5
    <3>2. StandsFor(w, b) /\ Follows(w, text, l) /\ loop.index = l + 1
      BY <2>3, <2>8, <2>9, <3>0, <3>1
    <3>3. Setup!Turn(text, loop) = [index |-> l + Len(w) + 1, decoded |-> loop.decoded \o <<b>>]
      BY <3>2, TurnTakes
    <3> QED BY <3>0, <3>1, <3>3
  <2>12. a[n].index = Length(m) + Len(w) + 1 /\ a[n].decoded = loop.decoded \o <<v[n]>>
    BY <2>7, <2>8, <2>11
  <2>13. PICK before, one, after : before \in Seq(Out) /\ before = loop.decoded /\ one = <<v[n]>> /\ after = before \o one
    BY DEF Loops
  <2>14. v[n] \in Out
    <3>1. v[n] \in Setup!Bytes
      BY <2>1 DEF End
    <3> QED BY <3>1 DEF Setup!Bytes, Out, Plain
  <2>15. one \in Seq(Out) /\ Len(one) = 1 /\ one[1] = v[n]
    BY <2>13, <2>14, Single
  <2>16. /\ Len(after) = Len(before) + Len(one)
         /\ \A k \in 1..Len(before) : after[k] = before[k]
         /\ \A k \in 1..Len(one) : after[Len(before) + k] = one[k]
    BY <2>13, <2>15, Joined
  <2>17. Len(before) = m /\ \A k \in 1..m : before[k] = v[k]
    BY <2>2, <2>8, <2>13
  <2>18. after[n] = v[n]
    BY <2>1, <2>15, <2>16, <2>17
  <2>19. ASSUME NEW k \in 1..n PROVE after[k] = v[k]
    <3>1. CASE k = n
      BY <2>18, <3>1
    <3>2. CASE k # n
      <4>1. k \in 1..m
        BY <2>1, <3>2
      <4> QED BY <2>16, <2>17, <4>1
    <3> QED BY <3>1, <3>2
  <2>20. Len(after) = n
    BY <2>1, <2>15, <2>16, <2>17
  <2>21. a[n].decoded = after
    BY <2>12, <2>13
  <2>22. a[n].index = Length(n) + 1
    BY <2>3, <2>4, <2>5, <2>12
  <2>23. Taken(n)
    BY <2>6, <2>19, <2>20, <2>21, <2>22
  <2> HIDE DEF Taken
  <2> QED BY <2>23
<1> HIDE DEF T
<1>9. 0..End \subseteq T
  <2> HIDE DEF End
  <2> QED BY <1>2, <1>7, <1>8, Induction
<1>10. Taken(End)
  <2> HIDE DEF Taken
  <2> QED BY <1>2, <1>9 DEF T
<1> DEFINE Rest == Len(t) - End
           U == {k \in 0..Rest : a[End + k] = a[End]}
<1>11. Rest \in Nat /\ End <= Len(t) /\ End + Rest = Len(t)
  BY <1>2, <1>3, <1>10
<1>12. 0 \in U
  <2>1. End + 0 = End
    BY <1>2
  <2> HIDE DEF End
  <2> QED BY <1>11, <2>1
<1>13. ASSUME NEW k \in 0..Rest, k > 0, k - 1 \in U PROVE k \in U
  <2> DEFINE n == End + k
  <2>1. n \in 1..Len(t) /\ n - 1 = End + (k - 1) /\ n - 1 \in 0..Len(t)
    BY <1>2, <1>11, <1>13
  <2>2. a[n - 1] = a[End]
    BY <1>13, <2>1
  <2>3. a[n] = Setup!Turn(t, a[n - 1])
    <3> HIDE DEF n, t
    <3> QED BY <1>5, <2>1
  <2>4. a[End].index > Len(t)
    BY <1>3, <1>10
  <2>5. Setup!Turn(t, a[End]) = a[End]
    <3> HIDE DEF t
    <3> QED BY <2>4, Zenon DEF Setup!Turn
  <2> HIDE DEF n, t, End
  <2>6. a[n] = a[End]
    BY <2>2, <2>3, <2>5
  <2> QED BY <2>6 DEF n
<1> HIDE DEF U
<1>14. 0..Rest \subseteq U
  <2> HIDE DEF Rest
  <2> QED BY <1>11, <1>12, <1>13, Induction
<1>15. a[Len(t)] = a[End]
  <2>1. Rest \in U
    <3> HIDE DEF Rest
    <3> QED BY <1>11, <1>14
  <2> HIDE DEF Rest, t, End
  <2> QED BY <1>11, <2>1 DEF U
<1>16. PICK d \in Seq(Out) : d = Setup!Decoded(t)
  <2>1. a[Len(t)] \in Loops
    <3> HIDE DEF t
    <3> QED BY <1>3, <1>5
  <2> HIDE DEF t
  <2> QED BY <1>5, <2>1 DEF Loops
<1>17. Len(d) = Len(v) /\ \A i \in 1..Len(v) : d[i] = v[i]
  <2>1. d = a[End].decoded
    <3> HIDE DEF t, End
    <3> QED BY <1>5, <1>15, <1>16
  <2> QED BY <1>10, <2>1
<1>18. d = v
  BY <1>17
<1> QED BY <1>2, <1>3, <1>16, <1>18

\* The same as a predicate.
Joins(s, t, st) ==
    /\ Len(st) = Len(s) + Len(t)
    /\ \A i \in 1..Len(s) : st[i] = s[i]
    /\ \A i \in 1..Len(t) : st[Len(s) + i] = t[i]

LEMMA JoinedIs ==
    ASSUME NEW S, NEW s \in Seq(S), NEW t \in Seq(S), NEW st, st = s \o t
    PROVE  st \in Seq(S) /\ Joins(s, t, st)
BY Joined DEF Joins

\* A field is appended after a separator; what was there stays where it is.
LEMMA FieldAdded ==
    ASSUME NEW S, Plain \subseteq S, NEW s \in Seq(S), NEW text \in Seq(Plain), NEW name \in S,
           "&" \in S, "=" \in S, NEW st, st = s \o <<"&", name, "=">> \o text
    PROVE  /\ st \in Seq(S) /\ Len(st) = Len(s) + 3 + Len(text)
           /\ \A i \in 1..Len(s) : st[i] = s[i]
           /\ st[Len(s) + 1] = "&" /\ st[Len(s) + 2] = name /\ st[Len(s) + 3] = "="
           /\ \A k \in 1..Len(text) : st[Len(s) + 3 + k] = text[k]
<1>1. PICK head, t, part : /\ head = <<"&", name, "=">> /\ t = text /\ part = s \o head
                           /\ st = part \o t
  OBVIOUS
<1>2. /\ head \in Seq(S) /\ Len(head) = 3
      /\ head[1] = "&" /\ head[2] = name /\ head[3] = "="
  BY <1>1
<1>3. /\ part \in Seq(S) /\ Len(part) = Len(s) + 3
      /\ \A i \in 1..Len(s) : part[i] = s[i]
      /\ \A i \in 1..3 : part[Len(s) + i] = head[i]
  <2>1. part = s \o head
    BY <1>1
  <2>2. part \in Seq(S) /\ Joins(s, head, part)
    BY <1>2, <2>1, JoinedIs
  <2> QED BY <1>2, <2>2 DEF Joins
<1>4. t \in Seq(S)
  <2>1. t \in Seq(Plain)
    BY <1>1
  <2> QED BY <2>1
<1>5. /\ st \in Seq(S) /\ Len(st) = Len(part) + Len(t)
      /\ \A i \in 1..Len(part) : st[i] = part[i]
      /\ \A i \in 1..Len(t) : st[Len(part) + i] = t[i]
  <2>1. st = part \o t /\ part \in Seq(S)
    BY <1>1, <1>3
  <2>2. st \in Seq(S) /\ Joins(part, t, st)
    BY <1>4, <2>1, JoinedIs
  <2> QED BY <2>2 DEF Joins
<1>6. Len(s) \in Nat
  OBVIOUS
<1>7. \A i \in 1..Len(s) : st[i] = s[i]
  BY <1>3, <1>5, <1>6
<1>8. st[Len(s) + 1] = "&" /\ st[Len(s) + 2] = name /\ st[Len(s) + 3] = "="
  <2>1. ASSUME NEW i \in 1..3 PROVE st[Len(s) + i] = head[i]
    <3>1. Len(s) + i \in 1..Len(part)
      BY <1>3, <1>6
    <3> QED BY <1>3, <1>5, <3>1
  <2> QED BY <1>2, <2>1
<1>9. \A k \in 1..Len(text) : st[Len(s) + 3 + k] = text[k]
  <2>1. t = text
    BY <1>1
  <2> QED BY <1>3, <1>5, <2>1
<1>10. Len(st) = Len(s) + 3 + Len(text)
  <2>1. t = text
    BY <1>1
  <2> QED BY <1>3, <1>5, <2>1
<1> QED BY <1>5, <1>7, <1>8, <1>9, <1>10

\* The tokens of a request, and its names.
Names == {"ssid", "password", "hostname", "ntfy_topic"}

Tokens == Plain \cup Names \cup {"&", "=", "POST /configure ", "GET", "end of headers"}

\* No name and no separator is a token of a value.
LEMMA Apart ==
    /\ Plain \subseteq Tokens /\ Names \subseteq Tokens /\ "&" \in Tokens /\ "=" \in Tokens
    /\ Plain \cap Names = {} /\ "&" \notin Plain /\ "=" \notin Plain
    /\ "&" \notin Names /\ "=" \notin Names
<1>1. Plain = {"a", "b", "2", "-", "_", "+", "%", "0", "1", "3", "5", "6", "9", "A", "B", "C", "D"}
  BY DEF Plain, Setup!Alphanumeric, Setup!HexDigit
<1> QED BY <1>1 DEF Names, Tokens

\* The field with this name starts at p of body, text is what follows its "=", and a
\* separator or the end what follows that.
FieldAt(body, name, p, text) ==
    /\ p \in 1..Len(body) /\ p + 1 + Len(text) <= Len(body)
    /\ p = 1 \/ body[p - 1] = "&"
    /\ body[p] = name /\ body[p + 1] = "="
    /\ \A k \in 1..Len(text) : body[p + 1 + k] = text[k]
    /\ p + 1 + Len(text) < Len(body) => body[p + 2 + Len(text)] = "&"
    /\ \A i \in 1..Len(body) : body[i] = name => i = p

\* The value of a field that is there in full, and no other with its name.
LEMMA ValueIs ==
    ASSUME NEW body \in Seq(Tokens), NEW name \in Names, NEW p, NEW text \in Seq(Plain),
           FieldAt(body, name, p, text)
    PROVE  Setup!ValueOf(body, name) = <<Setup!form_decode(text)>>
<1> DEFINE found == {i \in Setup!Starts(body) : i < Len(body) /\ body[i] = name /\ body[i + 1] = "="}
           ends == {e \in p..Len(body) : \A k \in p..e : body[k] # "&"}
<1>1. PICK last : last = p + 1 + Len(text)
  OBVIOUS
<1>2. /\ p \in Nat /\ last \in Nat /\ p >= 1 /\ p + 1 <= last /\ last <= Len(body)
      /\ Len(body) \in Nat /\ Len(text) \in Nat /\ p < Len(body)
  BY <1>1 DEF FieldAt
<1>3. found = {p}
  <2>1. p \in found
    BY <1>2 DEF FieldAt, Setup!Starts
  <2>2. \A i \in found : i = p
    BY DEF FieldAt, Setup!Starts
  <2> HIDE DEF found
  <2> QED BY <2>1, <2>2
<1>4. Setup!Min(found) = p
  <2>1. p \in found /\ \A y \in found : p <= y
    BY <1>2, <1>3
  <2>2. \A x \in found : (\A y \in found : x <= y) => x = p
    BY <1>3
  <2> HIDE DEF found
  <2> QED BY <2>1, <2>2 DEF Setup!Min
<1>5. ASSUME NEW k \in p..last PROVE body[k] # "&"
  <2>1. CASE k = p
    BY <2>1, Apart DEF FieldAt
  <2>2. CASE k = p + 1
    BY <2>2 DEF FieldAt
  <2>3. CASE k # p /\ k # p + 1
    <3>1. PICK j \in 1..Len(text) : k = p + 1 + j
      <4>1. k - (p + 1) \in 1..Len(text) /\ k = p + 1 + (k - (p + 1))
        BY <1>1, <1>2, <2>3
      <4> QED BY <4>1
    <3>2. body[k] = text[j]
      BY <3>1 DEF FieldAt
    <3>3. text[j] \in Plain
      OBVIOUS
    <3> QED BY <3>2, <3>3, Apart
  <2> QED BY <2>1, <2>2, <2>3
<1>6. Setup!Max(ends) = last
  <2>1. last \in ends
    BY <1>2, <1>5
  <2>2. ASSUME NEW e \in ends PROVE e <= last
    <3>1. SUFFICES ASSUME e > last PROVE FALSE
      BY <1>2
    <3>2. last + 1 \in p..e /\ last < Len(body) /\ p + 2 + Len(text) = last + 1
      BY <1>1, <1>2, <3>1
    <3>3. body[last + 1] = "&"
      BY <1>1, <3>2 DEF FieldAt
    <3>4. body[last + 1] # "&"
      BY <3>2
    <3> QED BY <3>3, <3>4
  <2>3. \A e \in ends : e \in Nat
    BY <1>2
  <2> HIDE DEF ends
  <2>4. \A x \in ends : (\A y \in ends : x >= y) => x = last
    BY <1>2, <2>1, <2>2, <2>3
  <2>5. \A y \in ends : last >= y
    BY <1>2, <2>2, <2>3
  <2> QED BY <2>1, <2>4, <2>5 DEF Setup!Max
<1>7. SubSeq(body, p + 2, last) = text
  <2>1. PICK sub : sub = SubSeq(body, p + 2, last)
    OBVIOUS
  <2>2. /\ sub \in Seq(Tokens) /\ Len(sub) = Len(text)
        /\ \A k \in 1..Len(text) : sub[k] = body[p + 1 + k]
    <3>1. /\ p + 2 \in Int /\ last \in Int /\ last - (p + 2) + 1 = Len(text)
          /\ \A i \in (p + 2)..last : body[i] \in Tokens
      BY <1>1, <1>2
    <3>2. /\ SubSeq(body, p + 2, last) \in Seq(Tokens)
          /\ Len(SubSeq(body, p + 2, last)) = IF p + 2 <= last THEN last - (p + 2) + 1 ELSE 0
          /\ \A i \in 1..(last - (p + 2) + 1) : SubSeq(body, p + 2, last)[i] = body[p + 2 + i - 1]
      BY <3>1, SubSeqProperties
    <3>3. \A k \in 1..Len(text) : p + 2 + k - 1 = p + 1 + k
      BY <1>2
    <3>4. Len(sub) = Len(text)
      BY <1>1, <1>2, <2>1, <3>1, <3>2
    <3>5. ASSUME NEW k \in 1..Len(text) PROVE sub[k] = body[p + 1 + k]
      BY <2>1, <3>1, <3>2, <3>3
    <3> QED BY <2>1, <3>2, <3>4, <3>5
  <2>3. \A k \in 1..Len(text) : sub[k] = text[k]
    BY <2>2 DEF FieldAt
  <2>4. sub = text
    BY <2>2, <2>3
  <2> QED BY <2>1, <2>4
<1>8. Setup!FieldEnd(body, p) = last
  BY <1>6 DEF Setup!FieldEnd
<1> HIDE DEF ends
<1>9. Setup!ValueOf(body, name) =
        IF found = {} THEN <<>>
        ELSE <<Setup!form_decode(SubSeq(body, Setup!Min(found) + 2, Setup!FieldEnd(body, Setup!Min(found))))>>
  BY Zenon DEF Setup!ValueOf
<1> HIDE DEF found
<1>10. found # {}
  BY <1>3
<1> QED BY <1>4, <1>7, <1>8, <1>9, <1>10, Zenon

\* A name that no token is.
Without(s, name) == \A i \in 1..Len(s) : s[i] # name

\* st is s with one more field.
Appended(s, name, text, st) ==
    /\ st \in Seq(Tokens) /\ Len(s) < Len(st)
    /\ FieldAt(st, name, Len(s) + 2, text)
    /\ \A other \in Names \ {name} : Without(s, other) => Without(st, other)
    /\ \A other \in Names \ {name} : \A p : \A t \in Seq(Plain) :
          FieldAt(s, other, p, t) => FieldAt(st, other, p, t)

\* The field that is appended, the fields that were there and the names that are still to come.
LEMMA FieldAfter ==
    ASSUME NEW s \in Seq(Tokens), NEW text \in Seq(Plain), NEW name \in Names, Without(s, name),
           NEW st, st = s \o <<"&", name, "=">> \o text
    PROVE  Appended(s, name, text, st)
<1>0. PICK n \in Nat, l \in Nat : n = Len(s) /\ l = Len(text)
  OBVIOUS
<1>1. /\ st \in Seq(Tokens) /\ Len(st) = n + 3 + l
      /\ \A i \in 1..n : st[i] = s[i]
      /\ st[n + 1] = "&" /\ st[n + 2] = name /\ st[n + 3] = "="
      /\ \A k \in 1..l : st[n + 3 + k] = text[k]
  <2>1. Plain \subseteq Tokens /\ name \in Tokens /\ "&" \in Tokens /\ "=" \in Tokens
    BY Apart
  <2>2. /\ st \in Seq(Tokens) /\ Len(st) = Len(s) + 3 + Len(text)
        /\ \A i \in 1..Len(s) : st[i] = s[i]
        /\ st[Len(s) + 1] = "&" /\ st[Len(s) + 2] = name /\ st[Len(s) + 3] = "="
        /\ \A k \in 1..Len(text) : st[Len(s) + 3 + k] = text[k]
    BY <2>1, FieldAdded
  <2> QED BY <1>0, <2>2
<1>2. ASSUME NEW i \in 1..Len(st)
      PROVE  \/ i \in 1..n
             \/ i = n + 1 \/ i = n + 2 \/ i = n + 3
             \/ i > n + 3 /\ st[i] \in Plain
  <2>1. CASE i > n + 3
    <3>1. PICK k \in 1..l : i = n + 3 + k
      <4>1. i - (n + 3) \in 1..l /\ i = n + 3 + (i - (n + 3))
        BY <1>1, <2>1
      <4> QED BY <4>1
    <3>2. st[i] = text[k] /\ text[k] \in Plain
      BY <1>0, <1>1, <3>1
    <3> QED BY <2>1, <3>2
  <2>2. CASE ~(i > n + 3)
    BY <1>1, <2>2
  <2> QED BY <2>1, <2>2
<1>3. FieldAt(st, name, Len(s) + 2, text)
  <2>1. PICK p \in Nat : p = n + 2 /\ p - 1 = n + 1 /\ p + 1 = n + 3
    OBVIOUS
  <2>2. p \in 1..Len(st) /\ p + 1 + l <= Len(st) /\ ~(p + 1 + l < Len(st))
    BY <1>1, <2>1
  <2>3. st[p - 1] = "&" /\ st[p] = name /\ st[p + 1] = "="
    BY <1>1, <2>1
  <2>4. \A k \in 1..l : st[p + 1 + k] = text[k]
    BY <1>1, <2>1
  <2>5. ASSUME NEW i \in 1..Len(st), st[i] = name PROVE i = p
    <3>1. i \notin 1..n
      BY <1>0, <1>1, <2>5 DEF Without
    <3>2. i # n + 1 /\ i # n + 3
      BY <1>1, <2>5, Apart
    <3>3. st[i] \notin Plain
      BY <2>5, Apart
    <3> QED BY <1>2, <2>1, <3>1, <3>2, <3>3
  <2>6. FieldAt(st, name, p, text)
    BY <1>0, <2>2, <2>3, <2>4, <2>5 DEF FieldAt
  <2> QED BY <1>0, <2>1, <2>6
<1>4. ASSUME NEW other \in Names, other # name, NEW i \in 1..Len(st), st[i] = other
      PROVE  i \in 1..n /\ s[i] = other
  <2>1. i # n + 1 /\ i # n + 3 /\ i # n + 2
    BY <1>1, <1>4, Apart
  <2>2. st[i] \notin Plain
    BY <1>4, Apart
  <2>3. i \in 1..n
    BY <1>2, <2>1, <2>2
  <2> QED BY <1>1, <1>4, <2>3
<1>5. ASSUME NEW other \in Names \ {name}, Without(s, other) PROVE Without(st, other)
  BY <1>0, <1>4, <1>5 DEF Without
<1>6. ASSUME NEW other \in Names \ {name}, NEW p, NEW t \in Seq(Plain), FieldAt(s, other, p, t)
      PROVE  FieldAt(st, other, p, t)
  <2>1. PICK m \in Nat : m = Len(t)
    OBVIOUS
  <2>2. /\ p \in 1..n /\ p + 1 + m <= n
        /\ p = 1 \/ s[p - 1] = "&"
        /\ s[p] = other /\ s[p + 1] = "="
        /\ \A k \in 1..m : s[p + 1 + k] = t[k]
        /\ p + 1 + m < n => s[p + 2 + m] = "&"
        /\ \A i \in 1..n : s[i] = other => i = p
    BY <1>0, <1>6, <2>1, Zenon DEF FieldAt
  <2>3. p \in 1..Len(st) /\ p + 1 + m <= Len(st)
    BY <1>1, <2>2
  <2>4. p = 1 \/ st[p - 1] = "&"
    <3>1. p # 1 => p - 1 \in 1..n
      BY <2>2
    <3> QED BY <1>1, <2>2, <3>1
  <2>5. st[p] = other /\ st[p + 1] = "="
    <3>1. p + 1 \in 1..n
      BY <2>2
    <3> QED BY <1>1, <2>2, <3>1
  <2>6. ASSUME NEW k \in 1..m PROVE st[p + 1 + k] = t[k]
    <3>1. p + 1 + k \in 1..n
      BY <2>2
    <3> QED BY <1>1, <2>2, <3>1
  <2>7. p + 1 + m < Len(st) => st[p + 2 + m] = "&"
    <3>1. CASE p + 1 + m < n
      <4>1. p + 2 + m \in 1..n
        BY <2>2, <3>1
      <4> QED BY <1>1, <2>2, <3>1, <4>1
    <3>2. CASE p + 1 + m = n
      <4>1. p + 2 + m = n + 1
        BY <2>2, <3>2
      <4> QED BY <1>1, <4>1
    <3> QED BY <2>2, <3>1, <3>2
  <2>8. ASSUME NEW i \in 1..Len(st), st[i] = other PROVE i = p
    BY <1>4, <2>2, <2>8
  <2> QED BY <2>1, <2>3, <2>4, <2>5, <2>6, <2>7, <2>8 DEF FieldAt
<1>7. Len(s) < Len(st)
  BY <1>0, <1>1
<1>8. st \in Seq(Tokens)
  BY <1>1
<1> QED BY <1>3, <1>5, <1>6, <1>7, <1>8, Zenon DEF Appended

\* The first field has no separator before it.
LEMMA FieldFirst ==
    ASSUME NEW text \in Seq(Plain), NEW st, st = <<"ssid", "=">> \o text
    PROVE  /\ st \in Seq(Tokens) /\ FieldAt(st, "ssid", 1, text)
           /\ \A other \in Names \ {"ssid"} : Without(st, other)
<1>0. Plain \subseteq Tokens /\ "ssid" \in Names /\ "ssid" \in Tokens /\ "=" \in Tokens
  BY Apart DEF Names
<1>1. PICK head, t \in Seq(Tokens) : head = <<"ssid", "=">> /\ t = text
  <2>1. text \in Seq(Tokens) /\ <<"ssid", "=">> \in Seq(Tokens)
    BY <1>0
  <2> QED BY <2>1
<1>2. Len(head) = 2 /\ head[1] = "ssid" /\ head[2] = "=" /\ head \in Seq(Tokens)
  BY <1>0, <1>1
<1>3. st \in Seq(Tokens) /\ Joins(head, t, st)
  <2>1. st = head \o t
    BY <1>1
  <2> QED BY <1>2, <2>1, JoinedIs
<1>4. PICK l \in Nat : l = Len(text)
  OBVIOUS
<1>5. /\ Len(st) = 2 + l /\ st[1] = "ssid" /\ st[2] = "="
      /\ \A k \in 1..l : st[2 + k] = text[k]
  BY <1>1, <1>2, <1>3, <1>4 DEF Joins
<1>6. ASSUME NEW i \in 1..Len(st), i # 1, i # 2 PROVE st[i] \in Plain
  <2>1. PICK k \in 1..l : i = 2 + k
    <3>1. i - 2 \in 1..l /\ i = 2 + (i - 2)
      BY <1>5, <1>6
    <3> QED BY <3>1
  <2>2. st[i] = text[k] /\ text[k] \in Plain
    BY <1>4, <1>5, <2>1
  <2> QED BY <2>2
<1>7. ASSUME NEW i \in 1..Len(st), st[i] \in Names PROVE i = 1
  BY <1>5, <1>6, <1>7, Apart
<1>8. ASSUME NEW other \in Names \ {"ssid"} PROVE Without(st, other)
  BY <1>5, <1>7 DEF Without
<1>9. FieldAt(st, "ssid", 1, text)
  <2>1. 1 \in 1..Len(st) /\ 1 + 1 + l <= Len(st) /\ ~(1 + 1 + l < Len(st)) /\ 1 + 1 = 2
    BY <1>5
  <2>2. \A k \in 1..l : st[1 + 1 + k] = text[k]
    BY <1>5
  <2>3. \A i \in 1..Len(st) : st[i] = "ssid" => i = 1
    BY <1>0, <1>7
  <2> QED BY <1>4, <1>5, <2>1, <2>2, <2>3 DEF FieldAt
<1> QED BY <1>3, <1>8, <1>9

\* The four fields, one after the other.
Laid(body, t1, t2, t3, t4) ==
    /\ body \in Seq(Tokens)
    /\ \E p2, p3, p4 \in Nat :
          /\ FieldAt(body, "ssid", 1, t1) /\ FieldAt(body, "password", p2, t2)
          /\ FieldAt(body, "hostname", p3, t3) /\ FieldAt(body, "ntfy_topic", p4, t4)
          /\ 1 < p4 /\ p2 < p4 /\ p3 < p4

\* So every field is where its name is.
LEMMA BodyIs ==
    ASSUME NEW t1 \in Seq(Plain), NEW t2 \in Seq(Plain), NEW t3 \in Seq(Plain), NEW t4 \in Seq(Plain),
           NEW body, body = <<"ssid", "=">> \o t1 \o <<"&", "password", "=">> \o t2
                            \o <<"&", "hostname", "=">> \o t3 \o <<"&", "ntfy_topic", "=">> \o t4
    PROVE  Laid(body, t1, t2, t3, t4)
<1>1. PICK s1, s2, s3 : /\ s1 = <<"ssid", "=">> \o t1
                        /\ s2 = s1 \o <<"&", "password", "=">> \o t2
                        /\ s3 = s2 \o <<"&", "hostname", "=">> \o t3
                        /\ body = s3 \o <<"&", "ntfy_topic", "=">> \o t4
  OBVIOUS
<1>2. /\ "ssid" \in Names /\ "password" \in Names \ {"ssid"}
      /\ "hostname" \in Names \ {"ssid", "password"}
      /\ "ntfy_topic" \in Names \ {"ssid", "password", "hostname"}
  BY DEF Names
<1>3. /\ s1 \in Seq(Tokens) /\ FieldAt(s1, "ssid", 1, t1)
      /\ Without(s1, "password") /\ Without(s1, "hostname") /\ Without(s1, "ntfy_topic")
  <2>1. s1 = <<"ssid", "=">> \o t1
    BY <1>1
  <2> QED BY <1>2, <2>1, FieldFirst
<1>4. /\ s2 \in Seq(Tokens) /\ FieldAt(s2, "ssid", 1, t1)
      /\ FieldAt(s2, "password", Len(s1) + 2, t2) /\ Len(s1) < Len(s2)
      /\ Without(s2, "hostname") /\ Without(s2, "ntfy_topic")
  <2>1. s2 = s1 \o <<"&", "password", "=">> \o t2
    BY <1>1
  <2>2. PICK name \in Names : name = "password"
    BY <1>2
  <2>3. Without(s1, name) /\ s2 = s1 \o <<"&", name, "=">> \o t2
    BY <1>3, <2>1, <2>2
  <2>4. Appended(s1, name, t2, s2)
    BY <1>3, <2>3, FieldAfter
  <2> QED BY <1>2, <1>3, <2>2, <2>4 DEF Appended
<1>5. /\ s3 \in Seq(Tokens) /\ FieldAt(s3, "ssid", 1, t1)
      /\ FieldAt(s3, "password", Len(s1) + 2, t2) /\ Len(s2) < Len(s3)
      /\ FieldAt(s3, "hostname", Len(s2) + 2, t3)
      /\ Without(s3, "ntfy_topic")
  <2>1. s3 = s2 \o <<"&", "hostname", "=">> \o t3
    BY <1>1
  <2>2. PICK name \in Names : name = "hostname"
    BY <1>2
  <2>3. Without(s2, name) /\ s3 = s2 \o <<"&", name, "=">> \o t3
    BY <1>4, <2>1, <2>2
  <2>4. Appended(s2, name, t3, s3)
    BY <1>4, <2>3, FieldAfter
  <2> QED BY <1>2, <1>4, <2>2, <2>4 DEF Appended
<1>6. /\ body \in Seq(Tokens) /\ FieldAt(body, "ssid", 1, t1)
      /\ FieldAt(body, "password", Len(s1) + 2, t2)
      /\ FieldAt(body, "hostname", Len(s2) + 2, t3)
      /\ FieldAt(body, "ntfy_topic", Len(s3) + 2, t4)
  <2>1. body = s3 \o <<"&", "ntfy_topic", "=">> \o t4
    BY <1>1
  <2>2. PICK name \in Names : name = "ntfy_topic"
    BY <1>2
  <2>3. Without(s3, name) /\ body = s3 \o <<"&", name, "=">> \o t4
    BY <1>5, <2>1, <2>2
  <2>4. Appended(s3, name, t4, body)
    BY <1>5, <2>3, FieldAfter
  <2> QED BY <1>2, <1>5, <2>2, <2>4 DEF Appended
<1>7. PICK p2 \in Nat, p3 \in Nat, p4 \in Nat :
        p2 = Len(s1) + 2 /\ p3 = Len(s2) + 2 /\ p4 = Len(s3) + 2
  BY <1>3, <1>4, <1>5
<1>8. 1 < p4 /\ p2 < p4 /\ p3 < p4
  BY <1>3, <1>4, <1>5, <1>7
<1> QED BY <1>6, <1>7, <1>8 DEF Laid

\* The front of a body: whatever has come when the connection ends.
Prefix(b, body) == Len(b) <= Len(body) /\ \A i \in 1..Len(b) : b[i] = body[i]

\* A field that a later name follows is there in full.
LEMMA FieldInPrefix ==
    ASSUME NEW body \in Seq(Tokens), NEW b \in Seq(Tokens), Prefix(b, body),
           NEW name \in Names, NEW other \in Names, NEW p, NEW t \in Seq(Plain),
           FieldAt(body, name, p, t), NEW q \in 1..Len(b), p < q, b[q] = other
    PROVE  FieldAt(b, name, p, t)
<1>1. PICK m \in Nat, n \in Nat : m = Len(t) /\ n = Len(b)
  OBVIOUS
<1>2. n <= Len(body) /\ \A i \in 1..n : b[i] = body[i]
  BY <1>1 DEF Prefix
<1>3. /\ p \in 1..Len(body) /\ p + 1 + m <= Len(body)
      /\ p = 1 \/ body[p - 1] = "&"
      /\ body[p] = name /\ body[p + 1] = "="
      /\ \A k \in 1..m : body[p + 1 + k] = t[k]
      /\ p + 1 + m < Len(body) => body[p + 2 + m] = "&"
      /\ \A i \in 1..Len(body) : body[i] = name => i = p
  BY <1>1, Zenon DEF FieldAt
<1>4. Len(body) \in Nat /\ q \in 1..n /\ body[q] = other
  BY <1>1, <1>2
<1>5. p + 1 + m < q
  <2>1. SUFFICES ASSUME q <= p + 1 + m PROVE FALSE
    BY <1>3, <1>4
  <2>2. CASE q = p + 1
    BY <1>3, <1>4, <2>2, Apart
  <2>3. CASE q > p + 1
    <3>1. PICK k \in 1..m : q = p + 1 + k
      <4>1. q - (p + 1) \in 1..m /\ q = p + 1 + (q - (p + 1))
        BY <1>3, <1>4, <2>1, <2>3
      <4> QED BY <4>1
    <3>2. body[q] = t[k] /\ t[k] \in Plain
      BY <1>1, <1>3, <3>1
    <3> QED BY <1>4, <3>2, Apart
  <2> QED BY <1>3, <1>4, <2>2, <2>3
<1>6. p \in 1..n /\ p + 1 + m < n /\ p + 1 \in 1..n /\ p + 2 + m \in 1..n /\ n <= Len(body)
  BY <1>2, <1>3, <1>4, <1>5
<1>7. p = 1 \/ b[p - 1] = "&"
  <2>1. p # 1 => p - 1 \in 1..n
    BY <1>6
  <2> QED BY <1>2, <1>3, <2>1
<1>8. b[p] = name /\ b[p + 1] = "="
  BY <1>2, <1>3, <1>6
<1>9. ASSUME NEW k \in 1..m PROVE b[p + 1 + k] = t[k]
  <2>1. p + 1 + k \in 1..n
    BY <1>6
  <2> QED BY <1>2, <1>3, <2>1
<1>10. b[p + 2 + m] = "&"
  <2>1. p + 1 + m < Len(body)
    BY <1>4, <1>6
  <2> QED BY <1>2, <1>3, <1>6, <2>1
<1>11. ASSUME NEW i \in 1..n, b[i] = name PROVE i = p
  <2>1. i \in 1..Len(body) /\ body[i] = name
    BY <1>2, <1>4, <1>11
  <2> QED BY <1>3, <2>1
<1>12. p + 1 + m <= n
  BY <1>6
<1> QED BY <1>1, <1>6, <1>7, <1>8, <1>9, <1>10, <1>11, <1>12 DEF FieldAt

\* A value of the form is decoded to what was typed.
LEMMA FormDecoded ==
    ASSUME NEW v \in Seq(Setup!Bytes), Setup!IsUtf8(v)
    PROVE  Setup!Encoded(v) \in Seq(Plain) /\ Setup!form_decode(Setup!Encoded(v)) = v
<1>1. Setup!Encoded(v) \in Seq(Plain) /\ Setup!Decoded(Setup!Encoded(v)) = v
  BY RoundTrip
<1> QED BY <1>1, Zenon DEF Setup!form_decode

\* A value that was found has its name somewhere.
LEMMA NameThere ==
    ASSUME NEW b \in Seq(Tokens), NEW name, Setup!ValueOf(b, name) # <<>>
    PROVE  \E q \in 1..Len(b) : b[q] = name
<1> DEFINE found == {i \in Setup!Starts(b) : i < Len(b) /\ b[i] = name /\ b[i + 1] = "="}
<1>1. found # {}
  <2>1. SUFFICES ASSUME found = {} PROVE Setup!ValueOf(b, name) = <<>>
    OBVIOUS
  <2> QED BY <2>1, Zenon DEF Setup!ValueOf
<1> QED BY <1>1 DEF Setup!Starts

\* What is accepted: every field that is required was found, and the settings are valid.
LEMMA ParsedIs ==
    ASSUME NEW b, Setup!parse_provisioning(b) # Setup!None,
           NEW p, p = Setup!parse_provisioning(b)
    PROVE  /\ \A name \in Setup!Fields \ {"password"} : Setup!ValueOf(b, name) # <<>>
           /\ Setup!is_valid(p)
           /\ p = [name \in Setup!Fields |->
                     IF Setup!ValueOf(b, name) = <<>> THEN <<>> ELSE Setup!ValueOf(b, name)[1]]
<1> DEFINE value == [name \in Setup!Fields |-> Setup!ValueOf(b, name)]
           accepted == [name \in Setup!Fields |-> IF value[name] = <<>> THEN <<>> ELSE value[name][1]]
           ok == /\ \A name \in Setup!Fields \ {"password"} : value[name] # <<>>
                 /\ Setup!is_valid(accepted)
<1>1. Setup!parse_provisioning(b) = IF ok THEN accepted ELSE Setup!None
  BY Zenon DEF Setup!parse_provisioning
<1>2. ok /\ p = accepted
  <2> HIDE DEF ok, accepted
  <2> QED BY <1>1
<1>3. \A name \in Setup!Fields : value[name] = Setup!ValueOf(b, name)
  OBVIOUS
<1>4. p = [name \in Setup!Fields |->
             IF Setup!ValueOf(b, name) = <<>> THEN <<>> ELSE Setup!ValueOf(b, name)[1]]
  <2>1. p = [name \in Setup!Fields |-> IF value[name] = <<>> THEN <<>> ELSE value[name][1]]
    BY <1>2
  <2> HIDE DEF value
  <2> QED BY <1>3, <2>1
<1>5. Setup!is_valid(p)
  BY <1>2
<1>6. ASSUME NEW name \in Setup!Fields \ {"password"} PROVE Setup!ValueOf(b, name) # <<>>
  <2>1. value[name] # <<>>
    BY <1>2
  <2> HIDE DEF value
  <2> QED BY <1>3, <2>1
<1> QED BY <1>4, <1>5, <1>6

\* Settings that are accepted from a submitted form, in full or not, are those of the form.
LEMMA ParsedAsTyped ==
    ASSUME Setup!FormAssumption, NEW f \in Setup!Submittable,
           NEW b \in Seq(Tokens), Prefix(b, Setup!Body(f)),
           Setup!parse_provisioning(b) # Setup!None, NEW p, p = Setup!parse_provisioning(b)
    PROVE  p.ssid = f.ssid /\ p.password = f.password /\ p.hostname = f.hostname
<1>1. /\ f.ssid \in Seq(Setup!Bytes) /\ Setup!IsUtf8(f.ssid)
      /\ f.password \in Seq(Setup!Bytes) /\ Setup!IsUtf8(f.password)
      /\ f.hostname \in Seq(Setup!Bytes) /\ Setup!IsUtf8(f.hostname)
      /\ f.ntfy_topic \in Seq(Setup!Bytes)
  <2>1. f.ssid \in Ssids /\ f.password \in Passwords /\ f.hostname \in Hostnames /\ f.ntfy_topic \in EnteredTopics
    BY DEF Setup!Submittable
  <2> QED BY <2>1 DEF Setup!FormAssumption
<1>2. PICK t1 \in Seq(Plain), t2 \in Seq(Plain), t3 \in Seq(Plain), t4 \in Seq(Plain) :
        /\ t1 = Setup!Encoded(f.ssid) /\ t2 = Setup!Encoded(f.password)
        /\ t3 = Setup!Encoded(f.hostname) /\ t4 = Setup!Encoded(f.ntfy_topic)
  <2>1. Setup!Encoded(f.ssid) \in Seq(Plain) /\ Setup!Encoded(f.password) \in Seq(Plain)
    BY <1>1, RoundTrip
  <2>2. Setup!Encoded(f.hostname) \in Seq(Plain) /\ Setup!Encoded(f.ntfy_topic) \in Seq(Plain)
    BY <1>1, RoundTrip
  <2> QED BY <2>1, <2>2
<1>3. PICK body : body = Setup!Body(f)
  OBVIOUS
<1>4. body = <<"ssid", "=">> \o t1 \o <<"&", "password", "=">> \o t2
              \o <<"&", "hostname", "=">> \o t3 \o <<"&", "ntfy_topic", "=">> \o t4
  BY <1>2, <1>3, Zenon DEF Setup!Body
<1>5. Laid(body, t1, t2, t3, t4)
  BY <1>4, BodyIs
<1>6. PICK p2 \in Nat, p3 \in Nat, p4 \in Nat :
            /\ FieldAt(body, "ssid", 1, t1) /\ FieldAt(body, "password", p2, t2)
            /\ FieldAt(body, "hostname", p3, t3) /\ FieldAt(body, "ntfy_topic", p4, t4)
            /\ 1 < p4 /\ p2 < p4 /\ p3 < p4
  BY <1>5, Zenon DEF Laid
<1>7. Prefix(b, body) /\ body \in Seq(Tokens)
  BY <1>3, <1>5 DEF Laid
<1>8. /\ "ssid" \in Names /\ "password" \in Names /\ "hostname" \in Names /\ "ntfy_topic" \in Names
      /\ Setup!Fields = Names /\ "ntfy_topic" \in Setup!Fields \ {"password"}
  BY DEF Names, Setup!Fields
<1>9. /\ \A name \in Setup!Fields \ {"password"} : Setup!ValueOf(b, name) # <<>>
      /\ p = [name \in Setup!Fields |->
                IF Setup!ValueOf(b, name) = <<>> THEN <<>> ELSE Setup!ValueOf(b, name)[1]]
  BY ParsedIs
<1>10. PICK q \in 1..Len(b) : b[q] = "ntfy_topic"
  <2>1. Setup!ValueOf(b, "ntfy_topic") # <<>>
    BY <1>8, <1>9
  <2> QED BY <2>1, NameThere
<1>11. q = p4
  <2>1. q \in 1..Len(body) /\ body[q] = "ntfy_topic"
    BY <1>7, <1>10 DEF Prefix
  <2> QED BY <1>6, <2>1 DEF FieldAt
<1>12. ASSUME NEW name \in Names, NEW i, NEW t \in Seq(Plain), FieldAt(body, name, i, t), i < p4,
              NEW v \in Seq(Setup!Bytes), Setup!IsUtf8(v), t = Setup!Encoded(v)
       PROVE  p[name] = v
  <2>1. FieldAt(b, name, i, t)
    <3>1. q \in 1..Len(b) /\ i < q /\ b[q] = "ntfy_topic"
      BY <1>10, <1>11, <1>12
    <3> QED BY <1>7, <1>8, <1>12, <3>1, FieldInPrefix
  <2>2. Setup!ValueOf(b, name) = <<Setup!form_decode(t)>>
    BY <2>1, ValueIs
  <2>3. Setup!form_decode(t) = v
    BY <1>12, FormDecoded
  <2>4. Setup!ValueOf(b, name) = <<v>> /\ <<v>> # <<>> /\ <<v>>[1] = v
    BY <2>2, <2>3
  <2>5. p[name] = IF Setup!ValueOf(b, name) = <<>> THEN <<>> ELSE Setup!ValueOf(b, name)[1]
    BY <1>8, <1>9
  <2> QED BY <2>4, <2>5
<1>13. p["ssid"] = f.ssid
  BY <1>1, <1>2, <1>6, <1>8, <1>12
<1>14. p["password"] = f.password
  BY <1>1, <1>2, <1>6, <1>8, <1>12
<1>15. p["hostname"] = f.hostname
  BY <1>1, <1>2, <1>6, <1>8, <1>12
<1> QED BY <1>13, <1>14, <1>15

\* A posted request: its request line, the end of its headers and its body.
LEMMA PostIs ==
    ASSUME Setup!FormAssumption, NEW f \in Setup!Submittable, NEW whole, whole = Setup!Post(f),
           NEW body, body = Setup!Body(f)
    PROVE  /\ whole \in Seq(Tokens) /\ body \in Seq(Tokens) /\ Len(whole) = 2 + Len(body)
           /\ \A i \in 1..Len(body) : whole[2 + i] = body[i]
<1>1. body \in Seq(Tokens)
  <2>1. /\ f.ssid \in Seq(Setup!Bytes) /\ f.password \in Seq(Setup!Bytes)
        /\ f.hostname \in Seq(Setup!Bytes) /\ f.ntfy_topic \in Seq(Setup!Bytes)
    <3>1. f.ssid \in Ssids /\ f.password \in Passwords /\ f.hostname \in Hostnames /\ f.ntfy_topic \in EnteredTopics
      BY DEF Setup!Submittable
    <3> QED BY <3>1 DEF Setup!FormAssumption
  <2>2. PICK t1 \in Seq(Plain), t2 \in Seq(Plain), t3 \in Seq(Plain), t4 \in Seq(Plain) :
          /\ t1 = Setup!Encoded(f.ssid) /\ t2 = Setup!Encoded(f.password)
          /\ t3 = Setup!Encoded(f.hostname) /\ t4 = Setup!Encoded(f.ntfy_topic)
    <3>1. Setup!Encoded(f.ssid) \in Seq(Plain) /\ Setup!Encoded(f.password) \in Seq(Plain)
      BY <2>1, RoundTrip
    <3>2. Setup!Encoded(f.hostname) \in Seq(Plain) /\ Setup!Encoded(f.ntfy_topic) \in Seq(Plain)
      BY <2>1, RoundTrip
    <3> QED BY <3>1, <3>2
  <2>3. body = <<"ssid", "=">> \o t1 \o <<"&", "password", "=">> \o t2
                \o <<"&", "hostname", "=">> \o t3 \o <<"&", "ntfy_topic", "=">> \o t4
    BY <2>2, Zenon DEF Setup!Body
  <2> QED BY <2>3, BodyIs DEF Laid
<1>2. PICK head \in Seq(Tokens) : head = <<"POST /configure ", "end of headers">> /\ Len(head) = 2
  <2>1. "POST /configure " \in Tokens /\ "end of headers" \in Tokens
    BY DEF Tokens
  <2>2. PICK head : head = <<"POST /configure ", "end of headers">>
    OBVIOUS
  <2>3. head \in Seq(Tokens) /\ Len(head) = 2
    BY <2>1, <2>2, Pair
  <2> QED BY <2>2, <2>3
<1>3. whole = head \o body
  BY <1>2 DEF Setup!Post
<1>4. whole \in Seq(Tokens) /\ Joins(head, body, whole)
  BY <1>1, <1>3, JoinedIs
<1> QED BY <1>1, <1>2, <1>4 DEF Joins

\* What the client of this connection sends.
Sends(whole) ==
    \/ form \in Setup!Submittable /\ whole = Setup!Post(form)
    \/ whole = <<"GET", "end of headers">>

\* What has been read, and what is still to come.
Parted(whole, front, rest) ==
    /\ front \in Seq(Tokens) /\ rest \in Seq(Tokens)
    /\ Len(front) + Len(rest) = Len(whole)
    /\ \A i \in 1..Len(front) : front[i] = whole[i]
    /\ \A i \in 1..Len(rest) : rest[i] = whole[Len(front) + i]

RequestInv ==
    server \in {"read", "respond"} =>
        \E whole \in Seq(Tokens) : Sends(whole) /\ Parted(whole, request, wire)

\* At first everything is still to come.
LEMMA AllToCome ==
    ASSUME NEW whole \in Seq(Tokens)
    PROVE  Parted(whole, <<>>, whole)
<1>0. <<>> \in Seq(Tokens) /\ Len(<<>>) = 0
  BY EmptySeq
<1>1. PICK none \in Seq(Tokens) : none = <<>> /\ Len(none) = 0
  BY <1>0
<1>2. Parted(whole, none, whole)
  BY <1>1 DEF Parted
<1> QED BY <1>1, <1>2

\* A portion of n tokens is read.
Portion(front, rest, n, front2, rest2) ==
    /\ n \in 1..Len(rest)
    /\ front2 = front \o SubSeq(rest, 1, n) /\ rest2 = SubSeq(rest, n + 1, Len(rest))

\* A portion moves tokens from what is to come to what has been read.
LEMMA PortionRead ==
    ASSUME NEW whole \in Seq(Tokens), NEW front, NEW rest, Parted(whole, front, rest),
           NEW n, NEW front2, NEW rest2, Portion(front, rest, n, front2, rest2)
    PROVE  Parted(whole, front2, rest2)
<1>0. /\ n \in 1..Len(rest)
      /\ front2 = front \o SubSeq(rest, 1, n) /\ rest2 = SubSeq(rest, n + 1, Len(rest))
  BY DEF Portion
<1>1. /\ front \in Seq(Tokens) /\ rest \in Seq(Tokens) /\ Len(front) \in Nat /\ Len(rest) \in Nat
      /\ Len(front) + Len(rest) = Len(whole)
      /\ \A i \in 1..Len(front) : front[i] = whole[i]
      /\ \A i \in 1..Len(rest) : rest[i] = whole[Len(front) + i]
  BY DEF Parted
<1>2. PICK part : part = SubSeq(rest, 1, n)
  OBVIOUS
<1>3. /\ part \in Seq(Tokens) /\ Len(part) = n
      /\ \A i \in 1..n : part[i] = rest[i]
  BY <1>0, <1>1, <1>2
<1>4. front2 \in Seq(Tokens) /\ Joins(front, part, front2)
  <2>1. front2 = front \o part
    BY <1>0, <1>2
  <2> QED BY <1>1, <1>3, <2>1, JoinedIs
<1>5. /\ Len(front2) = Len(front) + n
      /\ \A i \in 1..Len(front) : front2[i] = front[i]
      /\ \A i \in 1..n : front2[Len(front) + i] = part[i]
  BY <1>3, <1>4 DEF Joins
<1>6. /\ rest2 \in Seq(Tokens) /\ Len(rest2) = Len(rest) - n
      /\ \A i \in 1..Len(rest) - n : rest2[i] = rest[n + i]
  <2>1. /\ rest2 \in Seq(Tokens)
        /\ Len(rest2) = IF n + 1 <= Len(rest) THEN Len(rest) - (n + 1) + 1 ELSE 0
        /\ \A i \in 1..(Len(rest) - (n + 1) + 1) : rest2[i] = rest[n + 1 + i - 1]
    <3>1. PICK l \in Nat : l = Len(rest) /\ n \in 1..l /\ rest2 = SubSeq(rest, n + 1, l)
      BY <1>0, <1>1
    <3>2. n + 1 \in Int /\ l \in Int /\ \A i \in (n + 1)..l : rest[i] \in Tokens
      BY <1>1, <3>1
    <3>3. /\ SubSeq(rest, n + 1, l) \in Seq(Tokens)
          /\ Len(SubSeq(rest, n + 1, l)) = IF n + 1 <= l THEN l - (n + 1) + 1 ELSE 0
          /\ \A i \in 1..(l - (n + 1) + 1) : SubSeq(rest, n + 1, l)[i] = rest[n + 1 + i - 1]
      BY <1>0, <1>1, <3>1, <3>2, SubSeqProperties
    <3> QED BY <3>1, <3>3
  <2>2. Len(rest) - (n + 1) + 1 = Len(rest) - n /\ \A i \in 1..Len(rest) - n : n + 1 + i - 1 = n + i
    BY <1>0, <1>1
  <2>3. Len(rest2) = Len(rest) - n
    BY <1>0, <1>1, <2>1
  <2> QED BY <2>1, <2>2, <2>3
<1>7. ASSUME NEW i \in 1..Len(front2) PROVE front2[i] = whole[i]
  <2>1. CASE i <= Len(front)
    BY <1>1, <1>5, <2>1
  <2>2. CASE i > Len(front)
    <3>1. PICK k \in 1..n : i = Len(front) + k
      <4>1. i - Len(front) \in 1..n /\ i = Len(front) + (i - Len(front))
        BY <1>0, <1>1, <1>5, <2>2
      <4> QED BY <4>1
    <3>2. k \in 1..Len(rest)
      BY <1>0, <1>1
    <3>3. front2[i] = part[k] /\ part[k] = rest[k] /\ rest[k] = whole[Len(front) + k]
      BY <1>1, <1>3, <1>5, <3>1, <3>2
    <3>4. front2[i] = front2[Len(front) + k] /\ whole[i] = whole[Len(front) + k]
      BY <3>1
    <3> QED BY <3>3, <3>4, Zenon
  <2>3. PICK l \in Nat : l = Len(front)
    BY <1>1
  <2>4. i \in Nat
    BY <1>4
  <2>5. i <= l \/ i > l
    BY <2>4
  <2> QED BY <2>1, <2>2, <2>3, <2>5
<1>8. ASSUME NEW i \in 1..Len(rest2) PROVE rest2[i] = whole[Len(front2) + i]
  <2>1. n + i \in 1..Len(rest) /\ Len(front) + (n + i) = Len(front2) + i
    BY <1>0, <1>1, <1>5, <1>6
  <2>2. rest[n + i] = whole[Len(front) + (n + i)]
    BY <1>1, <2>1
  <2> QED BY <1>6, <2>1, <2>2
<1>9. Len(front2) + Len(rest2) = Len(whole)
  <2>1. PICK x \in Nat, y \in Nat, k \in Nat : x = Len(front) /\ y = Len(rest) /\ k = n
    BY <1>0, <1>1
  <2>2. Len(front2) = x + k /\ Len(rest2) = y - k /\ x + y = Len(whole)
    BY <1>1, <1>5, <1>6, <2>1
  <2> QED BY <2>1, <2>2
<1> QED BY <1>4, <1>5, <1>6, <1>7, <1>8, <1>9 DEF Parted

\* What follows the headers of a posted request is the front of its body.
LEMMA BodyOf ==
    ASSUME Setup!FormAssumption, NEW f \in Setup!Submittable, NEW whole, whole = Setup!Post(f),
           NEW front, NEW rest, Parted(whole, front, rest),
           NEW b, b = SubSeq(front, 3, Len(front))
    PROVE  b \in Seq(Tokens) /\ Prefix(b, Setup!Body(f))
<1>1. PICK body : body = Setup!Body(f)
  OBVIOUS
<1>2. /\ whole \in Seq(Tokens) /\ body \in Seq(Tokens) /\ Len(whole) = 2 + Len(body)
      /\ \A i \in 1..Len(body) : whole[2 + i] = body[i]
  BY <1>1, PostIs
<1>3. /\ front \in Seq(Tokens) /\ rest \in Seq(Tokens)
      /\ Len(front) + Len(rest) = Len(whole)
      /\ \A i \in 1..Len(front) : front[i] = whole[i]
  BY DEF Parted
<1>4. PICK n \in Nat : n = Len(front) /\ n <= 2 + Len(body)
  BY <1>2, <1>3
<1>5. /\ b \in Seq(Tokens) /\ Len(b) = IF 3 <= n THEN n - 3 + 1 ELSE 0
      /\ \A i \in 1..(n - 3 + 1) : b[i] = front[3 + i - 1]
  BY <1>3, <1>4
<1>6. Len(body) \in Nat
  BY <1>2
<1>7. Len(b) <= Len(body)
  BY <1>4, <1>5, <1>6
<1>8. ASSUME NEW i \in 1..Len(b) PROVE b[i] = body[i]
  <2>1. i \in 1..(n - 3 + 1) /\ 3 + i - 1 = 2 + i /\ 2 + i \in 1..n /\ i \in 1..Len(body)
    BY <1>4, <1>5, <1>6
  <2> QED BY <1>2, <1>3, <1>4, <1>5, <2>1
<1> QED BY <1>1, <1>5, <1>7, <1>8 DEF Prefix

\* What parse_provisioning accepts is usable.
LEMMA ParsedUsable ==
    ASSUME NEW b, Setup!parse_provisioning(b) # Setup!None, saved' = Setup!parse_provisioning(b)
    PROVE  Setup!SavedUsable'
<1>1. PICK p : p = Setup!parse_provisioning(b)
  OBVIOUS
<1>2. Setup!is_valid(p)
  BY <1>1, ParsedIs
<1>3. /\ p.hostname # <<>> /\ Len(p.hostname) <= MaxName
      /\ p.ssid # <<>> /\ Len(p.ssid) <= MaxName
      /\ Setup!ToSet(p.hostname) \subseteq Setup!Alphanumeric \cup {"-"}
      /\ Setup!ToSet(p.ntfy_topic) \subseteq Setup!Alphanumeric \cup {"-", "_"}
  BY <1>2, Zenon DEF Setup!is_valid
<1>4. \A x \in Setup!ToSet(p.hostname) \cup Setup!ToSet(p.ntfy_topic) :
         x \in Setup!Alphanumeric \cup {"-", "_"}
  BY <1>3
<1>5. saved' = p
  BY <1>1
<1> QED BY <1>3, <1>4, <1>5 DEF Setup!SavedUsable

\* Every step keeps the parts of the request together.
LEMMA RequestStep ==
    ASSUME Setup!FormAssumption, RequestInv, [Setup!Next]_(Setup!vars)
    PROVE  RequestInv'
<1>1. CASE Setup!Accepts
  <2>1. server' = "read" /\ request' = <<>>
    BY <1>1 DEF Setup!Accepts
  <2>2. RequestInv'
    <3>3. ASSUME NEW whole \in Seq(Tokens), whole = wire', Sends(whole)' PROVE RequestInv'
      <4>1. Parted(whole, <<>>, whole)
        BY AllToCome
      <4>2. Parted(whole, request', wire')
        BY <2>1, <3>3, <4>1
      <4> QED BY <3>3, <4>2 DEF RequestInv
    <3>1. CASE form' \in Setup!Submittable /\ wire' = Setup!Post(form')
      <4>1. PICK whole : whole = wire'
        OBVIOUS
      <4>2. whole \in Seq(Tokens)
        BY <3>1, <4>1, PostIs
      <4>3. Sends(whole)'
        BY <3>1, <4>1 DEF Sends
      <4> QED BY <3>3, <4>1, <4>2, <4>3
    <3>2. CASE wire' = <<"GET", "end of headers">>
      <4>1. PICK whole : whole = wire'
        OBVIOUS
      <4>2. "GET" \in Tokens /\ "end of headers" \in Tokens
        BY DEF Tokens
      <4>3. whole \in Seq(Tokens)
        BY <3>2, <4>1, <4>2, Pair
      <4>4. Sends(whole)'
        BY <3>2, <4>1 DEF Sends
      <4> QED BY <3>3, <4>1, <4>3, <4>4
    <3> QED BY <1>1, <3>1, <3>2 DEF Setup!Accepts
  <2> QED BY <2>2
<1>2. CASE Setup!Reads
  <2>1. PICK n \in 1..Len(wire) : /\ request' = request \o SubSeq(wire, 1, n)
                                  /\ wire' = SubSeq(wire, n + 1, Len(wire))
    BY <1>2 DEF Setup!Reads
  <2>2. server = "read" /\ form' = form
    BY <1>2 DEF Setup!Reads
  <2>3. PICK whole \in Seq(Tokens) : Sends(whole) /\ Parted(whole, request, wire)
    BY <2>2 DEF RequestInv
  <2>4. Parted(whole, request', wire')
    <3>1. PICK front, rest, front2, rest2 :
            front = request /\ rest = wire /\ front2 = request' /\ rest2 = wire'
      OBVIOUS
    <3>2. Parted(whole, front, rest) /\ Portion(front, rest, n, front2, rest2)
      BY <2>1, <2>3, <3>1 DEF Portion
    <3>3. Parted(whole, front2, rest2)
      BY <3>2, PortionRead
    <3> QED BY <3>1, <3>3
  <2>5. Sends(whole)'
    BY <2>2, <2>3 DEF Sends
  <2>6. RequestInv'
    BY <2>4, <2>5 DEF RequestInv
  <2> QED BY <2>6
<1>3. CASE Setup!ReadEnds
  BY <1>3 DEF Setup!ReadEnds, RequestInv, Sends
<1>4. CASE Setup!Responds
  <2>1. server' = "accept" \/ server' = "restart"
    BY <1>4, Zenon DEF Setup!Responds
  <2> QED BY <2>1 DEF RequestInv
<1>5. CASE Setup!Restarts
  BY <1>5 DEF Setup!Restarts, RequestInv
<1>6. CASE UNCHANGED Setup!vars
  BY <1>6 DEF Setup!vars, RequestInv, Sends
<1> QED BY <1>1, <1>2, <1>3, <1>4, <1>5, <1>6 DEF Setup!Next


\* Whatever is typed into the form and wherever the connection ends, the settings that are
\* saved can be used, and the network, its password and the hostname are what was typed: they
\* are encoded by the browser, cut into portions by TCP, decoded, and accepted only with the
\* field after them (provisioning_server, read_request, parse_provisioning, form_decode).
THEOREM FormSavedAsTyped ==
    ASSUME Setup!FormAssumption
    PROVE  Setup!Spec => [](Setup!SavedUsable /\ Setup!SavedAsTyped)
<1> DEFINE Inv == RequestInv /\ Setup!SavedUsable /\ Setup!SavedAsTyped
<1>1. Setup!Init => Inv
  BY DEF Setup!Init, RequestInv, Setup!SavedUsable, Setup!SavedAsTyped
<1>2. Inv /\ [Setup!Next]_(Setup!vars) => Inv'
  <2> SUFFICES ASSUME RequestInv, Setup!SavedUsable, Setup!SavedAsTyped, [Setup!Next]_(Setup!vars)
               PROVE  Setup!SavedUsable' /\ Setup!SavedAsTyped'
    BY RequestStep
  <2>1. CASE Setup!Accepts
    <3>1. server' = "read" /\ saved' = saved
      BY <2>1 DEF Setup!Accepts
    <3> QED BY <3>1 DEF Setup!SavedUsable, Setup!SavedAsTyped
  <2>2. CASE Setup!Reads
    <3>1. server' # "restart" /\ saved' = saved
      BY <2>2 DEF Setup!Reads
    <3> QED BY <3>1 DEF Setup!SavedUsable, Setup!SavedAsTyped
  <2>3. CASE Setup!ReadEnds
    BY <2>3 DEF Setup!ReadEnds, Setup!SavedUsable, Setup!SavedAsTyped
  <2>4. CASE Setup!Responds
    <3>1. server = "respond"
      BY <2>4 DEF Setup!Responds
    <3>2. CASE server' = "accept" /\ saved' = saved
      BY <3>2 DEF Setup!SavedUsable, Setup!SavedAsTyped
    <3>3. CASE server' # "accept"
      <4>1. PICK b : b = SubSeq(request, 3, Len(request))
        OBVIOUS
      <4>2. /\ request # <<>> /\ request[1] = "POST /configure "
            /\ Setup!parse_provisioning(b) # Setup!None
            /\ saved' = Setup!parse_provisioning(b)
            /\ server' = "restart" /\ form' = form
        BY <2>4, <3>3, <4>1, Zenon DEF Setup!Responds
      <4>3. PICK whole \in Seq(Tokens) : Sends(whole) /\ Parted(whole, request, wire)
        BY <3>1 DEF RequestInv
      <4>4. form \in Setup!Submittable /\ whole = Setup!Post(form)
        <5>1. request \in Seq(Tokens) /\ \A i \in 1..Len(request) : request[i] = whole[i]
          BY <4>3 DEF Parted
        <5>2. 1 \in 1..Len(request)
          <6>1. Len(request) \in Nat /\ Len(request) # 0
            BY <4>2, <5>1, EmptySeq
          <6> QED BY <6>1
        <5>3. whole[1] = "POST /configure "
          BY <4>2, <5>1, <5>2
        <5>4. whole # <<"GET", "end of headers">>
          <6>1. <<"GET", "end of headers">>[1] = "GET"
            OBVIOUS
          <6>2. "GET" # "POST /configure "
            OBVIOUS
          <6> QED BY <5>3, <6>1, <6>2
        <5> QED BY <4>3, <5>4 DEF Sends
      <4>5. b \in Seq(Tokens) /\ Prefix(b, Setup!Body(form))
        BY <4>1, <4>3, <4>4, BodyOf
      <4>6. PICK p : p = Setup!parse_provisioning(b)
        OBVIOUS
      <4>7. p.ssid = form.ssid /\ p.password = form.password /\ p.hostname = form.hostname
        BY <4>2, <4>4, <4>5, <4>6, ParsedAsTyped
      <4>8. Setup!SavedAsTyped'
        BY <4>2, <4>6, <4>7 DEF Setup!SavedAsTyped
      <4>9. Setup!SavedUsable'
        BY <4>2, ParsedUsable
      <4> QED BY <4>8, <4>9
    <3>4. server' = "accept" => saved' = saved
      BY <2>4, Zenon DEF Setup!Responds
    <3> QED BY <3>2, <3>3, <3>4
  <2>5. CASE Setup!Restarts
    BY <2>5 DEF Setup!Restarts, Setup!SavedUsable, Setup!SavedAsTyped
  <2>6. CASE UNCHANGED Setup!vars
    BY <2>6 DEF Setup!vars, Setup!SavedUsable, Setup!SavedAsTyped
  <2> QED BY <2>1, <2>2, <2>3, <2>4, <2>5, <2>6 DEF Setup!Next
<1>3. Inv => Setup!SavedUsable /\ Setup!SavedAsTyped
  OBVIOUS
<1> QED BY <1>1, <1>2, <1>3, PTL DEF Setup!Spec

\* However TCP cuts a request into portions, the server goes on reading until it is there in
\* full, and then no longer (read_request).
THEOREM FormReadToItsEnd ==
    ASSUME Setup!FormAssumption, Setup!RequestsFit
    PROVE  Setup!Spec => []Setup!ReadToItsEnd
<1> DEFINE Inv == RequestInv /\ Setup!ReadToItsEnd
<1>1. Setup!Init => Inv
  BY DEF Setup!Init, RequestInv, Setup!ReadToItsEnd
<1>2. Inv /\ [Setup!Next]_(Setup!vars) => Inv'
  <2> SUFFICES ASSUME RequestInv, Setup!ReadToItsEnd, [Setup!Next]_(Setup!vars)
               PROVE  Setup!ReadToItsEnd'
    BY RequestStep
  <2>1. CASE Setup!Accepts
    BY <2>1 DEF Setup!Accepts, Setup!ReadToItsEnd
  <2>2. CASE Setup!Reads
    <3>1. SUFFICES ASSUME server' = "respond" PROVE wire' = <<>>
      BY DEF Setup!ReadToItsEnd
    <3>2. server = "read" /\ form' = form
      BY <2>2 DEF Setup!Reads
    <3>3. PICK n \in 1..Len(wire) : /\ request' = request \o SubSeq(wire, 1, n)
                                    /\ wire' = SubSeq(wire, n + 1, Len(wire))
      BY <2>2 DEF Setup!Reads
    <3>4. PICK whole \in Seq(Tokens) : Sends(whole) /\ Parted(whole, request, wire)
      BY <3>2 DEF RequestInv
    <3>5. PICK front, rest, front2, rest2 :
            front = request /\ rest = wire /\ front2 = request' /\ rest2 = wire'
      OBVIOUS
    <3>6. Parted(whole, front2, rest2)
      <4>1. Parted(whole, front, rest) /\ Portion(front, rest, n, front2, rest2)
        BY <3>3, <3>4, <3>5 DEF Portion
      <4> QED BY <4>1, PortionRead
    <3>7. Len(whole) <= MaxRequest
      <4>1. CASE form \in Setup!Submittable /\ whole = Setup!Post(form)
        BY <4>1 DEF Setup!RequestsFit
      <4>2. CASE whole = <<"GET", "end of headers">>
        <5>1. Len(whole) = 2
          BY <4>2
        <5> QED BY <5>1 DEF Setup!RequestsFit
      <4> QED BY <3>4, <4>1, <4>2 DEF Sends
    <3>8. PICK l \in Nat, x \in Nat, y \in Nat :
            l = Len(whole) /\ x = Len(front2) /\ y = Len(rest2) /\ x + y = l
      BY <3>6 DEF Parted
    <3>9. x = l \/ x = MaxRequest
      <4>1. Setup!Complete(request', Len(request) + Len(wire)) \/ Len(request') = MaxRequest
        BY <2>2, <3>1, Zenon DEF Setup!Reads
      <4>2. Len(request) + Len(wire) = Len(whole)
        BY <3>4 DEF Parted
      <4> QED BY <3>5, <3>8, <4>1, <4>2 DEF Setup!Complete
    <3>10. y = 0
      <4>1. MaxRequest \in Nat
        BY DEF Setup!FormAssumption
      <4> QED BY <3>7, <3>8, <3>9, <4>1
    <3>11. rest2 \in Seq(Tokens)
      BY <3>6 DEF Parted
    <3>12. rest2 = <<>>
      BY <3>8, <3>10, <3>11, EmptySeq
    <3> QED BY <3>5, <3>12
  <2>3. CASE Setup!ReadEnds
    BY <2>3 DEF Setup!ReadEnds, Setup!ReadToItsEnd
  <2>4. CASE Setup!Responds
    <3>1. server' = "accept" \/ server' = "restart"
      BY <2>4, Zenon DEF Setup!Responds
    <3> QED BY <3>1 DEF Setup!ReadToItsEnd
  <2>5. CASE Setup!Restarts
    BY <2>5 DEF Setup!Restarts, Setup!ReadToItsEnd
  <2>6. CASE UNCHANGED Setup!vars
    BY <2>6 DEF Setup!vars, Setup!ReadToItsEnd
  <2> QED BY <2>1, <2>2, <2>3, <2>4, <2>5, <2>6 DEF Setup!Next
<1>3. Inv => Setup!ReadToItsEnd
  OBVIOUS
<1> QED BY <1>1, <1>2, <1>3, PTL DEF Setup!Spec

=============================================================================
