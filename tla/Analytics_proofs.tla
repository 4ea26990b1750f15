--------------------------- MODULE Analytics_proofs ---------------------------
(***************************************************************************)
(* Theorems about Analytics, for any number of tracks and any hit, age and *)
(* time constants.                                                         *)
(***************************************************************************)
EXTENDS Analytics, TLAPS

\* What the assumptions on the constants say, one by one.
LEMMA ConstantFacts ==
  /\ MaxIds \in Nat /\ NInit \in Nat /\ PublishEvery \in Nat
  /\ 1 <= MaxIds /\ 1 <= NInit /\ 1 <= PublishEvery
  /\ MaxAge \in Nat /\ PublishGrace \in Nat /\ Hold \in Nat /\ MaxGaze \in Nat
  /\ PublishGrace <= MaxAge /\ Hold < PublishEvery
BY CountAssumption, GraceAssumption, HoldAssumption

-----------------------------------------------------------------------------
(* The inductive invariant *)

\* Ids below nextId are the only ones in use, and the watched track has no
\* history before it is started.
Known ==
  /\ \A id \in DOMAIN byte \cup DOMAIN latch \cup DOMAIN gaze : id < nextId
  /\ watched >= nextId => ~place /\ owed = {} /\ looked = 0 /\ had = {}

\* A deleted track stays deleted.
Gone == "deleted" \in had => watched \notin DOMAIN byte /\ watched < nextId

\* The two maps of tracks agree on who is confirmed, and the tracks of this
\* turn are confirmed, lately seen, and have handed over their one-shots.
Agreed ==
  /\ \A id \in DOMAIN tracks : tracks[id].confirmed => byte[id].hits >= NInit
  /\ \A id \in DOMAIN latest :
       /\ id \in DOMAIN tracks /\ tracks[id].pending = {}
       /\ byte[id].hits >= NInit /\ byte[id].missed <= PublishGrace
  /\ step = "track" => DOMAIN latest = {}

\* Between the tracking and the message the tracks of this turn are all the people in
\* sight, and an event was latched for nobody who was not confirmed.
Present ==
  /\ step = "publish" => DOMAIN latest = Seen
  /\ \A id \in DOMAIN latch \cap DOMAIN byte : byte[id].hits >= NInit

\* The emission cache is no older than the last publish, and empty once expired.
Cache ==
  /\ heldAge <= Hold => sincePub <= heldAge
  /\ heldAge > Hold => DOMAIN held = {}

\* What the watched track has pending and what is latched for it are crossings of it
\* that it owes, or, after a recovery, its entry into a region it may never have left.
Accounted ==
  /\ watched \in DOMAIN tracks =>
       tracks[watched].inside = place /\ tracks[watched].pending \subseteq owed \cup Reentered
  /\ watched \in DOMAIN byte => Get(latch, watched, {}) \subseteq owed \cup Reentered

\* Before any recovery that is all it owes, unless a message skipped it.
Owed ==
  /\ watched \in DOMAIN latest => latest[watched] \subseteq Get(latch, watched, {})
  /\ watched \in DOMAIN byte /\ "recovered" \notin had =>
       /\ watched \in DOMAIN tracks /\ tracks[watched].inside = place
       /\ tracks[watched].pending \cup Get(latch, watched, {}) \subseteq owed
       /\ "skipped" \notin had =>
            owed = tracks[watched].pending \cup Get(latch, watched, {})

IInv == TypeOK /\ Known /\ Gone /\ Agreed /\ Present /\ Cache /\ Accounted /\ Owed
        /\ GazeCountsMessages

\* The initial state satisfies the inductive invariant.
LEMMA InitIInv == Init => IInv
<1> SUFFICES ASSUME Init PROVE IInv
  OBVIOUS
<1> USE ConstantFacts DEF Init
<1>1. DOMAIN Empty = {} /\ Empty = [id \in {} |-> {}]
  BY DEF Empty
<1>2. TypeOK
  <2>1. /\ DOMAIN byte \subseteq Ids /\ byte \in [DOMAIN byte -> [hits : 1 .. NInit, missed : 0 .. MaxAge]]
        /\ DOMAIN tracks \subseteq DOMAIN byte
        /\ tracks \in [DOMAIN tracks -> [confirmed : BOOLEAN, inside : BOOLEAN, pending : SUBSET Events]]
    BY <1>1
  <2>2. \A m \in {latest, latch, held} : DOMAIN m \subseteq Ids /\ m \in [DOMAIN m -> SUBSET Events]
    BY <1>1
  <2>3. DOMAIN gaze \subseteq Ids /\ gaze \in [DOMAIN gaze -> 0 .. MaxGaze]
    BY <1>1
  <2>4. nextId \in 1 .. MaxIds + 1 /\ sincePub \in 0 .. PublishEvery /\ heldAge \in 0 .. Hold + 1
        /\ looked \in 0 .. MaxGaze
    OBVIOUS
  <2>5. QED BY <2>1, <2>2, <2>3, <2>4 DEF TypeOK
<1>3. Known /\ Gone /\ Agreed /\ Present /\ Accounted /\ Owed /\ GazeCountsMessages
  BY <1>1 DEF Known, Gone, Agreed, Present, Accounted, Owed, GazeCountsMessages
<1>4. Cache
  BY <1>1 DEF Cache
<1>5. QED BY <1>2, <1>3, <1>4 DEF IInv

-----------------------------------------------------------------------------
(* One update of the tracker *)

\* An update of the byte tracker keeps its types, starts tracks under new ids
\* only, and takes no hit away from a track it keeps.
LEMMA ByteUpdateFacts ==
  ASSUME TypeOK, Known,
         NEW n \in 0 .. (MaxIds + 1) - nextId,
         NEW degenerate \in SUBSET DOMAIN byte, NEW matched \in SUBSET DOMAIN byte,
         NEW b, b = ByteUpdate(n, matched, degenerate)
  PROVE  /\ nextId + n \in 1 .. MaxIds + 1
         /\ DOMAIN b \subseteq Ids
         /\ b \in [DOMAIN b -> [hits : 1 .. NInit, missed : 0 .. MaxAge]]
         /\ \A id \in DOMAIN b : id < nextId + n
         /\ \A id \in DOMAIN b : id \in DOMAIN byte \/ id >= nextId
         /\ \A id \in DOMAIN b \cap DOMAIN byte : b[id].hits >= byte[id].hits
<1> DEFINE born == Newborn(n)
           all  == Associated(matched, born)
           kept == Kept(all, degenerate)
<1> USE ConstantFacts
<1>1. nextId + n \in 1 .. MaxIds + 1 /\ nextId \in Nat /\ n \in Nat
  BY DEF TypeOK
<1>2. born \subseteq Ids /\ \A id \in born : id >= nextId /\ id < nextId + n
  BY DEF Newborn
<1>3. DOMAIN byte \subseteq Ids /\ \A id \in DOMAIN byte : id < nextId
  BY DEF TypeOK, Known
<1>4. DOMAIN all = DOMAIN byte \cup born
  BY DEF Associated
<1>5. kept \subseteq DOMAIN all /\ \A id \in kept : all[id].missed <= MaxAge
  BY DEF Kept
<1>6. DOMAIN b = kept /\ \A id \in kept : b[id] = all[id]
  BY DEF ByteUpdate
<1>7. ASSUME NEW id \in DOMAIN all
      PROVE  /\ all[id] \in [hits : 1 .. NInit, missed : 0 .. MaxAge + 1]
             /\ id \in DOMAIN byte => all[id].hits >= byte[id].hits
  <2>1. CASE id \in born
    <3>1. all[id] = [hits |-> 1, missed |-> 0] /\ id \notin DOMAIN byte
      BY <1>1, <1>2, <1>3, <2>1 DEF Associated, Ids
    <3>2. QED BY <3>1
  <2>2. CASE id \notin born
    <3>1. id \in DOMAIN byte /\ byte[id] \in [hits : 1 .. NInit, missed : 0 .. MaxAge]
      BY <1>4, <2>2 DEF TypeOK
    <3>2. CASE id \in matched
      <4>1. all[id] = [hits |-> LeastOf(byte[id].hits + 1, NInit), missed |-> 0]
        BY <2>2, <3>1, <3>2 DEF Associated
      <4>2. byte[id].hits \in 1 .. NInit
        BY <3>1
      <4>3. LeastOf(byte[id].hits + 1, NInit) \in 1 .. NInit
            /\ LeastOf(byte[id].hits + 1, NInit) >= byte[id].hits
        BY <4>2 DEF LeastOf
      <4>4. QED BY <4>1, <4>3
    <3>3. CASE id \notin matched
      <4>1. all[id] = [byte[id] EXCEPT !.missed = byte[id].missed + 1]
        BY <2>2, <3>1, <3>3 DEF Associated
      <4>2. byte[id].hits \in 1 .. NInit /\ byte[id].missed \in 0 .. MaxAge
        BY <3>1
      <4>3. all[id] = [hits |-> byte[id].hits, missed |-> byte[id].missed + 1]
        BY <3>1, <4>1
      <4>4. QED BY <4>2, <4>3
    <3>4. QED BY <3>2, <3>3
  <2>3. QED BY <2>1, <2>2
<1>8. \A id \in DOMAIN b : b[id] \in [hits : 1 .. NInit, missed : 0 .. MaxAge]
  BY <1>5, <1>6, <1>7
<1>9. \E S : b = [id \in S |-> all[id]]
  BY DEF ByteUpdate
<1>10. b \in [DOMAIN b -> [hits : 1 .. NInit, missed : 0 .. MaxAge]]
  BY <1>8, <1>9
<1>11. DOMAIN b \subseteq Ids /\ \A id \in DOMAIN b : id \in DOMAIN byte \/ id >= nextId
  BY <1>2, <1>3, <1>4, <1>5, <1>6
<1>12. \A id \in DOMAIN b : id < nextId + n
  <2> SUFFICES ASSUME NEW id \in DOMAIN b PROVE id < nextId + n
    OBVIOUS
  <2>1. id \in born \/ id \in DOMAIN byte
    BY <1>4, <1>5, <1>6
  <2>2. id \in Nat
    BY <1>11 DEF Ids
  <2>3. QED BY <1>1, <1>2, <1>3, <2>1, <2>2
<1>13. \A id \in DOMAIN b \cap DOMAIN byte : b[id].hits >= byte[id].hits
  BY <1>5, <1>6, <1>7
<1>14. QED BY <1>1, <1>10, <1>11, <1>12, <1>13

\* The track that a byte track updates, before and after.
LEMMA UpdatedFacts ==
  ASSUME TypeOK, Agreed,
         NEW b, b \in [DOMAIN b -> [hits : 1 .. NInit, missed : 0 .. MaxAge]],
         \A id \in DOMAIN b \cap DOMAIN byte : b[id].hits >= byte[id].hits,
         NEW id \in DOMAIN b, NEW in \in BOOLEAN
  PROVE  LET old == Old(id, b)
             new == Updated(id, b, in)
         IN /\ old \in [confirmed : BOOLEAN, inside : BOOLEAN, pending : SUBSET Events]
            /\ new \in [confirmed : BOOLEAN, inside : BOOLEAN, pending : SUBSET Events]
            /\ new.confirmed <=> b[id].hits >= NInit
            /\ new.inside = in
            /\ new.pending = old.pending \cup Crossing(old.inside, in)
            /\ id \in DOMAIN tracks => old = tracks[id]
            /\ id \notin DOMAIN tracks => ~old.inside /\ old.pending = {}
<1> DEFINE old == Old(id, b)
           new == Updated(id, b, in)
<1> USE ConstantFacts
<1>1. b[id].hits \in 1 .. NInit
  OBVIOUS
<1>2. /\ old \in [confirmed : BOOLEAN, inside : BOOLEAN, pending : SUBSET Events]
      /\ old.confirmed => b[id].hits >= NInit
      /\ id \in DOMAIN tracks => old = tracks[id]
      /\ id \notin DOMAIN tracks => ~old.inside /\ old.pending = {}
  <2>1. CASE id \in DOMAIN tracks
    <3>1. old = tracks[id]
      BY <2>1 DEF Old, Get
    <3>2. tracks[id] \in [confirmed : BOOLEAN, inside : BOOLEAN, pending : SUBSET Events]
          /\ id \in DOMAIN byte
      BY <2>1 DEF TypeOK
    <3>3. byte[id].hits \in 1 .. NInit
      BY <3>2 DEF TypeOK
    <3>4. tracks[id].confirmed => b[id].hits >= NInit
      BY <1>1, <2>1, <3>2, <3>3 DEF Agreed
    <3>5. QED BY <2>1, <3>1, <3>2, <3>4
  <2>2. CASE id \notin DOMAIN tracks
    <3>1. old = [confirmed |-> b[id].hits >= NInit, inside |-> FALSE, pending |-> {}]
      BY <2>2 DEF Old, Get
    <3>2. PICK c \in BOOLEAN : c <=> b[id].hits >= NInit
      OBVIOUS
    <3>3. old = [confirmed |-> c, inside |-> FALSE, pending |-> {}]
      <4>1. c = (b[id].hits >= NInit)
        BY <3>2
      <4>2. QED BY <3>1, <4>1, Zenon
    <3>4. old \in [confirmed : BOOLEAN, inside : BOOLEAN, pending : SUBSET Events]
      BY <3>3
    <3>5. old.confirmed = c /\ ~old.inside /\ old.pending = {}
      BY <3>3
    <3>6. old.confirmed => b[id].hits >= NInit
      BY <3>2, <3>5, Zenon
    <3>7. QED BY <2>2, <3>4, <3>5, <3>6
  <2>3. QED BY <2>1, <2>2
<1>3. new = [confirmed |-> old.confirmed \/ b[id].hits >= NInit, inside |-> in,
             pending |-> old.pending \cup Crossing(old.inside, in)]
  BY DEF Updated
<1>4. Crossing(old.inside, in) \subseteq Events
  BY DEF Crossing
<1>5. (old.confirmed \/ b[id].hits >= NInit) \in BOOLEAN
  OBVIOUS
<1>6. old.pending \cup Crossing(old.inside, in) \in SUBSET Events
  BY <1>2, <1>4
<1>7. new \in [confirmed : BOOLEAN, inside : BOOLEAN, pending : SUBSET Events]
  BY <1>3, <1>5, <1>6
<1>8. new.confirmed <=> b[id].hits >= NInit
  <2>1. new.confirmed = (old.confirmed \/ b[id].hits >= NInit)
    BY <1>3
  <2>2. QED BY <1>2, <2>1, Zenon
<1>9. QED BY <1>2, <1>3, <1>7, <1>8

\* What a turn's tracking does, by the values it computes: b, the byte tracks,
\* and t, the tracks before the one-shots of those returned are reset.
TrackValues(b, t, inside) ==
  /\ byte' = b /\ nextId' \in 1 .. MaxIds + 1 /\ nextId' >= nextId
  /\ DOMAIN b \subseteq Ids
  /\ b \in [DOMAIN b -> [hits : 1 .. NInit, missed : 0 .. MaxAge]]
  /\ \A id \in DOMAIN b : id < nextId' /\ (id \in DOMAIN byte \/ id >= nextId)
  /\ \A id \in DOMAIN b \cap DOMAIN byte : b[id].hits >= byte[id].hits
  /\ t \in [DOMAIN b -> [confirmed : BOOLEAN, inside : BOOLEAN, pending : SUBSET Events]]
  /\ \A id \in DOMAIN b :
       /\ t[id].confirmed <=> b[id].hits >= NInit
       /\ t[id].inside = inside[id]
       /\ t[id].pending = Old(id, b).pending \cup Crossing(Old(id, b).inside, inside[id])
       /\ id \in DOMAIN tracks => Old(id, b) = tracks[id]
       /\ id \notin DOMAIN tracks => ~Old(id, b).inside /\ Old(id, b).pending = {}
  /\ inside \in [DOMAIN b -> BOOLEAN]
  /\ tracks' = Reset(t, Returned(t, b))
  /\ latest' = [id \in Returned(t, b) |-> t[id].pending]
  /\ latch' = Latched(latest')
  /\ place' = Get(inside, watched, FALSE)
  /\ owed' = IF watched \in DOMAIN b THEN owed \cup Crossing(place, place') ELSE {}
  /\ looked' = IF watched \in DOMAIN b THEN looked ELSE 0
  /\ had' = IF watched \in DOMAIN byte \ DOMAIN b THEN {"deleted"} ELSE had
  /\ step' = "publish"
  /\ UNCHANGED <<sincePub, held, heldAge, gaze, watched>>

\* Every tracking step computes such values.
LEMMA TrackComputes ==
  ASSUME TypeOK, Known, Agreed, Track
  PROVE  \E b, t, inside : TrackValues(b, t, inside)
<1>1. PICK n \in 0 .. (MaxIds + 1) - nextId : \E degenerate \in SUBSET DOMAIN byte :
           \E matched \in SUBSET (DOMAIN byte \ degenerate) :
        LET b == ByteUpdate(n, matched, degenerate) IN
        \E inside \in [DOMAIN b -> BOOLEAN] :
          LET t   == [id \in DOMAIN b |-> Updated(id, b, inside[id])]
              out == Returned(t, b)
          IN /\ byte' = b /\ nextId' = nextId + n
             /\ tracks' = Reset(t, out)
             /\ latest' = [id \in out |-> t[id].pending]
             /\ latch' = Latched(latest')
             /\ place' = Get(inside, watched, FALSE)
             /\ owed' = IF watched \in DOMAIN b THEN owed \cup Crossing(place, place') ELSE {}
             /\ looked' = IF watched \in DOMAIN b THEN looked ELSE 0
             /\ had' = IF watched \in DOMAIN byte \ DOMAIN b THEN {"deleted"} ELSE had
  <2>1. nextId \in Int /\ MaxIds \in Int
    BY ConstantFacts DEF TypeOK
  <2>2. MaxIds + 1 - nextId = (MaxIds + 1) - nextId
    BY <2>1
  <2>3. QED BY <2>2, Zenon DEF Track
<1>11. PICK degenerate \in SUBSET DOMAIN byte, matched \in SUBSET DOMAIN byte :
        LET b == ByteUpdate(n, matched, degenerate) IN
        \E inside \in [DOMAIN b -> BOOLEAN] :
          LET t   == [id \in DOMAIN b |-> Updated(id, b, inside[id])]
              out == Returned(t, b)
          IN /\ byte' = b /\ nextId' = nextId + n
             /\ tracks' = Reset(t, out)
             /\ latest' = [id \in out |-> t[id].pending]
             /\ latch' = Latched(latest')
             /\ place' = Get(inside, watched, FALSE)
             /\ owed' = IF watched \in DOMAIN b THEN owed \cup Crossing(place, place') ELSE {}
             /\ looked' = IF watched \in DOMAIN b THEN looked ELSE 0
             /\ had' = IF watched \in DOMAIN byte \ DOMAIN b THEN {"deleted"} ELSE had
  BY <1>1
<1> DEFINE b == ByteUpdate(n, matched, degenerate)
<1>2. PICK inside \in [DOMAIN b -> BOOLEAN] :
        LET t   == [id \in DOMAIN b |-> Updated(id, b, inside[id])]
            out == Returned(t, b)
        IN /\ byte' = b /\ nextId' = nextId + n
           /\ tracks' = Reset(t, out)
           /\ latest' = [id \in out |-> t[id].pending]
           /\ latch' = Latched(latest')
           /\ place' = Get(inside, watched, FALSE)
           /\ owed' = IF watched \in DOMAIN b THEN owed \cup Crossing(place, place') ELSE {}
           /\ looked' = IF watched \in DOMAIN b THEN looked ELSE 0
           /\ had' = IF watched \in DOMAIN byte \ DOMAIN b THEN {"deleted"} ELSE had
  BY <1>11
<1> DEFINE t == [id \in DOMAIN b |-> Updated(id, b, inside[id])]
<1>3. matched \in SUBSET DOMAIN byte
  OBVIOUS
<1> HIDE DEF b
<1>4. /\ nextId + n \in 1 .. MaxIds + 1
      /\ DOMAIN b \subseteq Ids
      /\ b \in [DOMAIN b -> [hits : 1 .. NInit, missed : 0 .. MaxAge]]
      /\ \A id \in DOMAIN b : id < nextId + n
      /\ \A id \in DOMAIN b : id \in DOMAIN byte \/ id >= nextId
      /\ \A id \in DOMAIN b \cap DOMAIN byte : b[id].hits >= byte[id].hits
  BY <1>3, ByteUpdateFacts DEF b
<1>5. ASSUME NEW id \in DOMAIN b
      PROVE  /\ t[id] \in [confirmed : BOOLEAN, inside : BOOLEAN, pending : SUBSET Events]
             /\ t[id].confirmed <=> b[id].hits >= NInit
             /\ t[id].inside = inside[id]
             /\ t[id].pending = Old(id, b).pending \cup Crossing(Old(id, b).inside, inside[id])
             /\ id \in DOMAIN tracks => Old(id, b) = tracks[id]
             /\ id \notin DOMAIN tracks => ~Old(id, b).inside /\ Old(id, b).pending = {}
  <2>1. inside[id] \in BOOLEAN /\ t[id] = Updated(id, b, inside[id])
    OBVIOUS
  <2>2. QED BY <1>4, <2>1, UpdatedFacts
<1>6. t \in [DOMAIN b -> [confirmed : BOOLEAN, inside : BOOLEAN, pending : SUBSET Events]]
  BY <1>5
<1>7. nextId' \in 1 .. MaxIds + 1 /\ nextId' >= nextId
  BY <1>2, <1>4 DEF TypeOK
<1>8. step' = "publish" /\ UNCHANGED <<sincePub, held, heldAge, gaze, watched>>
  BY DEF Track
<1> HIDE DEF t
<1>9. /\ byte' = b /\ tracks' = Reset(t, Returned(t, b))
      /\ latest' = [id \in Returned(t, b) |-> t[id].pending]
      /\ latch' = Latched(latest') /\ nextId' = nextId + n
      /\ place' = Get(inside, watched, FALSE)
      /\ owed' = IF watched \in DOMAIN b THEN owed \cup Crossing(place, place') ELSE {}
      /\ looked' = IF watched \in DOMAIN b THEN looked ELSE 0
      /\ had' = IF watched \in DOMAIN byte \ DOMAIN b THEN {"deleted"} ELSE had
  BY <1>2 DEF t
<1>10. QED
  <2>1. \A id \in DOMAIN b : id < nextId' /\ (id \in DOMAIN byte \/ id >= nextId)
    BY <1>4, <1>9
  <2>2. TrackValues(b, t, inside)
    BY <1>4, <1>5, <1>6, <1>7, <1>8, <1>9, <2>1 DEF TrackValues
  <2>3. QED BY <2>2

\* The one-shots of returned tracks move to the latch; the others stay pending.
LEMMA HandOver ==
  ASSUME TypeOK, NEW b, NEW t, NEW inside, TrackValues(b, t, inside)
  PROVE  LET out == Returned(t, b) IN
         /\ out \subseteq DOMAIN b /\ DOMAIN latest' = out
         /\ out = {id \in DOMAIN b : t[id].confirmed /\ b[id].missed <= PublishGrace}
         /\ \A m \in {latest', latch'} : DOMAIN m \subseteq Ids /\ m \in [DOMAIN m -> SUBSET Events]
         /\ DOMAIN latch' \subseteq DOMAIN latch \cup out
         /\ DOMAIN tracks' = DOMAIN b
         /\ tracks' \in [DOMAIN b -> [confirmed : BOOLEAN, inside : BOOLEAN, pending : SUBSET Events]]
         /\ \A id \in DOMAIN b :
              /\ tracks'[id].confirmed = t[id].confirmed /\ tracks'[id].inside = t[id].inside
              /\ tracks'[id].pending = IF id \in out THEN {} ELSE t[id].pending
              /\ tracks'[id].pending \cup Get(latch', id, {})
                   = t[id].pending \cup Get(latch, id, {})
         /\ \A id \in out : latest'[id] \subseteq Get(latch', id, {})
<1> DEFINE out == Returned(t, b)
           Rec == [confirmed : BOOLEAN, inside : BOOLEAN, pending : SUBSET Events]
<1>1. /\ DOMAIN b \subseteq Ids /\ t \in [DOMAIN b -> Rec] /\ tracks' = Reset(t, out)
      /\ latest' = [id \in out |-> t[id].pending] /\ latch' = Latched(latest')
  BY DEF TrackValues
<1>2. /\ out \subseteq DOMAIN b
      /\ out = {id \in DOMAIN b : t[id].confirmed /\ b[id].missed <= PublishGrace}
  BY DEF Returned
<1>3. \A id \in DOMAIN b : t[id] \in Rec /\ t[id].pending \in SUBSET Events
  BY <1>1
<1> HIDE DEF out
<1>4. DOMAIN latest' = out /\ latest' \in [out -> SUBSET Events]
  BY <1>1, <1>2, <1>3
<1>5. /\ DOMAIN latch \subseteq Ids /\ latch \in [DOMAIN latch -> SUBSET Events]
  BY DEF TypeOK
<1>6. /\ DOMAIN latch' = DOMAIN latch \cup {i \in out : latest'[i] # {}}
      /\ latch' = [id \in DOMAIN latch' |-> Get(latch, id, {}) \cup Get(latest', id, {})]
  BY <1>1, <1>4 DEF Latched
<1>7. \A id : Get(latch', id, {}) = Get(latch, id, {}) \cup Get(latest', id, {})
  <2> SUFFICES ASSUME NEW id PROVE Get(latch', id, {}) = Get(latch, id, {}) \cup Get(latest', id, {})
    OBVIOUS
  <2>1. CASE id \in DOMAIN latch'
    BY <1>6, <2>1 DEF Get
  <2>2. CASE id \notin DOMAIN latch'
    <3>1. id \notin DOMAIN latch /\ (id \in out => latest'[id] = {})
      BY <1>6, <2>2
    <3>2. Get(latch, id, {}) = {} /\ Get(latest', id, {}) = {} /\ Get(latch', id, {}) = {}
      BY <1>4, <2>2, <3>1 DEF Get
    <3>3. QED BY <3>2
  <2>3. QED BY <2>1, <2>2
<1>8. \A id : Get(latch, id, {}) \in SUBSET Events /\ Get(latest', id, {}) \in SUBSET Events
  BY <1>4, <1>5 DEF Get
<1>9. DOMAIN latch' \subseteq Ids /\ latch' \in [DOMAIN latch' -> SUBSET Events]
  <2>1. DOMAIN latch' \subseteq Ids
    BY <1>1, <1>2, <1>5, <1>6
  <2>2. \A id : Get(latch, id, {}) \cup Get(latest', id, {}) \in SUBSET Events
    BY <1>8
  <2>3. QED BY <1>6, <2>1, <2>2
<1>10. DOMAIN latest' \subseteq Ids /\ latest' \in [DOMAIN latest' -> SUBSET Events]
  BY <1>1, <1>2, <1>4
<1>11. DOMAIN latch' \subseteq DOMAIN latch \cup out
  BY <1>2, <1>6
<1>12. DOMAIN tracks' = DOMAIN b
  BY <1>1 DEF Reset
<1>13. ASSUME NEW id \in DOMAIN b
       PROVE  /\ tracks'[id] \in Rec
              /\ tracks'[id].confirmed = t[id].confirmed /\ tracks'[id].inside = t[id].inside
              /\ tracks'[id].pending = IF id \in out THEN {} ELSE t[id].pending
  <2>1. tracks'[id] = IF id \in out THEN [t[id] EXCEPT !.pending = {}] ELSE t[id]
    BY <1>1 DEF Reset
  <2>2. t[id] \in Rec
    BY <1>3
  <2>3. QED BY <2>1, <2>2
<1>14. tracks' \in [DOMAIN b -> Rec]
  <2>1. tracks' = [id \in DOMAIN b |-> tracks'[id]]
    BY <1>1 DEF Reset
  <2>2. QED BY <1>13, <2>1
<1>15. \A id : Get(latest', id, {}) = IF id \in out THEN t[id].pending ELSE {}
  BY <1>1, <1>4 DEF Get
<1>16. \A id \in DOMAIN b : tracks'[id].pending \cup Get(latch', id, {})
                              = t[id].pending \cup Get(latch, id, {})
  BY <1>7, <1>13, <1>15
<1>17. \A id \in out : latest'[id] \subseteq Get(latch', id, {})
  BY <1>4, <1>7 DEF Get
<1>18. QED BY <1>2, <1>4, <1>9, <1>10, <1>11, <1>12, <1>13, <1>14, <1>16, <1>17 DEF out

\* Tracking preserves the invariant.
LEMMA TrackStep == ASSUME IInv, Track PROVE IInv'
<1>1. PICK b, t, inside : TrackValues(b, t, inside)
  BY TrackComputes DEF IInv
<1> DEFINE out == Returned(t, b)
<1>2. /\ out \subseteq DOMAIN b /\ DOMAIN latest' = out
      /\ out = {id \in DOMAIN b : t[id].confirmed /\ b[id].missed <= PublishGrace}
      /\ \A m \in {latest', latch'} : DOMAIN m \subseteq Ids /\ m \in [DOMAIN m -> SUBSET Events]
      /\ DOMAIN latch' \subseteq DOMAIN latch \cup out
      /\ DOMAIN tracks' = DOMAIN b
      /\ tracks' \in [DOMAIN b -> [confirmed : BOOLEAN, inside : BOOLEAN, pending : SUBSET Events]]
      /\ \A id \in DOMAIN b :
           /\ tracks'[id].confirmed = t[id].confirmed /\ tracks'[id].inside = t[id].inside
           /\ tracks'[id].pending = IF id \in out THEN {} ELSE t[id].pending
           /\ tracks'[id].pending \cup Get(latch', id, {})
                = t[id].pending \cup Get(latch, id, {})
      /\ \A id \in out : latest'[id] \subseteq Get(latch', id, {})
  BY <1>1, HandOver DEF IInv
<1> HIDE DEF out
<1>3. /\ byte' = b /\ nextId' \in 1 .. MaxIds + 1 /\ nextId' >= nextId
      /\ DOMAIN b \subseteq Ids
      /\ b \in [DOMAIN b -> [hits : 1 .. NInit, missed : 0 .. MaxAge]]
      /\ \A id \in DOMAIN b : id < nextId' /\ (id \in DOMAIN byte \/ id >= nextId)
      /\ \A id \in DOMAIN b \cap DOMAIN byte : b[id].hits >= byte[id].hits
      /\ \A id \in DOMAIN b : t[id].confirmed <=> b[id].hits >= NInit
      /\ inside \in [DOMAIN b -> BOOLEAN]
      /\ place' = Get(inside, watched, FALSE)
      /\ owed' = IF watched \in DOMAIN b THEN owed \cup Crossing(place, place') ELSE {}
      /\ looked' = IF watched \in DOMAIN b THEN looked ELSE 0
      /\ had' = IF watched \in DOMAIN byte \ DOMAIN b THEN {"deleted"} ELSE had
      /\ step' = "publish"
      /\ sincePub' = sincePub /\ held' = held /\ heldAge' = heldAge
      /\ gaze' = gaze /\ watched' = watched
  BY <1>1 DEF TrackValues
<1>4. ASSUME watched \in DOMAIN b
      PROVE  /\ place' = inside[watched] /\ t[watched].inside = inside[watched]
             /\ t[watched].pending = Old(watched, b).pending \cup Crossing(Old(watched, b).inside, inside[watched])
             /\ watched \in DOMAIN tracks => Old(watched, b) = tracks[watched]
             /\ watched \notin DOMAIN tracks => ~Old(watched, b).inside /\ Old(watched, b).pending = {}
  BY <1>1, <1>4 DEF TrackValues, Get
<1>5. /\ DOMAIN byte \subseteq Ids /\ watched \in Ids /\ nextId \in 1 .. MaxIds + 1
      /\ DOMAIN latch \subseteq Ids /\ DOMAIN gaze \subseteq Ids /\ Ids \subseteq Int
      /\ DOMAIN tracks \subseteq DOMAIN byte
      /\ owed \subseteq Events /\ had \subseteq Mishaps /\ looked \in 0 .. MaxGaze /\ MaxGaze \in Nat
  BY ConstantFacts DEF IInv, TypeOK, Ids
<1>6. had' \subseteq had \cup {"deleted"}
      /\ ("deleted" \in had' => watched \in DOMAIN byte \ DOMAIN b \/ "deleted" \in had)
  BY <1>3
<1>7. TypeOK'
  <2>1. place' \in BOOLEAN
    BY <1>3 DEF Get
  <2>2. owed' \subseteq Events
    BY <1>3, <1>5 DEF Crossing
  <2>3. looked' \in 0 .. MaxGaze
    BY <1>3, <1>5
  <2>4. had' \subseteq Mishaps
    BY <1>5, <1>6 DEF Mishaps
  <2>5. QED BY <1>2, <1>3, <2>1, <2>2, <2>3, <2>4 DEF IInv, TypeOK
<1>8. Known'
  <2>1. \A id \in DOMAIN byte' \cup DOMAIN latch' \cup DOMAIN gaze' : id < nextId'
    <3> SUFFICES ASSUME NEW id \in DOMAIN byte' \cup DOMAIN latch' \cup DOMAIN gaze'
                 PROVE  id < nextId'
      OBVIOUS
    <3>1. id \in DOMAIN b \/ id \in DOMAIN latch \/ id \in DOMAIN gaze
      BY <1>2, <1>3
    <3>2. id \in DOMAIN b \/ (id < nextId /\ id \in Int)
      BY <1>5, <3>1 DEF IInv, Known
    <3>3. QED BY <1>3, <1>5, <3>2
  <2>2. ASSUME watched >= nextId'
        PROVE  ~place' /\ owed' = {} /\ looked' = 0 /\ had' = {}
    <3>1. watched >= nextId /\ watched \notin DOMAIN b
      BY <1>3, <1>5, <2>2
    <3>2. watched \notin DOMAIN byte
      BY <1>5, <3>1 DEF IInv, Known
    <3>3. ~place' /\ owed' = {} /\ looked' = 0
      BY <1>3, <3>1 DEF Get
    <3>4. had = {}
      BY <3>1 DEF IInv, Known
    <3>5. had' = {}
      BY <1>3, <3>1, <3>2, <3>4
    <3>6. QED BY <3>3, <3>5
  <2>3. QED BY <1>3, <2>1, <2>2 DEF Known
<1>9. Gone'
  <2>1. CASE watched \in DOMAIN byte \ DOMAIN b
    <3>1. watched < nextId
      BY <2>1 DEF IInv, Known
    <3>2. QED BY <1>3, <1>5, <2>1, <3>1 DEF Gone
  <2>2. CASE "deleted" \in had
    <3>1. watched \notin DOMAIN byte /\ watched < nextId
      BY <2>2 DEF IInv, Gone
    <3>2. watched \notin DOMAIN b
      BY <1>3, <1>5, <3>1
    <3>3. QED BY <1>3, <1>5, <3>1, <3>2 DEF Gone
  <2>3. QED BY <1>6, <2>1, <2>2 DEF Gone
<1>10. Agreed'
  BY <1>2, <1>3 DEF Agreed
<1>11. Cache'
  BY <1>3 DEF IInv, Cache
<1>12. Owed'
  <2>1. watched \in DOMAIN latest' => latest'[watched] \subseteq Get(latch', watched, {})
    BY <1>2
  <2>2. ASSUME watched \in DOMAIN b, "recovered" \notin had'
        PROVE  /\ watched \in DOMAIN tracks' /\ tracks'[watched].inside = place'
               /\ tracks'[watched].pending \cup Get(latch', watched, {}) \subseteq owed'
               /\ "skipped" \notin had' =>
                    owed' = tracks'[watched].pending \cup Get(latch', watched, {})
    <3>1. watched \in DOMAIN tracks' /\ tracks'[watched].inside = place'
      BY <1>2, <1>4, <2>2
    <3>2. tracks'[watched].pending \cup Get(latch', watched, {})
            = t[watched].pending \cup Get(latch, watched, {})
      BY <1>2, <2>2
    <3>3. owed' = owed \cup Crossing(place, place')
      BY <1>3, <2>2
    <3>4. had' = had
      BY <1>3, <2>2
    <3>5. CASE watched \in DOMAIN byte
      <4>1. "recovered" \notin had
        BY <2>2, <3>4
      <4>2. /\ watched \in DOMAIN tracks /\ tracks[watched].inside = place
            /\ tracks[watched].pending \cup Get(latch, watched, {}) \subseteq owed
            /\ "skipped" \notin had => owed = tracks[watched].pending \cup Get(latch, watched, {})
        BY <3>5, <4>1 DEF IInv, Owed
      <4>3. t[watched].pending = tracks[watched].pending \cup Crossing(place, place')
        BY <1>4, <2>2, <4>2
      <4>4. "skipped" \notin had' => "skipped" \notin had
        BY <3>4
      <4>5. QED BY <3>1, <3>2, <3>3, <4>2, <4>3, <4>4
    <3>6. CASE watched \notin DOMAIN byte
      <4>1. watched >= nextId
        BY <1>3, <2>2, <3>6
      <4>2. ~place /\ owed = {}
        BY <4>1 DEF IInv, Known
      <4>3. Get(latch, watched, {}) = {}
        BY <1>5, <4>1 DEF IInv, Known, Get
      <4>4. watched \notin DOMAIN tracks
        BY <1>5, <3>6
      <4>5. t[watched].pending = Crossing(Old(watched, b).inside, place')
            /\ ~Old(watched, b).inside
        BY <1>4, <2>2, <4>4
      <4>6. Crossing(Old(watched, b).inside, place') = Crossing(place, place')
        <5>1. place = FALSE /\ place' \in BOOLEAN
          BY <1>7, <4>2 DEF IInv, TypeOK
        <5>2. Old(watched, b).inside \in BOOLEAN
          BY <1>3, <4>4 DEF Old, Get
        <5>3. Old(watched, b).inside = FALSE
          BY <4>5, <5>2
        <5>4. QED BY <5>1, <5>3
      <4>7. QED BY <3>1, <3>2, <3>3, <4>2, <4>3, <4>5, <4>6
    <3>7. QED BY <3>5, <3>6
  <2>3. QED BY <1>3, <2>1, <2>2 DEF Owed
<1>13. GazeCountsMessages'
  <2>1. ASSUME watched \in DOMAIN b, "lapsed" \notin had'
        PROVE  Get(gaze, watched, 0) = looked'
    <3>1. looked' = looked /\ "lapsed" \notin had
      BY <1>3, <2>1
    <3>2. CASE watched \in DOMAIN byte
      BY <3>1, <3>2 DEF IInv, GazeCountsMessages
    <3>3. CASE watched \notin DOMAIN byte
      <4>1. watched >= nextId
        BY <1>3, <2>1, <3>3
      <4>2. looked = 0 /\ watched \notin DOMAIN gaze
        BY <1>5, <4>1 DEF IInv, Known
      <4>3. QED BY <3>1, <4>2 DEF Get
    <3>4. QED BY <3>2, <3>3
  <2>2. QED BY <1>3, <2>1 DEF GazeCountsMessages, Get
<1>14. Present'
  <2>1. DOMAIN latest' = Seen'
    BY <1>2, <1>3 DEF Seen
  <2>2. ASSUME NEW id \in DOMAIN latch' \cap DOMAIN byte' PROVE byte'[id].hits >= NInit
    <3>1. CASE id \in out
      BY <1>2, <1>3, <3>1
    <3>2. CASE id \in DOMAIN latch
      <4>1. id < nextId /\ id \in Int /\ nextId \in Int
        <5>1. \A i \in DOMAIN byte \cup DOMAIN latch \cup DOMAIN gaze : i < nextId
          BY DEF IInv, Known
        <5>2. id \in Int
          BY <1>5, <3>2, Zenon
        <5>3. nextId \in Int
          BY <1>5
        <5>4. QED BY <3>2, <5>1, <5>2, <5>3
      <4>2. id \in DOMAIN byte \cap DOMAIN b
        BY <1>3, <2>2, <4>1
      <4>3. byte[id].hits >= NInit /\ b[id].hits >= byte[id].hits
        BY <1>3, <3>2, <4>2 DEF IInv, Present
      <4>4. byte[id].hits \in Int /\ b[id].hits \in Int /\ NInit \in Int
        <5>1. byte[id] \in [hits : 1 .. NInit, missed : 0 .. MaxAge]
          BY <4>2 DEF IInv, TypeOK
        <5>2. b[id] \in [hits : 1 .. NInit, missed : 0 .. MaxAge]
          BY <1>3, <4>2
        <5>3. QED BY <5>1, <5>2, ConstantFacts
      <4>5. QED BY <1>3, <4>3, <4>4
    <3>3. QED BY <1>2, <2>2, <3>1, <3>2
  <2>3. QED BY <2>1, <2>2 DEF Present
<1>15. Accounted'
  <2> SUFFICES ASSUME watched \in DOMAIN b
               PROVE  /\ tracks'[watched].inside = place'
                      /\ tracks'[watched].pending \cup Get(latch', watched, {})
                           \subseteq owed' \cup Reentered'
    BY <1>2, <1>3 DEF Accounted
  <2>1. tracks'[watched].inside = place'
    BY <1>2, <1>4
  <2>2. /\ tracks'[watched].pending \cup Get(latch', watched, {})
             = t[watched].pending \cup Get(latch, watched, {})
        /\ owed' = owed \cup Crossing(place, place') /\ had' = had
    BY <1>2, <1>3
  <2>3. CASE watched \in DOMAIN tracks
    <3>1. t[watched].pending = tracks[watched].pending \cup Crossing(place, place')
      BY <1>4, <2>3 DEF IInv, Accounted
    <3>2. QED BY <1>5, <2>1, <2>2, <2>3, <3>1 DEF IInv, Accounted, Reentered
  <2>4. CASE watched \in DOMAIN byte \ DOMAIN tracks
    <3>1. "recovered" \in had
      BY <2>4 DEF IInv, Owed
    <3>2. t[watched].pending = Crossing(Old(watched, b).inside, place') /\ ~Old(watched, b).inside
      BY <1>4, <2>4
    <3>3. Old(watched, b).inside = FALSE
      BY <1>3, <2>4, <3>2 DEF Old, Get
    <3>4. place' \in BOOLEAN
      BY <1>7 DEF TypeOK
    <3>5. t[watched].pending \subseteq {"enter"}
      BY <3>2, <3>3, <3>4 DEF Crossing, Events
    <3>6. QED BY <2>1, <2>2, <2>4, <3>1, <3>5 DEF IInv, Accounted, Reentered
  <2>5. CASE watched \notin DOMAIN byte
    <3>1. "deleted" \notin had /\ watched >= nextId
      BY <1>3, <2>5 DEF IInv, Gone, Known
    <3>2. had = {}
      BY <3>1 DEF IInv, Known
    <3>3. QED BY <1>3, <1>12, <2>1, <2>2, <3>2 DEF Owed
  <2>6. QED BY <2>3, <2>4, <2>5
<1>16. QED BY <1>7, <1>8, <1>9, <1>10, <1>11, <1>12, <1>13, <1>14, <1>15 DEF IInv

-----------------------------------------------------------------------------
(* The publish *)

\* When a message is due the emission cache has expired.
LEMMA CacheExpired ==
  ASSUME TypeOK, Cache, Due
  PROVE  DOMAIN held = {}
<1>1. sincePub \in Int /\ heldAge \in Int
  BY ConstantFacts DEF TypeOK
<1>2. sincePub > Hold
  BY <1>1, ConstantFacts DEF Due
<1>3. heldAge > Hold
  BY <1>1, <1>2, ConstantFacts DEF Cache
<1>4. QED BY <1>3 DEF Cache

\* What a message says: the tracks of this turn, with what is latched for them.
LEMMA EmittedFacts ==
  ASSUME TypeOK, Agreed, Cache, Owed, Due
  PROVE  /\ DOMAIN Emitted = DOMAIN latest
         /\ DOMAIN Emitted \subseteq Ids /\ Emitted \in [DOMAIN Emitted -> SUBSET Events]
         /\ watched \in DOMAIN latest =>
              Emitted[watched] = tracks[watched].pending \cup Get(latch, watched, {})
         /\ watched \notin DOMAIN latest => Get(Emitted, watched, {}) = {}
<1>1. /\ DOMAIN latest \subseteq Ids /\ latest \in [DOMAIN latest -> SUBSET Events]
      /\ DOMAIN held \subseteq Ids /\ held \in [DOMAIN held -> SUBSET Events]
      /\ latch \in [DOMAIN latch -> SUBSET Events]
  BY DEF TypeOK
<1>2. DOMAIN held = {}
  BY CacheExpired
<1>3. \A id : Get(latch, id, {}) \in SUBSET Events
  BY <1>1 DEF Get
<1>4. CASE DOMAIN latest # {}
  <2>1. Emitted = [id \in DOMAIN latest |-> latest[id] \cup Get(latch, id, {})]
    BY <1>4 DEF Emitted, WithLatch
  <2>2. \A id \in DOMAIN latest : latest[id] \cup Get(latch, id, {}) \in SUBSET Events
    BY <1>1, <1>3
  <2>3. DOMAIN Emitted = DOMAIN latest /\ Emitted \in [DOMAIN Emitted -> SUBSET Events]
    BY <2>1, <2>2
  <2>4. ASSUME watched \in DOMAIN latest
        PROVE  Emitted[watched] = tracks[watched].pending \cup Get(latch, watched, {})
    <3>1. latest[watched] \subseteq Get(latch, watched, {}) /\ tracks[watched].pending = {}
      BY <2>4 DEF Owed, Agreed
    <3>2. QED BY <2>1, <2>4, <3>1
  <2>5. QED BY <1>1, <2>3, <2>4 DEF Get
<1>5. CASE DOMAIN latest = {}
  <2>1. Emitted = held
    BY <1>5 DEF Emitted
  <2>2. QED BY <1>1, <1>2, <1>5, <2>1 DEF Get
<1>6. QED BY <1>4, <1>5

\* The end of a turn keeps the clocks and the cache consistent.
LEMMA EndTurnFacts ==
  ASSUME NEW pub \in 0 .. PublishEvery, NEW age \in 0 .. Hold + 1, NEW m,
         EndTurn(pub, m, age), age <= Hold => pub <= age,
         DOMAIN m \subseteq Ids, m \in [DOMAIN m -> SUBSET Events]
  PROVE  /\ sincePub' \in 0 .. PublishEvery /\ heldAge' \in 0 .. Hold + 1
         /\ DOMAIN held' \subseteq Ids /\ held' \in [DOMAIN held' -> SUBSET Events]
         /\ DOMAIN latest' = {} /\ latest' \in [DOMAIN latest' -> SUBSET Events]
         /\ step' = "track"
         /\ Cache'
<1> USE ConstantFacts
<1>1. PICK ticks \in {1, PublishEvery} :
        sincePub' = LeastOf(pub + ticks, PublishEvery) /\ heldAge' = LeastOf(age + ticks, Hold + 1)
  BY DEF EndTurn
<1>2. sincePub' \in 0 .. PublishEvery /\ heldAge' \in 0 .. Hold + 1
  BY <1>1 DEF LeastOf
<1>3. heldAge' <= Hold => sincePub' <= heldAge'
  BY <1>1 DEF LeastOf
<1>4. DOMAIN Empty = {} /\ Empty \in [DOMAIN Empty -> SUBSET Events]
  BY DEF Empty
<1>5. held' = (IF heldAge' > Hold THEN Empty ELSE m) /\ latest' = Empty /\ step' = "track"
  BY DEF EndTurn
<1>6. Cache'
  BY <1>3, <1>4, <1>5 DEF Cache
<1>7. QED BY <1>2, <1>4, <1>5, <1>6

\* A publish preserves the invariant.
LEMMA PublishStep == ASSUME IInv, Publish PROVE IInv'
<1>1. PICK gazing \in SUBSET DOMAIN latest :
        /\ gaze' = GazeAfter(gazing)
        /\ looked' = IF watched \in gazing THEN LeastOf(looked + 1, MaxGaze) ELSE looked
  BY DEF Publish
<1> DEFINE age == IF DOMAIN latest # {} THEN 0 ELSE heldAge
<1>2. /\ latch' = Empty /\ EndTurn(0, Emitted, age)
      /\ owed' = owed \ Get(Emitted, watched, {})
      /\ had' = had \cup Mishap("skipped", watched \in DOMAIN latch \ DOMAIN latest)
                    \cup Mishap("lapsed", watched \in DOMAIN byte \ DOMAIN latest /\ DOMAIN latest # {})
      /\ byte' = byte /\ nextId' = nextId /\ tracks' = tracks
      /\ watched' = watched /\ place' = place
      /\ step = "publish" /\ Due
  BY DEF Publish, trackerVars
<1>3. /\ DOMAIN Emitted = DOMAIN latest
      /\ DOMAIN Emitted \subseteq Ids /\ Emitted \in [DOMAIN Emitted -> SUBSET Events]
      /\ watched \in DOMAIN latest =>
           Emitted[watched] = tracks[watched].pending \cup Get(latch, watched, {})
      /\ watched \notin DOMAIN latest => Get(Emitted, watched, {}) = {}
  BY <1>2, EmittedFacts DEF IInv
<1>4. /\ sincePub' \in 0 .. PublishEvery /\ heldAge' \in 0 .. Hold + 1
      /\ DOMAIN held' \subseteq Ids /\ held' \in [DOMAIN held' -> SUBSET Events]
      /\ DOMAIN latest' = {} /\ latest' \in [DOMAIN latest' -> SUBSET Events]
      /\ step' = "track" /\ Cache'
  <2>1. 0 \in 0 .. PublishEvery /\ age \in 0 .. Hold + 1 /\ 0 <= age
    BY ConstantFacts DEF IInv, TypeOK
  <2>2. QED BY <1>2, <1>3, <2>1, EndTurnFacts
<1>5. DOMAIN latch' = {} /\ latch' \in [DOMAIN latch' -> SUBSET Events]
  BY <1>2 DEF Empty
<1>6. /\ DOMAIN gaze \subseteq Ids /\ gaze \in [DOMAIN gaze -> 0 .. MaxGaze] /\ looked \in 0 .. MaxGaze
      /\ DOMAIN latest \subseteq DOMAIN byte /\ DOMAIN byte \subseteq Ids /\ MaxGaze \in Nat
      /\ watched \in Ids /\ Ids \subseteq Int /\ nextId \in Int
  BY ConstantFacts DEF IInv, TypeOK, Agreed, Ids
<1>7. /\ DOMAIN gaze' = {i \in DOMAIN gaze \cup gazing : DOMAIN latest # {} => i \in DOMAIN latest}
      /\ gaze' = [id \in DOMAIN gaze' |->
                    IF id \in gazing THEN LeastOf(Get(gaze, id, 0) + 1, MaxGaze) ELSE gaze[id]]
  BY <1>1 DEF GazeAfter
<1>8. \A id : Get(gaze, id, 0) \in 0 .. MaxGaze /\ LeastOf(Get(gaze, id, 0) + 1, MaxGaze) \in 0 .. MaxGaze
  <2> SUFFICES ASSUME NEW id
               PROVE  /\ Get(gaze, id, 0) \in 0 .. MaxGaze
                      /\ LeastOf(Get(gaze, id, 0) + 1, MaxGaze) \in 0 .. MaxGaze
    OBVIOUS
  <2>1. Get(gaze, id, 0) \in 0 .. MaxGaze
    BY <1>6 DEF Get
  <2>2. QED BY <1>6, <2>1 DEF LeastOf
<1>9. TypeOK'
  <2>1. DOMAIN gaze' \subseteq Ids
    BY <1>6, <1>7
  <2>2. \A id \in DOMAIN gaze' :
          (IF id \in gazing THEN LeastOf(Get(gaze, id, 0) + 1, MaxGaze) ELSE gaze[id]) \in 0 .. MaxGaze
    BY <1>6, <1>7, <1>8
  <2>3. gaze' \in [DOMAIN gaze' -> 0 .. MaxGaze]
    BY <1>7, <2>2
  <2>4. looked' \in 0 .. MaxGaze
    BY <1>1, <1>6 DEF LeastOf
  <2>5. owed' \subseteq Events
    BY <1>2 DEF IInv, TypeOK
  <2>6. had' \subseteq Mishaps
    BY <1>2 DEF IInv, TypeOK, Mishap, Mishaps
  <2>7. QED BY <1>2, <1>4, <1>5, <2>1, <2>3, <2>4, <2>5, <2>6 DEF IInv, TypeOK
<1>10. Known'
  <2>1. \A id \in DOMAIN byte' \cup DOMAIN latch' \cup DOMAIN gaze' : id < nextId'
    BY <1>2, <1>5, <1>6, <1>7 DEF IInv, Known
  <2>2. ASSUME watched >= nextId
        PROVE  ~place' /\ owed' = {} /\ looked' = 0 /\ had' = {}
    <3>1. ~place /\ owed = {} /\ looked = 0 /\ had = {}
      BY <2>2 DEF IInv, Known
    <3>2. watched \notin DOMAIN byte /\ watched \notin DOMAIN latch
      BY <1>6, <2>2 DEF IInv, Known
    <3>3. looked' = 0
      BY <1>1, <1>6, <3>1, <3>2
    <3>4. had' = {}
      BY <1>2, <3>1, <3>2 DEF Mishap
    <3>5. QED BY <1>2, <3>1, <3>3, <3>4
  <2>3. QED BY <1>2, <2>1, <2>2 DEF Known
<1>11. \A name \in {"deleted", "recovered", "lapsed", "skipped"} : name \notin had' => name \notin had
  BY <1>2
<1>12. Gone'
  <2>1. "deleted" \in had' => "deleted" \in had
    BY <1>2 DEF Mishap
  <2>2. QED BY <1>2, <2>1 DEF IInv, Gone
<1>13. Agreed'
  BY <1>2, <1>4 DEF IInv, Agreed
<1>14. Owed'
  <2>1. ASSUME watched \in DOMAIN byte, "recovered" \notin had'
        PROVE  /\ watched \in DOMAIN tracks /\ tracks[watched].inside = place
               /\ tracks[watched].pending \subseteq owed'
               /\ "skipped" \notin had' => owed' = tracks[watched].pending
    <3>1. /\ watched \in DOMAIN tracks /\ tracks[watched].inside = place
          /\ tracks[watched].pending \cup Get(latch, watched, {}) \subseteq owed
          /\ "skipped" \notin had => owed = tracks[watched].pending \cup Get(latch, watched, {})
      BY <1>11, <2>1 DEF IInv, Owed
    <3>2. CASE watched \in DOMAIN latest
      <4>1. tracks[watched].pending = {}
        BY <3>2 DEF IInv, Agreed
      <4>2. owed' = owed \ Get(latch, watched, {})
        BY <1>2, <1>3, <3>2, <4>1 DEF Get
      <4>3. QED BY <1>11, <3>1, <4>1, <4>2
    <3>3. CASE watched \notin DOMAIN latest
      <4>1. owed' = owed
        BY <1>2, <1>3, <3>3
      <4>2. ASSUME "skipped" \notin had' PROVE Get(latch, watched, {}) = {}
        <5>1. watched \notin DOMAIN latch
          BY <1>2, <3>3, <4>2 DEF Mishap
        <5>2. QED BY <5>1 DEF Get
      <4>3. QED BY <1>11, <3>1, <4>1, <4>2
    <3>4. QED BY <3>2, <3>3
  <2>2. Get(latch', watched', {}) = {}
    BY <1>5 DEF Get
  <2>3. QED BY <1>2, <1>4, <2>1, <2>2 DEF Owed
<1>15. GazeCountsMessages'
  <2>1. ASSUME watched \in DOMAIN byte, "lapsed" \notin had'
        PROVE  Get(gaze', watched, 0) = looked'
    <3>1. Get(gaze, watched, 0) = looked
      BY <1>11, <2>1 DEF IInv, GazeCountsMessages
    <3>2. DOMAIN latest # {} => watched \in DOMAIN latest
      BY <1>2, <2>1 DEF Mishap
    <3>3. CASE watched \in gazing
      <4>1. watched \in DOMAIN gaze'
        BY <1>7, <3>2, <3>3
      <4>2. gaze'[watched] = LeastOf(looked + 1, MaxGaze)
        BY <1>7, <3>1, <3>3, <4>1
      <4>3. QED BY <1>1, <3>3, <4>1, <4>2 DEF Get
    <3>4. CASE watched \notin gazing
      <4>1. watched \in DOMAIN gaze' <=> watched \in DOMAIN gaze
        BY <1>7, <3>2, <3>4
      <4>2. watched \in DOMAIN gaze' => gaze'[watched] = gaze[watched]
        BY <1>7, <3>4
      <4>3. QED BY <1>1, <3>1, <3>4, <4>1, <4>2 DEF Get
    <3>5. QED BY <3>3, <3>4
  <2>2. QED BY <1>2, <2>1 DEF GazeCountsMessages, Get
<1>16. Present'
  BY <1>2, <1>4 DEF Present, Empty
<1>17. Accounted'
  <2>1. Get(latch', watched, {}) = {} /\ Reentered \subseteq Reentered'
    BY <1>2, <1>5 DEF Get, Reentered
  <2>2. CASE watched \in DOMAIN latest
    BY <1>2, <2>1, <2>2 DEF IInv, Agreed, Accounted
  <2>3. CASE watched \notin DOMAIN latest
    <3>1. owed' = owed
      BY <1>2, <1>3, <2>3
    <3>2. QED BY <1>2, <2>1, <3>1 DEF IInv, Accounted
  <2>4. QED BY <2>2, <2>3
<1>18. QED BY <1>4, <1>9, <1>10, <1>12, <1>13, <1>14, <1>15, <1>16, <1>17 DEF IInv

\* A turn without a message preserves the invariant.
LEMMA NotDueStep == ASSUME IInv, NotDue PROVE IInv'
<1>1. /\ EndTurn(sincePub, held, heldAge) /\ latch' = latch /\ gaze' = gaze
      /\ byte' = byte /\ nextId' = nextId /\ tracks' = tracks
      /\ watched' = watched /\ place' = place /\ owed' = owed /\ looked' = looked /\ had' = had
  BY DEF NotDue, trackerVars, history
<1>2. /\ sincePub' \in 0 .. PublishEvery /\ heldAge' \in 0 .. Hold + 1
      /\ DOMAIN held' \subseteq Ids /\ held' \in [DOMAIN held' -> SUBSET Events]
      /\ DOMAIN latest' = {} /\ latest' \in [DOMAIN latest' -> SUBSET Events]
      /\ step' = "track" /\ Cache'
  <2>1. /\ sincePub \in 0 .. PublishEvery /\ heldAge \in 0 .. Hold + 1
        /\ DOMAIN held \subseteq Ids /\ held \in [DOMAIN held -> SUBSET Events]
        /\ heldAge <= Hold => sincePub <= heldAge
    BY DEF IInv, TypeOK, Cache
  <2>2. QED BY <1>1, <2>1, EndTurnFacts
<1>3. TypeOK'
  BY <1>1, <1>2 DEF IInv, TypeOK
<1>4. Known' /\ Gone' /\ Agreed' /\ Present'
  BY <1>1, <1>2 DEF IInv, Known, Gone, Agreed, Present
<1>5. Owed' /\ Accounted'
  BY <1>1, <1>2 DEF IInv, Owed, Accounted, Reentered, Get
<1>6. GazeCountsMessages'
  BY <1>1 DEF IInv, GazeCountsMessages, Get
<1>7. QED BY <1>2, <1>3, <1>4, <1>5, <1>6 DEF IInv

-----------------------------------------------------------------------------
(* Recovery, and the theorems *)

\* A recovery preserves the invariant: the tracks it forgets come back from the
\* byte tracker under the same ids, and the watched one is marked.
LEMMA RecoverStep == ASSUME IInv, Recover PROVE IInv'
<1>1. /\ step = "track" /\ tracks' = Empty
      /\ had' = had \cup Mishap("recovered", watched \in DOMAIN byte)
      /\ step' = step /\ byte' = byte /\ nextId' = nextId /\ latest' = latest
      /\ latch' = latch /\ sincePub' = sincePub /\ held' = held /\ heldAge' = heldAge
      /\ gaze' = gaze /\ watched' = watched /\ place' = place /\ owed' = owed /\ looked' = looked
  BY DEF Recover, publishVars
<1>2. DOMAIN latest = {}
  BY <1>1 DEF IInv, Agreed
<1>3. DOMAIN tracks' = {}
      /\ tracks' \in [DOMAIN tracks' -> [confirmed : BOOLEAN, inside : BOOLEAN, pending : SUBSET Events]]
  BY <1>1 DEF Empty
<1>4. TypeOK'
  <2>1. had' \subseteq Mishaps
    BY <1>1 DEF IInv, TypeOK, Mishap, Mishaps
  <2>2. QED BY <1>1, <1>3, <2>1 DEF IInv, TypeOK
<1>5. Known'
  <2>1. watched >= nextId => watched \notin DOMAIN byte
    <3>1. watched \in Int /\ nextId \in Int
      BY ConstantFacts DEF IInv, TypeOK, Ids
    <3>2. QED BY <3>1 DEF IInv, Known
  <2>2. watched >= nextId => had' = {}
    BY <1>1, <2>1 DEF IInv, Known, Mishap
  <2>3. QED BY <1>1, <2>2 DEF IInv, Known
<1>6. Gone'
  BY <1>1 DEF IInv, Gone, Mishap
<1>7. Agreed' /\ Present' /\ Cache'
  BY <1>1, <1>2, <1>3 DEF IInv, Agreed, Present, Cache
<1>8. Owed' /\ Accounted'
  <2>1. Owed'
    BY <1>1, <1>2 DEF IInv, Owed, Mishap
  <2>2. Reentered \subseteq Reentered' /\ Get(latch', watched, {}) = Get(latch, watched, {})
    BY <1>1 DEF Reentered, Get
  <2>3. Accounted'
    BY <1>1, <1>3, <2>2 DEF IInv, Accounted
  <2>4. QED BY <2>1, <2>3
<1>9. GazeCountsMessages'
  BY <1>1 DEF IInv, GazeCountsMessages, Get, Mishap
<1>10. QED BY <1>4, <1>5, <1>6, <1>7, <1>8, <1>9 DEF IInv

\* Every step preserves the invariant.
LEMMA NextIInv == IInv /\ [Next]_vars => IInv'
<1> SUFFICES ASSUME IInv, [Next]_vars PROVE IInv'
  OBVIOUS
<1>1. CASE Recover BY <1>1, RecoverStep
<1>2. CASE Track   BY <1>2, TrackStep
<1>3. CASE Publish BY <1>3, PublishStep
<1>4. CASE NotDue  BY <1>4, NotDueStep
<1>5. CASE UNCHANGED vars
  BY <1>5 DEF vars, trackerVars, publishVars, history, IInv, TypeOK, Known, Gone, Agreed,
              Present, Seen, Cache, Accounted, Reentered, Owed, GazeCountsMessages, Get
<1>6. QED BY <1>1, <1>2, <1>3, <1>4, <1>5 DEF Next

\* The inductive invariant holds in every reachable state.
THEOREM Invariance == Spec => []IInv
  BY InitIInv, NextIInv, PTL DEF Spec

\* The tracker's maps, the latch, the cache and the gaze map stay in their types,
\* and the tracker never has a track that the byte tracker does not.
THEOREM TypeCorrect == Spec => []TypeOK
<1>1. IInv => TypeOK BY DEF IInv
<1>2. QED BY <1>1, Invariance, PTL

\* No id is used for two people, through any number of recoveries.
THEOREM IdsUnique == Spec => []IdsNeverReused
<1>1. IInv => IdsNeverReused
  <2> SUFFICES ASSUME IInv, "deleted" \in had PROVE watched \notin DOMAIN byte \cup DOMAIN latest
    BY DEF IdsNeverReused
  <2>1. watched \notin DOMAIN byte
    BY DEF IInv, Gone
  <2>2. DOMAIN latest \subseteq DOMAIN byte
    BY DEF IInv, Agreed, TypeOK
  <2>3. QED BY <2>1, <2>2
<1>2. QED BY <1>1, Invariance, PTL

\* Gaze time counts the messages at whose publish the person looked at the camera.
THEOREM GazeCounted == Spec => []GazeCountsMessages
<1>1. IInv => GazeCountsMessages BY DEF IInv
<1>2. QED BY <1>1, Invariance, PTL

\* A flag of a message is true only for a kind of crossing that no earlier one reported
\* or for the entry a recovery makes up; and for each such kind, if the person lived
\* through no recovery and no message skipped events of it.
THEOREM FlagsReported == Spec => FlagsExact
<1> DEFINE Exact == /\ Emitted[watched] \subseteq owed \cup Reentered
                    /\ {"recovered", "skipped"} \cap had = {} => Emitted[watched] = owed
<1>1. ASSUME IInv, Publish, watched \in DOMAIN latest PROVE Exact
  <2>1. Emitted[watched] = tracks[watched].pending \cup Get(latch, watched, {})
    BY <1>1, EmittedFacts DEF IInv, Publish
  <2>2. watched \in DOMAIN byte /\ watched \in DOMAIN tracks
    BY <1>1 DEF IInv, Agreed, TypeOK
  <2>3. Emitted[watched] \subseteq owed \cup Reentered
    BY <1>1, <2>1, <2>2 DEF IInv, Accounted
  <2>4. {"recovered", "skipped"} \cap had = {} => Emitted[watched] = owed
    BY <1>1, <2>1, <2>2 DEF IInv, Owed
  <2>5. QED BY <2>3, <2>4
<1>2. IInv => [(Publish /\ watched \in DOMAIN latest) => Exact]_vars
  BY <1>1
<1>3. QED BY <1>2, Invariance, PTL DEF FlagsExact

\* A message has the people in sight, all of them and nobody else: the emission cache
\* never adds to it.
THEOREM PublishedLately == Spec => PublishedIsSeen
<1>1. ASSUME IInv, Publish PROVE DOMAIN Emitted = Seen
  BY <1>1, EmittedFacts DEF IInv, Present, Publish
<1>2. IInv => [Publish => DOMAIN Emitted = Seen]_vars
  BY <1>1
<1>3. QED BY <1>2, Invariance, PTL DEF PublishedIsSeen

\* Of the latched events only those of people out of sight go unreported.
THEOREM LossIsOutOfSight == Spec => LostOnlyOutOfSight
<1>1. ASSUME IInv, Publish, NEW id \in DOMAIN latch \ DOMAIN Emitted, id \in DOMAIN byte
      PROVE  byte[id].missed > PublishGrace
  <2>1. id \notin Seen
    BY <1>1, EmittedFacts DEF IInv, Present, Publish
  <2>2. byte[id].hits >= NInit
    BY <1>1 DEF IInv, Present
  <2>3. byte[id] \in [hits : 1 .. NInit, missed : 0 .. MaxAge]
    BY <1>1 DEF IInv, TypeOK
  <2>4. QED BY <1>1, <2>1, <2>2, <2>3, ConstantFacts DEF Seen
<1>2. IInv => [Publish => \A id \in DOMAIN latch \ DOMAIN Emitted :
                 id \notin DOMAIN byte \/ byte[id].missed > PublishGrace]_vars
  BY <1>1
<1>3. QED BY <1>2, Invariance, PTL DEF LostOnlyOutOfSight
=============================================================================
