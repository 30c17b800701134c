---------------------------- MODULE RoomKeyProofs ----------------------------
(* What safeRoom guarantees for every room name, of any length. *)
EXTENDS RoomKey, SequenceTheorems, TLAPS

(* The characters that are an underscore or become one.                    *)
Replaced == (Char \ SafeChar) \cup {"_"}

(* Sanitizing yields safe characters only, as many as the name has.        *)
LEMMA SanitizeSafe ==
  ASSUME NEW name \in Seq(Char)
  PROVE  /\ Sanitize(name) \in Seq(SafeChar)
         /\ Len(Sanitize(name)) = Len(name)
         /\ \A i \in 1 .. Len(name) :
              Sanitize(name)[i] = IF name[i] \in SafeChar THEN name[i] ELSE "_"
<1> DEFINE safe(i) == IF name[i] \in SafeChar THEN name[i] ELSE "_"
<1>1. \A i \in 1 .. Len(name) : safe(i) \in SafeChar
  BY CharAssumption
<1>2. Sanitize(name) = [i \in 1 .. Len(name) |-> safe(i)]
  BY DEF Sanitize
<1> HIDE DEF safe
<1>3. Len(name) \in Nat
  OBVIOUS
<1>4. Sanitize(name) \in Seq(SafeChar) /\ Len(Sanitize(name)) = Len(name)
  BY <1>1, <1>2, <1>3
<1> QED
  BY <1>2, <1>4 DEF safe

(* Sanitizing leaves a name of safe characters as it is.                   *)
LEMMA SanitizeFixesSafe ==
  ASSUME NEW name \in Seq(SafeChar)
  PROVE  Sanitize(name) = name
<1>1. name \in Seq(Char)
  BY CharAssumption, SeqMonotonic
<1>2. \A i \in 1 .. Len(name) : name[i] \in SafeChar
  BY ElementOfSeq
<1>3. /\ Sanitize(name) \in Seq(SafeChar)
      /\ Len(Sanitize(name)) = Len(name)
      /\ \A i \in 1 .. Len(name) : Sanitize(name)[i] = name[i]
  BY <1>1, <1>2, SanitizeSafe
<1> QED
  BY <1>3, SeqEqual

(* A storage key is a single path segment made of safe characters, never   *)
(* "." or "..": safeRoom "forecloses path traversal" (persistence.go:188). *)
THEOREM KeyIsOneSegment ==
  ASSUME NEW name \in Seq(Char), SafeRoom(name) # NoKey
  PROVE  /\ SafeRoom(name) \in Seq(SafeChar) \ DotNames
         /\ \A i \in 1 .. Len(SafeRoom(name)) : SafeRoom(name)[i] # "/"
<1>1. SafeRoom(name) = Sanitize(name) /\ Sanitize(name) \notin DotNames
  BY DEF SafeRoom
<1>2. Sanitize(name) \in Seq(SafeChar)
  BY SanitizeSafe
<1>3. \A i \in 1 .. Len(Sanitize(name)) : Sanitize(name)[i] \in SafeChar
  BY <1>2
<1> QED
  BY <1>1, <1>2, <1>3, CharAssumption

(* A key used as a room name is stored under itself, so that sanitizing    *)
(* twice changes nothing (persistence.go:190-196).                         *)
THEOREM KeyIsStable ==
  ASSUME NEW name \in Seq(Char), SafeRoom(name) # NoKey
  PROVE  SafeRoom(SafeRoom(name)) = SafeRoom(name)
<1>1. SafeRoom(name) = Sanitize(name) /\ Sanitize(name) \notin DotNames
  BY DEF SafeRoom
<1>2. Sanitize(Sanitize(name)) = Sanitize(name)
  BY SanitizeSafe, SanitizeFixesSafe
<1> QED
  BY <1>1, <1>2 DEF SafeRoom

(* Rooms whose names hold only safe characters never share a key, which is *)
(* what SnapshotAdapter's theorems on isolation ask of the rooms' names    *)
(* (persistence.go:177-196).                                               *)
THEOREM SafeNamesKeepApart ==
  ASSUME NEW a \in Seq(SafeChar), NEW b \in Seq(SafeChar),
         SafeRoom(a) # NoKey, SafeRoom(a) = SafeRoom(b)
  PROVE  a = b
<1>1. Sanitize(a) = a /\ Sanitize(b) = b
  BY SanitizeFixesSafe
<1> QED
  BY <1>1 DEF SafeRoom

(* Two names share a key exactly if they are equally long and differ only  *)
(* where both have an underscore or a character that becomes one           *)
(* (persistence.go:177-196).                                               *)
THEOREM SharedKeys ==
  ASSUME NEW a \in Seq(Char), NEW b \in Seq(Char), SafeRoom(a) # NoKey
  PROVE  SafeRoom(a) = SafeRoom(b) <=>
           /\ Len(a) = Len(b)
           /\ \A i \in 1 .. Len(a) :
                a[i] = b[i] \/ {a[i], b[i]} \subseteq Replaced
<1>1. SafeRoom(a) = SafeRoom(b) <=> Sanitize(a) = Sanitize(b)
  BY DEF SafeRoom
<1>2. Sanitize(a) = Sanitize(b) <=>
        /\ Len(a) = Len(b)
        /\ \A i \in 1 .. Len(a) : Sanitize(a)[i] = Sanitize(b)[i]
  <2>1. /\ Sanitize(a) \in Seq(SafeChar) /\ Len(Sanitize(a)) = Len(a)
        /\ Sanitize(b) \in Seq(SafeChar) /\ Len(Sanitize(b)) = Len(b)
    BY SanitizeSafe
  <2>2. ASSUME Len(a) = Len(b), \A i \in 1 .. Len(a) : Sanitize(a)[i] = Sanitize(b)[i]
        PROVE  Sanitize(a) = Sanitize(b)
    BY <2>1, <2>2, SeqEqual
  <2>3. Sanitize(a) = Sanitize(b) => Len(a) = Len(b)
    BY <2>1
  <2> QED
    BY <2>2, <2>3
<1>3. ASSUME Len(a) = Len(b), NEW i \in 1 .. Len(a)
      PROVE  Sanitize(a)[i] = Sanitize(b)[i] <=>
               a[i] = b[i] \/ {a[i], b[i]} \subseteq Replaced
  <2>1. a[i] \in Char /\ b[i] \in Char
    BY <1>3, ElementOfSeq
  <2>2. Sanitize(a)[i] = IF a[i] \in SafeChar THEN a[i] ELSE "_"
    BY SanitizeSafe
  <2>3. Sanitize(b)[i] = IF b[i] \in SafeChar THEN b[i] ELSE "_"
    <3>1. i \in 1 .. Len(b)
      BY <1>3
    <3> QED
      BY <3>1, SanitizeSafe
  <2>4. \A x \in Char : x \in Replaced <=> x \notin SafeChar \/ x = "_"
    BY CharAssumption DEF Replaced
  <2>5. {a[i], b[i]} \subseteq Replaced <=>
          (a[i] \notin SafeChar \/ a[i] = "_") /\ (b[i] \notin SafeChar \/ b[i] = "_")
    BY <2>1, <2>4
  <2> QED
    BY <2>2, <2>3, <2>4, <2>5, CharAssumption
<1> QED
  BY <1>1, <1>2, <1>3

(* Board ids such as "<userid>:default" (persistence.go:182-186) keep      *)
(* apart as long as only one of their characters becomes an underscore or  *)
(* is one: with colons in the ids no user id may have an underscore.       *)
THEOREM BoardIdsKeepApart ==
  ASSUME NEW C \in SUBSET Char, \A x \in C \cap Replaced, y \in C \cap Replaced : x = y,
         NEW a \in Seq(C), NEW b \in Seq(C),
         SafeRoom(a) # NoKey, SafeRoom(a) = SafeRoom(b)
  PROVE  a = b
<1>1. a \in Seq(Char) /\ b \in Seq(Char)
  BY SeqMonotonic
<1>2. /\ Len(a) = Len(b)
      /\ \A i \in 1 .. Len(a) :
           a[i] = b[i] \/ {a[i], b[i]} \subseteq Replaced
  BY <1>1, SharedKeys
<1>3. \A i \in 1 .. Len(a) : a[i] \in C /\ b[i] \in C
  BY <1>2, ElementOfSeq
<1>4. \A i \in 1 .. Len(a) : a[i] = b[i]
  BY <1>2, <1>3
<1> QED
  BY <1>2, <1>4, SeqEqual
=============================================================================
