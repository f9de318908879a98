------------------------------ MODULE NamesProofs ------------------------------
(* Proofs about Names, for all project IDs, namespaces and limits, and     *)
(* what follows for Credentials with accounts named that way.              *)
EXTENDS MCSharedAccount, SequenceTheorems, FiniteSetTheorems, WellFoundedInduction, TLAPS

--------------------------------------------------------------------------------
(* The parts of a name.                                                    *)

\* A set of numbers has a smallest one.
LEMMA Smallest ==
    ASSUME NEW S, S \subseteq Nat, S # {}
    PROVE  \E i \in S : \A k \in S : i <= k
<1> DEFINE R == OpToRel(<, Nat)
<1>1. PICK i \in S : \A k \in S : ~(<<k, i>> \in R)
  <2>1. IsWellFoundedOn(R, Nat)
    BY NatLessThanWellFounded
  <2> QED BY <2>1, WFMin
<1>2. \A k \in S : ~(k < i)
  BY <1>1 DEF OpToRel
<1> QED BY <1>2

\* A sequence of one character.
LEMMA Single ==
    ASSUME NEW S, NEW c \in S
    PROVE  <<c>> \in Seq(S) /\ Len(<<c>>) = 1 /\ <<c>>[1] = c
OBVIOUS

\* strings.Cut splits a namespace that names a shoot into the project with
\* the separator, and the shoot's name.
LEMMA Parts ==
    ASSUME NEW namespace \in ShootSpaces
    PROVE  LET rest == namespace.rest
               shoot == ShootName(rest)
           IN  /\ namespace.technical /\ rest \in Text
               /\ shoot \in Text /\ shoot # <<>>
               /\ ProjectPart(rest) \in Text
               /\ ProjectPart(rest) \o shoot = rest
<1> DEFINE rest == namespace.rest
           first == CHOOSE i \in Separators(rest) : \A k \in Separators(rest) : i <= k
<1>1. namespace.technical /\ rest \in Text /\ Separators(rest) # {} /\ ShootName(rest) # <<>>
  BY NamesAssumption DEF ShootSpaces, NamesAShoot
<1>2. Len(rest) \in Nat
  BY <1>1, LenProperties DEF Text
<1>3. Separators(rest) \subseteq Nat
  BY <1>2 DEF Separators
<1>4. first \in Separators(rest)
  BY <1>1, <1>3, Smallest
<1>5. first \in 1..(Len(rest) - 1)
  BY <1>4 DEF Separators
<1>6. ShootName(rest) = SubSeq(rest, first + 2, Len(rest))
  BY DEF ShootName
<1> HIDE DEF first, rest
<1>7. \A i \in 1..Len(rest) : rest[i] \in Characters
  BY <1>1, ElementOfSeq DEF Text
<1>8. /\ ShootName(rest) \in Text
      /\ Len(ShootName(rest)) = Len(rest) - first - 1
  <2>1. \A i \in (first + 2)..Len(rest) : rest[i] \in Characters
    BY <1>2, <1>5, <1>7
  <2>2. /\ SubSeq(rest, first + 2, Len(rest)) \in Seq(Characters)
        /\ Len(SubSeq(rest, first + 2, Len(rest))) =
               IF first + 2 <= Len(rest) THEN Len(rest) - (first + 2) + 1 ELSE 0
    BY <2>1, <1>2, <1>5, SubSeqProperties
  <2> QED BY <2>2, <1>2, <1>5, <1>6 DEF Text
<1>9. ProjectPart(rest) = SubSeq(rest, 1, first + 1)
  <2>1. Len(rest) - Len(ShootName(rest)) = first + 1
    BY <1>2, <1>5, <1>8
  <2> QED BY <2>1 DEF ProjectPart
<1>10. ProjectPart(rest) \in Text
  <2>1. \A i \in 1..(first + 1) : rest[i] \in Characters
    BY <1>2, <1>5, <1>7
  <2> QED BY <2>1, <1>2, <1>5, <1>9, SubSeqProperties DEF Text
<1>11. ProjectPart(rest) \o ShootName(rest) = rest
  <2>1. SubSeq(rest, 1, first + 1) \o SubSeq(rest, first + 1 + 1, Len(rest))
            = SubSeq(rest, 1, Len(rest))
    <3> rest \in Seq(Characters)
      BY <1>1 DEF Text
    <3>1. /\ 1 \in 1..(Len(rest) + 1) /\ first + 1 \in (1 - 1)..Len(rest)
          /\ Len(rest) \in (first + 1)..Len(rest)
      BY <1>2, <1>5
    <3> QED BY <3>1, ConcatAdjacentSubSeq
  <2>2. SubSeq(rest, 1, Len(rest)) = rest
    BY <1>1, SubSeqFull DEF Text
  <2>3. first + 1 + 1 = first + 2
    BY <1>5
  <2> QED BY <2>1, <2>2, <2>3, <1>6, <1>9
<1> QED BY <1>1, <1>8, <1>10, <1>11 DEF rest

\* Namespaces of shoots that read the same are the same.
LEMMA SameRest ==
    ASSUME NEW m \in ShootSpaces, NEW n \in ShootSpaces, m.rest = n.rest
    PROVE  m = n
<1>1. m.technical = TRUE /\ n.technical = TRUE
  BY NamesAssumption DEF ShootSpaces, NamesAShoot
<1> QED BY <1>1, NamesAssumption DEF ShootSpaces

--------------------------------------------------------------------------------
(* Accounts.                                                               *)

\* A shoot's name that begins with something else than a hyphen, with that in
\* the place of one.
Started(shoot) == IF Head(shoot) = Hyphen THEN <<"s">> \o Tail(shoot) ELSE shoot

\* It is as long as the name, and does not begin with a hyphen.
LEMMA StartedIsName ==
    ASSUME NEW shoot \in Text, shoot # <<>>
    PROVE  /\ Started(shoot) \in Text
           /\ Len(Started(shoot)) = Len(shoot) /\ Len(shoot) \in Nat \ {0}
           /\ Started(shoot)[1] # Hyphen
<1>1. Len(shoot) \in Nat \ {0}
  BY EmptySeq DEF Text
<1>2. /\ Tail(shoot) \in Seq(Characters) /\ Len(Tail(shoot)) = Len(shoot) - 1
  BY HeadTailProperties DEF Text
<1>3. Head(shoot) = shoot[1]
  BY DEF Text
<1>4. /\ <<"s">> \in Seq(Characters) /\ Len(<<"s">>) = 1 /\ <<"s">>[1] = "s"
  <2>1. "s" \in Characters
    BY NamesAssumption
  <2> QED BY <2>1, Single
<1>5. CASE Head(shoot) = Hyphen
  <2>1. Started(shoot) = <<"s">> \o Tail(shoot)
    BY <1>5 DEF Started
  <2>2. /\ <<"s">> \o Tail(shoot) \in Seq(Characters)
        /\ Len(<<"s">> \o Tail(shoot)) = Len(<<"s">>) + Len(Tail(shoot))
        /\ (<<"s">> \o Tail(shoot))[1] = "s"
    BY <1>1, <1>2, <1>4, ConcatProperties
  <2> QED BY <2>1, <2>2, <1>1, <1>2, <1>4 DEF Text, Hyphen
<1>6. CASE Head(shoot) # Hyphen
  BY <1>1, <1>3, <1>6 DEF Started
<1> QED BY <1>5, <1>6

\* The beginning of a name: what Username makes of it.
LEMMA Beginning ==
    ASSUME NEW name \in Text, Len(name) \in Nat \ {0}, NEW k \in 1..Len(name)
    PROVE  /\ SubSeq(name, 1, k) \in Text
           /\ Len(SubSeq(name, 1, k)) = k
           /\ Head(SubSeq(name, 1, k)) = name[1]
<1>1. \A i \in 1..k : name[i] \in Characters
  BY ElementOfSeq DEF Text
<1>2. /\ SubSeq(name, 1, k) \in Seq(Characters)
      /\ Len(SubSeq(name, 1, k)) = k
  BY <1>1, SubSeqProperties
<1>3. Head(SubSeq(name, 1, k)) = name[1]
  BY HeadTailOfSubSeq DEF Text
<1> QED BY <1>2, <1>3 DEF Text

\* Every account fits ONTAP, whatever the namespace: never empty, never
\* beginning with a hyphen, never too long (getClusterUsername).
THEOREM AccountsFit == AccountNamesFit
<1> SUFFICES ASSUME NEW namespace \in ShootSpaces
             PROVE  /\ Len(AccountName(namespace)) \in 1..Limit
                    /\ Head(AccountName(namespace)) # Hyphen
  BY DEF AccountNamesFit
<1> DEFINE shoot == ShootName(namespace.rest)
           name == Started(shoot)
           end == IF Len(name) > Limit THEN Limit ELSE Len(name)
<1>1. shoot \in Text /\ shoot # <<>>
  BY Parts
<1>2. name \in Text /\ Len(name) \in Nat \ {0} /\ name[1] # Hyphen
  BY <1>1, StartedIsName
<1>3. AccountName(namespace) = SubSeq(name, 1, end)
  BY DEF AccountName, Username, Started
<1> HIDE DEF name
<1>4. end \in 1..Len(name) /\ end \in 1..Limit
  BY <1>2, NamesAssumption
<1> QED BY <1>2, <1>3, <1>4, Beginning

\* So no step of Credentials has to do with an account that ONTAP would refuse.
THEOREM AccountsMeetOntapAlways == Spec => []AccountsMeetOntap
<1>1. AccountsMeetOntap
  BY AccountsFit DEF AccountsMeetOntap
<1> QED BY <1>1, PTL

\* getClusterUsername leaves an ordinary name as it is.
LEMMA OrdinaryStays ==
    ASSUME NEW shoot \in Text, shoot # <<>>, Ordinary(shoot)
    PROVE  Username(shoot) = shoot
<1>1. Len(shoot) \in Nat \ {0} /\ Len(shoot) <= Limit
  BY StartedIsName DEF Ordinary
<1>2. Username(shoot) = SubSeq(shoot, 1, Len(shoot))
  BY <1>1, NamesAssumption DEF Username, Ordinary
<1> QED BY <1>2, SubSeqFull DEF Text

\* Two shoots of a Gardener project whose names are neither cut nor begin
\* with a hyphen have two accounts: the account is the shoot's name, and the
\* namespace is the project and the name.
THEOREM AccountsDiffer == AccountNamesDiffer
<1> SUFFICES ASSUME NEW m \in ShootSpaces, NEW n \in ShootSpaces,
                    ProjectPart(m.rest) = ProjectPart(n.rest),
                    Ordinary(ShootName(m.rest)), Ordinary(ShootName(n.rest)),
                    AccountName(m) = AccountName(n)
             PROVE  m = n
  BY DEF AccountNamesDiffer
<1>1. ShootName(m.rest) = ShootName(n.rest)
  <2>1. AccountName(m) = ShootName(m.rest) /\ AccountName(n) = ShootName(n.rest)
    BY Parts, OrdinaryStays DEF AccountName
  <2> QED BY <2>1
<1>2. m.rest = n.rest
  <2>1. ProjectPart(m.rest) \o ShootName(m.rest) = m.rest
    BY Parts
  <2>2. ProjectPart(n.rest) \o ShootName(n.rest) = n.rest
    BY Parts
  <2> QED BY <1>1, <2>1, <2>2
<1> QED BY <1>2, SameRest

\* In every state, accounts that should differ do.
THEOREM AccountsAreApartAlways == Spec => []AccountsAreApart
<1>1. AccountsAreApart
  BY AccountsDiffer DEF AccountsAreApart
<1> QED BY <1>1, PTL

--------------------------------------------------------------------------------
(* Secrets.                                                                *)

\* Each place behind a project ID's letter holds a character of the ID that is
\* no hyphen: ranking the kept places numbers them without gaps.
LEMMA RankedPlaces ==
    ASSUME NEW id \in Text
    PROVE  /\ Cardinality(Kept(id)) \in Nat
           /\ \A k \in 1..Cardinality(Kept(id)) :
                  \E i \in Kept(id) : Rank(id, i) = k
<1> DEFINE count == Cardinality(Kept(id))
           upTo(i) == {k \in Kept(id) : k <= i}
           rank == [i \in Kept(id) |-> Rank(id, i)]
<1>1. Len(id) \in Nat
  BY LenProperties DEF Text
<1>2. Kept(id) \subseteq 1..Len(id)
  BY DEF Kept
<1>3. IsFiniteSet(Kept(id))
  <2>1. IsFiniteSet(1..Len(id))
    BY <1>1, FS_Interval
  <2> QED BY <1>2, <2>1, FS_Subset
<1>4. count \in Nat
  BY <1>3, FS_CardinalityType
<1>5. ASSUME NEW i \in Kept(id)
      PROVE  /\ IsFiniteSet(upTo(i)) /\ Cardinality(upTo(i)) \in 1..count
             /\ Rank(id, i) = Cardinality(upTo(i))
  <2>1. upTo(i) \in SUBSET Kept(id) /\ i \in upTo(i)
    BY <1>1, <1>2
  <2>2. IsFiniteSet(upTo(i)) /\ Cardinality(upTo(i)) <= count
    BY <1>3, <2>1, FS_Subset
  <2>3. Cardinality(upTo(i)) \in Nat /\ Cardinality(upTo(i)) # 0
    BY <2>1, <2>2, FS_CardinalityType, FS_EmptySet
  <2>4. Rank(id, i) = Cardinality(upTo(i))
    BY DEF Rank
  <2> QED BY <1>4, <2>2, <2>3, <2>4
<1>6. ASSUME NEW i \in Kept(id), NEW k \in Kept(id), i < k
      PROVE  Rank(id, i) # Rank(id, k)
  <2>1. upTo(i) \in SUBSET upTo(k) /\ k \in upTo(k) /\ k \notin upTo(i)
    BY <1>1, <1>2, <1>6
  <2>2. Cardinality(upTo(i)) # Cardinality(upTo(k))
    BY <1>5, <2>1, FS_Subset
  <2> QED BY <1>5, <2>2
<1>7. rank \in Injection(Kept(id), 1..count)
  <2>1. rank \in [Kept(id) -> 1..count]
    BY <1>5
  <2>2. ASSUME NEW i \in Kept(id), NEW k \in Kept(id), rank[i] = rank[k]
        PROVE  i = k
    <3>1. i \in Nat /\ k \in Nat
      BY <1>1, <1>2
    <3> QED BY <1>6, <2>2, <3>1
  <2> QED BY <2>1, <2>2 DEF Injection, IsInjective
<1>8. rank \in Surjection(Kept(id), 1..count)
  <2>1. IsFiniteSet(1..count) /\ Cardinality(1..count) = count
    BY <1>4, FS_Interval
  <2> QED BY <1>7, <2>1, FS_Injection
<1> QED BY <1>4, <1>8 DEF Surjection

\* The name of an SVM has no hyphens (actuator.go:164).
LEMMA SvmNameWithoutHyphens ==
    ASSUME NEW id \in Text
    PROVE  /\ SvmName(id) \in Text /\ Len(SvmName(id)) \in Nat
           /\ \A k \in 1..Len(SvmName(id)) : SvmName(id)[k] # Hyphen
<1> DEFINE count == Cardinality(Kept(id))
           place(k) == CHOOSE i \in Kept(id) : Rank(id, i) = k
           rest == [k \in 1..count |-> id[place(k)]]
           letter == <<"p">>
<1>1. count \in Nat /\ \A k \in 1..count : place(k) \in Kept(id)
  BY RankedPlaces
<1>2. \A k \in 1..count : id[place(k)] \in Characters /\ id[place(k)] # Hyphen
  BY <1>1, ElementOfSeq DEF Kept, Text
<1> HIDE DEF count, place
<1>3. rest \in Seq(Characters) /\ Len(rest) = count
  <2>1. rest \in [1..count -> Characters]
    BY <1>2
  <2>2. rest \in Seq(Characters)
    BY <1>1, <2>1, SeqDef
  <2>3. DOMAIN rest = 1..Len(rest) /\ DOMAIN rest = 1..count /\ Len(rest) \in Nat
    BY <2>1, <2>2, LenProperties
  <2> QED BY <1>1, <2>2, <2>3
<1>4. letter \in Seq(Characters) /\ Len(letter) = 1 /\ letter[1] # Hyphen
  <2>1. "p" \in Characters /\ "p" # Hyphen
    BY NamesAssumption DEF Hyphen
  <2> QED BY <2>1, Single
<1>5. SvmName(id) = letter \o rest
  BY DEF SvmName, count, place
<1> HIDE DEF letter, rest
<1>6. /\ SvmName(id) \in Seq(Characters) /\ Len(SvmName(id)) = 1 + count
      /\ \A k \in 1..(1 + count) :
             SvmName(id)[k] = IF k <= 1 THEN letter[k] ELSE rest[k - 1]
  BY <1>3, <1>4, <1>5, ConcatProperties
<1>7. ASSUME NEW k \in 1..(1 + count)
      PROVE  SvmName(id)[k] # Hyphen
  <2>1. CASE k = 1
    <3>1. SvmName(id)[k] = letter[1]
      BY <1>1, <1>6, <2>1
    <3> QED BY <1>4, <3>1
  <2>2. CASE k # 1
    <3>1. k - 1 \in 1..count /\ ~(k <= 1)
      BY <1>1, <2>2
    <3>2. SvmName(id)[k] = rest[k - 1]
      BY <1>6, <3>1
    <3>3. rest[k - 1] = id[place(k - 1)]
      BY <3>1 DEF rest
    <3> QED BY <1>2, <3>1, <3>2, <3>3
  <2> QED BY <2>1, <2>2
<1> QED BY <1>1, <1>6, <1>7 DEF Text

\* Where two texts without hyphens are followed by one and the rest is equally
\* long, equal wholes have equal parts.
LEMMA FirstHyphen ==
    ASSUME NEW a \in Seq(Characters), NEW b \in Seq(Characters),
           NEW r \in Seq(Characters), NEW q \in Seq(Characters),
           \A k \in 1..Len(a) : a[k] # Hyphen,
           \A k \in 1..Len(b) : b[k] # Hyphen,
           r[1] = Hyphen, q[1] = Hyphen, r # <<>>, q # <<>>,
           a \o r = b \o q
    PROVE  r = q
<1>1. /\ Len(a) \in Nat /\ Len(b) \in Nat
      /\ Len(r) \in Nat \ {0} /\ Len(q) \in Nat \ {0}
  BY LenProperties, EmptySeq
<1>2. /\ Len(a \o r) = Len(a) + Len(r)
      /\ \A k \in 1..(Len(a) + Len(r)) :
             (a \o r)[k] = IF k <= Len(a) THEN a[k] ELSE r[k - Len(a)]
  BY ConcatProperties
<1>3. /\ Len(b \o q) = Len(b) + Len(q)
      /\ \A k \in 1..(Len(b) + Len(q)) :
             (b \o q)[k] = IF k <= Len(b) THEN b[k] ELSE q[k - Len(b)]
  BY ConcatProperties
<1>4. Len(a) + Len(r) = Len(b) + Len(q)
  BY <1>2, <1>3
<1>5. Len(a) = Len(b)
  <2>1. CASE Len(a) < Len(b)
    <3> DEFINE k == Len(a) + 1
    <3>1. k \in 1..(Len(a) + Len(r)) /\ k \in 1..Len(b) /\ ~(k <= Len(a)) /\ k - Len(a) = 1
      BY <1>1, <2>1
    <3>2. (a \o r)[k] = r[1]
      BY <1>2, <3>1
    <3>3. (b \o q)[k] = b[k]
      BY <1>1, <1>3, <1>4, <3>1
    <3> QED BY <3>1, <3>2, <3>3
  <2>2. CASE Len(b) < Len(a)
    <3> DEFINE k == Len(b) + 1
    <3>1. k \in 1..(Len(b) + Len(q)) /\ k \in 1..Len(a) /\ ~(k <= Len(b)) /\ k - Len(b) = 1
      BY <1>1, <2>2
    <3>2. (b \o q)[k] = q[1]
      BY <1>3, <3>1
    <3>3. (a \o r)[k] = a[k]
      BY <1>1, <1>2, <1>4, <3>1
    <3> QED BY <3>1, <3>2, <3>3
  <2> QED BY <1>1, <2>1, <2>2
<1>6. Len(r) = Len(q)
  BY <1>1, <1>4, <1>5
<1>7. ASSUME NEW k \in 1..Len(r)
      PROVE  r[k] = q[k]
  <2> DEFINE l == Len(a) + k
  <2>1. l \in 1..(Len(a) + Len(r)) /\ ~(l <= Len(a)) /\ l - Len(a) = k
    BY <1>1
  <2>2. (a \o r)[l] = r[k]
    BY <1>2, <2>1
  <2>3. (b \o q)[l] = q[k]
    BY <1>3, <1>5, <1>6, <2>1
  <2> QED BY <2>2, <2>3
<1> QED BY <1>6, <1>7, SeqEqual

\* What is equal before, or behind, equal texts is equal.
LEMMA CancelBefore ==
    ASSUME NEW S, NEW s \in Seq(S), NEW r \in Seq(S), NEW q \in Seq(S), s \o r = s \o q
    PROVE  r = q
BY ConcatSimplifications

\* The same at the other end.
LEMMA CancelBehind ==
    ASSUME NEW S, NEW s \in Seq(S), NEW r \in Seq(S), NEW q \in Seq(S), r \o s = q \o s
    PROVE  r = q
BY ConcatSimplifications

\* What a secret's name has behind that of the SVM.
LeadIn == <<Hyphen>>
Ending == <<Hyphen, "credentials">>
Behind(rest) == LeadIn \o (rest \o Ending)

\* Both are texts.
LEMMA EndsOfNames ==
    /\ LeadIn \in Seq(Characters) /\ Len(LeadIn) = 1 /\ LeadIn[1] = Hyphen
    /\ Ending \in Seq(Characters)
<1>1. Hyphen \in Characters /\ "credentials" \in Characters
  BY NamesAssumption
<1>2. \A c, d \in Characters : <<c, d>> \in Seq(Characters)
  OBVIOUS
<1> QED BY <1>1, <1>2, Single DEF LeadIn, Ending

\* A secret's name is that of the SVM, a hyphen and more.
LEMMA SecretParts ==
    ASSUME NEW svm \in Seq(Characters), NEW rest \in Seq(Characters)
    PROVE  /\ rest \o Ending \in Seq(Characters)
           /\ Behind(rest) \in Seq(Characters) /\ Behind(rest) # <<>>
           /\ Behind(rest)[1] = Hyphen
           /\ SecretName(svm, rest) = svm \o Behind(rest)
<1> DEFINE back == rest \o Ending
<1>0. LeadIn \in Seq(Characters)
  BY EndsOfNames
<1>1. back \in Seq(Characters)
  BY EndsOfNames, ConcatProperties
<1>2. Behind(rest) = LeadIn \o back
  BY Zenon DEF Behind
<1>3. svm \o LeadIn \in Seq(Characters)
  BY EndsOfNames, ConcatProperties
<1>4. SecretName(svm, rest) = ((svm \o LeadIn) \o rest) \o Ending
  BY Zenon DEF SecretName, LeadIn, Ending
<1>5. ((svm \o LeadIn) \o rest) \o Ending = (svm \o LeadIn) \o back
  BY <1>3, EndsOfNames, ConcatAssociative
<1> HIDE DEF back
<1>6. (svm \o LeadIn) \o back = svm \o (LeadIn \o back)
  BY <1>0, <1>1, ConcatAssociative, SMTT(30)
<1>7. Len(back) \in Nat
  BY <1>1, LenProperties
<1>8. /\ LeadIn \o back \in Seq(Characters)
      /\ Len(LeadIn \o back) = Len(LeadIn) + Len(back)
      /\ \A i \in 1..(Len(LeadIn) + Len(back)) :
             (LeadIn \o back)[i] = IF i <= Len(LeadIn) THEN LeadIn[i]
                                  ELSE back[i - Len(LeadIn)]
  BY <1>0, <1>1, ConcatProperties, SMTT(30)
<1>9. Behind(rest) # <<>> /\ Behind(rest)[1] = Hyphen
  <2>1. Len(LeadIn \o back) # 0 /\ (LeadIn \o back)[1] = LeadIn[1]
    BY <1>7, <1>8, EndsOfNames
  <2> QED BY <1>2, <2>1, EndsOfNames, EmptySeq
<1>10. rest \o Ending \in Seq(Characters)
  BY <1>1 DEF back
<1> QED BY <1>2, <1>4, <1>5, <1>6, <1>8, <1>9, <1>10

\* Two shoots never share a secret, whatever hyphens their projects' IDs and
\* their namespaces have: the first hyphen of a secret's name ends the name
\* of the SVM, and what follows is the namespace.
THEOREM SecretsDiffer == SecretNamesDiffer
<1> SUFFICES ASSUME NEW m \in ShootSpaces, NEW n \in ShootSpaces,
                    NEW i \in Ids, NEW j \in Ids,
                    SecretName(SvmName(i), m.rest) = SecretName(SvmName(j), n.rest)
             PROVE  m = n
  BY DEF SecretNamesDiffer
<1>1. m.rest \in Seq(Characters) /\ n.rest \in Seq(Characters)
  BY Parts DEF Text
<1>2. /\ SvmName(i) \in Seq(Characters)
      /\ \A k \in 1..Len(SvmName(i)) : SvmName(i)[k] # Hyphen
      /\ SvmName(j) \in Seq(Characters)
      /\ \A k \in 1..Len(SvmName(j)) : SvmName(j)[k] # Hyphen
  <2>1. i \in Text /\ j \in Text
    BY NamesAssumption DEF Ids
  <2> QED BY <2>1, SvmNameWithoutHyphens DEF Text
<1>3. SvmName(i) \o Behind(m.rest) = SvmName(j) \o Behind(n.rest)
  <2>1. SecretName(SvmName(i), m.rest) = SvmName(i) \o Behind(m.rest)
    BY <1>1, <1>2, SecretParts
  <2>2. SecretName(SvmName(j), n.rest) = SvmName(j) \o Behind(n.rest)
    BY <1>1, <1>2, SecretParts
  <2> QED BY <2>1, <2>2
<1>4. Behind(m.rest) = Behind(n.rest)
  <2>1. /\ Behind(m.rest) \in Seq(Characters) /\ Behind(m.rest) # <<>>
        /\ Behind(m.rest)[1] = Hyphen
        /\ Behind(n.rest) \in Seq(Characters) /\ Behind(n.rest) # <<>>
        /\ Behind(n.rest)[1] = Hyphen
    BY <1>1, SecretParts, EndsOfNames
  <2> QED BY <1>2, <1>3, <2>1, FirstHyphen
<1>5. ASSUME NEW r \in Seq(Characters), NEW q \in Seq(Characters), Behind(r) = Behind(q)
      PROVE  r = q
  <2> DEFINE one == r \o Ending
             other == q \o Ending
  <2>1. one \in Seq(Characters) /\ other \in Seq(Characters)
    BY EndsOfNames, ConcatProperties
  <2>2. LeadIn \o one = LeadIn \o other
    BY <1>5, Zenon DEF Behind
  <2> HIDE DEF one, other
  <2>3. one = other
    <3>1. LeadIn \in Seq(Characters)
      BY EndsOfNames
    <3> QED BY <2>1, <2>2, <3>1, CancelBefore
  <2>4. r \o Ending = q \o Ending
    BY <2>3 DEF one, other
  <2> QED BY <2>4, EndsOfNames, CancelBehind
<1>6. m.rest = n.rest
  BY <1>1, <1>4, <1>5
<1> QED BY <1>6, SameRest

\* In every state, each shoot of a seed has a secret of its own.
THEOREM SecretsAreApartAlways == Spec => []SecretsAreApart
<1>1. SecretsAreApart
  BY SecretsDiffer DEF SecretsAreApart
<1> QED BY <1>1, PTL

=============================================================================
