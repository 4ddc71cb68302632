---------------------------- MODULE IntakeProofs ----------------------------
(***************************************************************************)
(* Proofs about Intake, for every choice of labels, names, archives and    *)
(* styles: the detection, the extraction of an archive and the injection   *)
(* of markup each keep an invariant of their own, and the steps of one     *)
(* leave the state of the other two alone.  What a recursive function of   *)
(* the model computes is shown by exhibiting a function with the same      *)
(* equations, and that there is no second one by a least counterexample.   *)
(***************************************************************************)
EXTENDS Intake, FiniteSetTheorems, SequenceTheorems, WellFoundedInduction, NaturalsInduction, TLAPS

-----------------------------------------------------------------------------
(* The detection.                                                          *)

\* What the corrections have established when detect() reaches each of them:
\* the label is still Magika's own while it is one that only the extension can
\* refine, the sniff is not undone once it has been made, and the first bytes
\* have had their say when the decision is taken.
LabelInv ==
    /\ det = "idle" => raw = Silent
    /\ det \in {"office", "odf", "mht", "structure", "bytes", "decide"} =>
            (label \in Generic \cup {"unknown"} => raw = label)
    /\ det \in {"structure", "bytes", "decide"} =>
            (file.head = "mime" => label = "mht")
    /\ det = "decide" =>
            (file.head = "{\\rt" => label \in Supported)

DetInv == LabelInv /\ PackagesPassTheGate /\ ContentOverName

LEMMA DetInitInv == DetInit => DetInv
BY DEF DetInit, DetInv, LabelInv, PackagesPassTheGate, ContentOverName

\* The steps before the decision accept nothing.
LEMMA CorrectionsKeep ==
    ASSUME DetInv,
           \/ Identify \/ \E o \in Opinions : CorrectOffice(o)
           \/ CorrectOdf \/ SniffMht
           \/ \E found \in BOOLEAN : CheckStructure(found)
           \/ CheckBytes
    PROVE  DetInv'
<1> USE DEF DetInv, PackagesPassTheGate, ContentOverName
<1>0. det' \in {"office", "odf", "mht", "structure", "bytes", "decide"}
  BY DEF Identify, CorrectOffice, CorrectOdf, SniffMht, CheckStructure, CheckBytes, DetGoto
<1>1. CASE Identify
  BY <1>1 DEF Identify, LabelInv
<1>2. ASSUME NEW o \in Opinions, CorrectOffice(o) PROVE LabelInv'
  BY <1>2, OpinionAssumption
     DEF CorrectOffice, DetGoto, LabelInv, DirectoryLabel, OfficeLabels, OoxmlLabels, OleLabels, Generic
<1>3. CASE CorrectOdf
  BY <1>3 DEF CorrectOdf, DetGoto, LabelInv, OdfMimetypeLabel, Generic
<1>4. CASE SniffMht
  BY <1>4 DEF SniffMht, DetGoto, LabelInv, Generic
<1>5. ASSUME NEW found \in BOOLEAN, CheckStructure(found) PROVE LabelInv'
  BY <1>5 DEF CheckStructure, DetGoto, LabelInv
<1>6. CASE CheckBytes
  BY <1>6 DEF CheckBytes, DetGoto, LabelInv, Generic, Supported, OfficeLabels
<1> QED
  BY <1>0, <1>1, <1>2, <1>3, <1>4, <1>5, <1>6

LEMMA DecisionKeeps ==
    ASSUME DetInv, DecideSupported \/ DecideGeneric \/ DecideUnknown \/ DecideOther
    PROVE  DetInv'
<1>0. det = "decide" /\ det' \in {"accepted", "rejected"} /\ UNCHANGED <<file, raw, label>>
  BY DEF DecideSupported, DecideGeneric, DecideUnknown, DecideOther, Accept, Reject, DetGoto
<1>1. LabelInv'
  BY <1>0 DEF LabelInv
<1>2. /\ file.head = "mime" => label = "mht"
      /\ file.head = "{\\rt" => label \in Supported
      /\ label \in Generic \cup {"unknown"} => raw = label
  BY <1>0 DEF DetInv, LabelInv
<1>3. CASE DecideSupported
  <2>1. label \in Supported
    BY <1>3 DEF DecideSupported
  <2>2. CASE PassesGate
    <3>1. /\ det' = "accepted" /\ verdict'.label = Canonical(label)
          /\ verdict'.source = "magika"
      BY <1>3, <2>2 DEF DecideSupported, Accept, DetGoto
    <3>2. Canonical(label) \in OoxmlLabels => label \in OoxmlLabels
      BY DEF Canonical, OoxmlLabels
    <3>3. PackagesPassTheGate'
      BY <1>0, <2>2, <3>1, <3>2 DEF PackagesPassTheGate, PassesGate, IsZip, LooksLikeOoxml
    <3>4. ContentOverName'
      BY <1>0, <1>2, <3>1 DEF ContentOverName, Canonical
    <3> QED
      BY <1>1, <3>3, <3>4 DEF DetInv
  <2>3. CASE ~PassesGate
    <3>1. det' = "rejected" /\ label \in OoxmlLabels
      BY <1>3, <2>3 DEF DecideSupported, Reject, DetGoto, PassesGate
    <3> QED
      BY <1>0, <1>1, <1>2, <3>1 DEF DetInv, PackagesPassTheGate, ContentOverName, OoxmlLabels
  <2> QED
    BY <2>2, <2>3
<1>4. CASE DecideGeneric
  <2>1. label \in Generic /\ label \notin Supported /\ file.head \notin {"mime", "{\\rt"}
    BY <1>2, <1>4 DEF DecideGeneric, Generic, Supported, OfficeLabels, OoxmlLabels, OleLabels, OdfLabels
  <2>2. CASE Allowed(file.ext) /\ GenericIsSound
    <3>1. /\ det' = "accepted" /\ verdict'.source = "extension"
          /\ verdict'.warnings = {"generic"}
      BY <1>4, <2>2 DEF DecideGeneric, Accept, DetGoto
    <3>2. label # "xml" => LooksLikeOoxml
      BY <2>1, <2>2 DEF Generic, GenericIsSound
    <3>3. PackagesPassTheGate'
      BY <1>0, <3>2 DEF PackagesPassTheGate, LooksLikeOoxml
    <3>4. ContentOverName'
      BY <1>0, <1>2, <2>1, <3>1 DEF ContentOverName
    <3> QED
      BY <1>1, <3>3, <3>4 DEF DetInv
  <2>3. CASE ~(Allowed(file.ext) /\ GenericIsSound)
    <3>1. det' = "rejected"
      BY <1>4, <2>3 DEF DecideGeneric, Reject, DetGoto
    <3> QED
      BY <1>0, <1>1, <2>1, <3>1 DEF DetInv, PackagesPassTheGate, ContentOverName
  <2> QED
    BY <2>2, <2>3
<1>5. CASE DecideUnknown
  <2>1. label = "unknown" /\ file.head \notin {"mime", "{\\rt"}
    BY <1>2, <1>5 DEF DecideUnknown, Supported, OfficeLabels, OoxmlLabels, OleLabels, OdfLabels
  <2>2. CASE Allowed(file.ext) /\ (CanonicalOf(file.ext) \in OoxmlLabels /\ IsZip => LooksLikeOoxml)
    <3>1. /\ det' = "accepted" /\ verdict'.source = "extension"
          /\ verdict'.label = CanonicalOf(file.ext) /\ verdict'.warnings = {"unrecognized"}
      BY <1>5, <2>2 DEF DecideUnknown, Accept, DetGoto
    <3>3. PackagesPassTheGate'
      BY <1>0, <2>2, <3>1 DEF PackagesPassTheGate, LooksLikeOoxml, IsZip
    <3>4. ContentOverName'
      BY <1>0, <1>2, <2>1, <3>1 DEF ContentOverName
    <3> QED
      BY <1>1, <3>3, <3>4 DEF DetInv
  <2>3. CASE ~(Allowed(file.ext) /\ (CanonicalOf(file.ext) \in OoxmlLabels /\ IsZip => LooksLikeOoxml))
    <3>1. det' = "rejected"
      BY <1>5, <2>3 DEF DecideUnknown, Reject, DetGoto
    <3> QED
      BY <1>0, <1>1, <2>1, <3>1 DEF DetInv, PackagesPassTheGate, ContentOverName
  <2> QED
    BY <2>2, <2>3
<1>6. CASE DecideOther
  <2>1. file.head # "mime"
    BY <1>2, <1>6 DEF DecideOther, Supported
  <2>2. CASE file.textMime
    <3>1. verdict'.source = "magika" /\ verdict'.label = "txt"
      BY <1>6, <2>2 DEF DecideOther, Accept
    <3> QED
      BY <1>0, <1>1, <2>1, <3>1 DEF DetInv, PackagesPassTheGate, ContentOverName, OoxmlLabels
  <2>3. CASE ~file.textMime
    <3>1. det' = "rejected"
      BY <1>6, <2>3 DEF DecideOther, Reject, DetGoto
    <3> QED
      BY <1>0, <1>1, <2>1, <3>1 DEF DetInv, PackagesPassTheGate, ContentOverName
  <2> QED
    BY <2>2, <2>3
<1> QED
  BY <1>3, <1>4, <1>5, <1>6

LEMMA DetInductive == DetInv /\ [Next]_vars => DetInv'
<1> SUFFICES ASSUME DetInv, [Next]_vars PROVE DetInv'
  OBVIOUS
<1>1. CASE TooLarge
  BY <1>1 DEF TooLarge, DetGoto, DetInv, LabelInv, PackagesPassTheGate, ContentOverName
<1>2. CASE Detect /\ ~TooLarge
  BY <1>2, CorrectionsKeep, DecisionKeeps DEF Detect, DetNext
<1>3. CASE Unpack
  BY <1>3 DEF Unpack, ForgetDetection, DetInv, LabelInv, PackagesPassTheGate, ContentOverName
<1>4. CASE UNCHANGED detVars
  BY <1>4 DEF detVars, DetInv, LabelInv, PackagesPassTheGate, ContentOverName, IsZip, LooksLikeOoxml
<1> QED
  BY <1>1, <1>2, <1>3, <1>4 DEF Next, Extract, Boost, Inject, Write, vars

\* Through four corrections and three ways to accept, a zip that ends as docx,
\* xlsx or pptx has passed the structural gate, unless Magika called it xml.
THEOREM GateHolds == Spec => []PackagesPassTheGate
<1>1. Init => DetInv
  BY DetInitInv DEF Init
<1>2. DetInv /\ [Next]_vars => DetInv'
  BY DetInductive
<1>3. DetInv => PackagesPassTheGate
  BY DEF DetInv
<1> QED
  BY <1>1, <1>2, <1>3, PTL DEF Spec

\* A web archive is taken for one whatever it is called, and the extension
\* decides only where the content says nothing.
THEOREM ContentWins == Spec => []ContentOverName
<1>1. Init => DetInv
  BY DetInitInv DEF Init
<1>2. DetInv /\ [Next]_vars => DetInv'
  BY DetInductive
<1>3. DetInv => ContentOverName
  BY DEF DetInv
<1> QED
  BY <1>1, <1>2, <1>3, PTL DEF Spec

-----------------------------------------------------------------------------
(* Numbers.                                                                *)

\* A set of natural numbers has a least element, and holds all of them if it
\* holds 0 and the successor of each of its members.
LEMMA LeastOf ==
    ASSUME NEW T \in SUBSET Nat, T # {}
    PROVE  \E m \in T : \A k \in T : m <= k
<1> DEFINE Less == OpToRel(<, Nat)
<1>1. IsWellFoundedOn(Less, Nat)
  BY NatLessThanWellFounded
<1>2. \A i, j \in Nat : i < j => <<i, j>> \in Less
  BY DEF OpToRel
<1> HIDE DEF Less
<1>3. PICK m \in T : \A k \in T : ~(<<k, m>> \in Less)
  BY <1>1, WFMin
<1>4. ASSUME NEW k \in T PROVE m <= k
  <2>1. m \in Nat /\ k \in Nat /\ ~(k < m)
    BY <1>2, <1>3
  <2> QED
    BY <2>1
<1> QED
  BY <1>4

LEMMA SetInduction ==
    ASSUME NEW G, 0 \in G, \A n \in Nat : n \in G => n + 1 \in G
    PROVE  \A n \in Nat : n \in G
<1> DEFINE T == Nat \ G
<1>1. SUFFICES ASSUME T # {} PROVE FALSE
  OBVIOUS
<1>2. PICK m \in T : \A k \in T : m <= k
  <2>1. T \in SUBSET Nat
    OBVIOUS
  <2> HIDE DEF T
  <2> QED
    BY <1>1, <2>1, LeastOf
<1>3. m \in Nat /\ m # 0 /\ m - 1 \in Nat /\ m - 1 \notin T
  BY <1>2
<1>4. (m - 1) + 1 \in G
  BY <1>3
<1> QED
  BY <1>3, <1>4

-----------------------------------------------------------------------------
(* The bytes of the parts.                                                 *)

Stored == [part : Part, name : Seq(Tokens)]

\* The function that Total is the last value of.
Sums(stored, sum) ==
    sum = [i \in 0..Len(stored) |->
             IF i = 0 THEN 0 ELSE sum[i - 1] + Size[stored[i].part.payload]]

LEMMA SeqOfFcn ==
    ASSUME NEW T, NEW n \in Nat, NEW f \in [1..n -> T]
    PROVE  f \in Seq(T) /\ Len(f) = n
OBVIOUS

LEMMA PairSeq ==
    ASSUME NEW T, NEW a \in T, NEW b \in T
    PROVE  <<a, b>> \in Seq(T)
OBVIOUS

LEMMA ConcatOfTwo ==
    ASSUME NEW T, NEW a \in T, NEW b \in T
    PROVE  <<a>> \o <<b>> = <<a, b>>
<1>1. /\ <<a>> \in Seq(T) /\ Len(<<a>>) = 1 /\ <<a>>[1] = a
      /\ <<b>> \in Seq(T) /\ Len(<<b>>) = 1 /\ <<b>>[1] = b
      /\ <<a, b>> \in Seq(T) /\ Len(<<a, b>>) = 2 /\ <<a, b>>[1] = a /\ <<a, b>>[2] = b
  OBVIOUS
<1>2. /\ <<a>> \o <<b>> \in Seq(T) /\ Len(<<a>> \o <<b>>) = 1 + 1
      /\ \A i \in 1..(1 + 1) : (<<a>> \o <<b>>)[i] = IF i <= 1 THEN <<a>>[i] ELSE <<b>>[i - 1]
  BY <1>1, ConcatProperties
<1>3. \A i \in 1..2 : (<<a>> \o <<b>>)[i] = <<a, b>>[i]
  <2>1. (<<a>> \o <<b>>)[1] = <<a>>[1] /\ (<<a>> \o <<b>>)[2] = <<b>>[1]
    BY <1>2
  <2>2. \A i \in 1..2 : i = 1 \/ i = 2
    OBVIOUS
  <2> QED
    BY <1>1, <2>1, <2>2
<1> DEFINE x == <<a>> \o <<b>>
           y == <<a, b>>
<1>4. x \in Seq(T) /\ y \in Seq(T) /\ Len(x) = 2 /\ Len(y) = 2 /\ \A i \in 1..2 : x[i] = y[i]
  BY <1>1, <1>2, <1>3
<1> HIDE DEF x, y
<1>5. x = y
  <2>1. Len(x) = Len(y) /\ \A i \in 1..Len(x) : x[i] = y[i]
    BY <1>4
  <2> QED
    BY <1>4, <2>1, SeqEqual
<1> QED
  BY <1>5 DEF x, y

LEMMA StoredFacts ==
    ASSUME NEW stored \in Seq(Stored), NEW i \in 1..Len(stored)
    PROVE  stored[i] \in Stored /\ Size[stored[i].part.payload] \in Nat \ {0}
<1>1. stored[i] \in Stored
  BY ElementOfSeq
<1>2. \A x \in Stored : x.part.payload \in Payloads
  BY DEF Stored, Part
<1> QED
  BY <1>1, <1>2, MhtAssumption

LEMMA SumsExist ==
    ASSUME NEW stored \in Seq(Stored)
    PROVE  \E sum \in [0..Len(stored) -> Nat] : Sums(stored, sum)
<1> DEFINE W(i) == Size[stored[i].part.payload]
           Upto(f, n) == /\ f \in [0..n -> Nat]
                         /\ \A i \in 0..n : f[i] = IF i = 0 THEN 0 ELSE f[i - 1] + W(i)
           G == {n \in Nat : n <= Len(stored) => \E f : Upto(f, n)}
<1>0. Len(stored) \in Nat /\ \A i \in 1..Len(stored) : W(i) \in Nat
  BY StoredFacts
<1> HIDE DEF W
<1>1. 0 \in G
  <2>1. Upto([i \in 0..0 |-> 0], 0)
    OBVIOUS
  <2> HIDE DEF Upto
  <2> QED
    BY <2>1
<1>2. ASSUME NEW n \in Nat, n \in G PROVE n + 1 \in G
  <2>1. SUFFICES ASSUME n + 1 <= Len(stored) PROVE \E f : Upto(f, n + 1)
    <3>1. n + 1 \in Nat
      OBVIOUS
    <3> HIDE DEF Upto
    <3> QED
      BY <3>1
  <2>2. n <= Len(stored)
    BY <1>0, <2>1
  <2>3. PICK f : Upto(f, n)
    BY <1>2, <2>2
  <2> DEFINE g == [i \in 0..(n + 1) |-> IF i = n + 1 THEN f[n] + W(n + 1) ELSE f[i]]
  <2>4. W(n + 1) \in Nat
    BY <1>0, <2>1
  <2>5. g \in [0..(n + 1) -> Nat]
    BY <2>3, <2>4
  <2>6. \A i \in 0..(n + 1) : g[i] = IF i = 0 THEN 0 ELSE g[i - 1] + W(i)
    <3> SUFFICES ASSUME NEW i \in 0..(n + 1)
                 PROVE  g[i] = IF i = 0 THEN 0 ELSE g[i - 1] + W(i)
      OBVIOUS
    <3>1. CASE i = n + 1
      <4>1. i - 1 = n /\ i - 1 \in 0..(n + 1) /\ i - 1 # n + 1 /\ i # 0
        BY <3>1
      <4>2. g[i - 1] = f[n] /\ g[i] = f[n] + W(n + 1)
        BY <3>1, <4>1
      <4> QED
        BY <3>1, <4>1, <4>2
    <3>2. CASE i # n + 1
      <4>1. i \in 0..n
        BY <3>2
      <4>2. g[i] = f[i]
        BY <3>2
      <4>3. i # 0 => i - 1 \in 0..(n + 1) /\ i - 1 # n + 1
        BY <4>1
      <4>4. i # 0 => g[i - 1] = f[i - 1]
        BY <4>3
      <4>5. f[i] = IF i = 0 THEN 0 ELSE f[i - 1] + W(i)
        BY <2>3, <4>1
      <4> HIDE DEF g
      <4> QED
        BY <4>2, <4>4, <4>5
    <3> QED
      BY <3>1, <3>2
  <2> QED
    BY <2>5, <2>6
<1>3. \A n \in Nat : n \in G
  <2> HIDE DEF G
  <2> QED
    BY <1>1, <1>2, SetInduction
<1>4. PICK f : Upto(f, Len(stored))
  <2>1. Len(stored) \in G /\ Len(stored) <= Len(stored)
    <3> HIDE DEF G
    <3> QED
      BY <1>0, <1>3
  <2> HIDE DEF Upto
  <2> QED
    BY <2>1
<1>5. Sums(stored, f)
  BY <1>4 DEF Sums, W
<1> QED
  BY <1>4, <1>5

\* What Total adds up, and that it grows by what is appended.
LEMMA TotalIs ==
    ASSUME NEW stored \in Seq(Stored)
    PROVE  \E sum \in [0..Len(stored) -> Nat] :
              Sums(stored, sum) /\ Total(stored) = sum[Len(stored)]
<1> DEFINE sum == CHOOSE f : Sums(stored, f)
<1>1. Sums(stored, sum)
  BY SumsExist
<1>2. Total(stored) = sum[Len(stored)]
  BY DEF Total, Sums
<1> HIDE DEF sum
<1>3. PICK f \in [0..Len(stored) -> Nat] : Sums(stored, f)
  BY SumsExist
<1> DEFINE G == {n \in Nat : n <= Len(stored) => sum[n] = f[n]}
<1>4. Len(stored) \in Nat
  OBVIOUS
<1>5. 0 \in G
  BY <1>1, <1>3, <1>4 DEF Sums
<1>6. ASSUME NEW n \in Nat, n \in G PROVE n + 1 \in G
  <2> SUFFICES ASSUME n + 1 <= Len(stored) PROVE sum[n + 1] = f[n + 1]
    OBVIOUS
  <2>1. n + 1 \in 0..Len(stored) /\ (n + 1) - 1 = n /\ n + 1 # 0 /\ sum[n] = f[n]
    BY <1>4, <1>6
  <2>2. sum[n + 1] = sum[n] + Size[stored[n + 1].part.payload]
    BY <1>1, <2>1 DEF Sums
  <2>3. f[n + 1] = f[n] + Size[stored[n + 1].part.payload]
    BY <1>3, <2>1 DEF Sums
  <2> QED
    BY <2>1, <2>2, <2>3
<1>7. \A n \in Nat : n \in G
  <2> HIDE DEF G
  <2> QED
    BY <1>5, <1>6, SetInduction
<1>8. sum[Len(stored)] = f[Len(stored)]
  BY <1>4, <1>7
<1> QED
  BY <1>2, <1>3, <1>8

LEMMA TotalOfNone == Total(<<>>) = 0
<1>1. <<>> \in Seq(Stored) /\ Len(<<>>) = 0
  OBVIOUS
<1>2. PICK sum \in [0..0 -> Nat] : Sums(<<>>, sum) /\ Total(<<>>) = sum[0]
  BY <1>1, TotalIs
<1> QED
  BY <1>1, <1>2 DEF Sums

LEMMA TotalGrows ==
    ASSUME NEW stored \in Seq(Stored), NEW x \in Stored
    PROVE  /\ Total(stored) \in Nat
           /\ Total(Append(stored, x)) = Total(stored) + Size[x.part.payload]
<1> DEFINE more == Append(stored, x)
<1>0. /\ more \in Seq(Stored) /\ Len(more) = Len(stored) + 1 /\ Len(stored) \in Nat
      /\ \A i \in 1..Len(stored) : more[i] = stored[i]
      /\ more[Len(stored) + 1] = x
  OBVIOUS
<1> HIDE DEF more
<1>1. PICK f \in [0..Len(stored) -> Nat] : Sums(stored, f) /\ Total(stored) = f[Len(stored)]
  BY TotalIs
<1>2. PICK g \in [0..Len(more) -> Nat] : Sums(more, g) /\ Total(more) = g[Len(more)]
  BY <1>0, TotalIs
<1> DEFINE G == {n \in Nat : n <= Len(stored) => f[n] = g[n]}
<1>3. 0 \in G
  BY <1>0, <1>1, <1>2 DEF Sums
<1>4. ASSUME NEW n \in Nat, n \in G PROVE n + 1 \in G
  <2> SUFFICES ASSUME n + 1 <= Len(stored) PROVE f[n + 1] = g[n + 1]
    OBVIOUS
  <2>1. /\ n + 1 \in 0..Len(stored) /\ (n + 1) - 1 = n /\ n + 1 # 0 /\ f[n] = g[n]
        /\ n + 1 \in 0..Len(more) /\ more[n + 1] = stored[n + 1]
    BY <1>0, <1>4
  <2>2. f[n + 1] = f[n] + Size[stored[n + 1].part.payload]
    BY <1>1, <2>1 DEF Sums
  <2>3. g[n + 1] = g[n] + Size[stored[n + 1].part.payload]
    BY <1>2, <2>1 DEF Sums
  <2> QED
    BY <2>1, <2>2, <2>3
<1>5. f[Len(stored)] = g[Len(stored)]
  <2>1. \A n \in Nat : n \in G
    <3> HIDE DEF G
    <3> QED
      BY <1>3, <1>4, SetInduction
  <2> QED
    BY <1>0, <2>1
<1>6. g[Len(more)] = g[Len(stored)] + Size[x.part.payload]
  <2>1. Len(more) \in 0..Len(more) /\ Len(more) - 1 = Len(stored) /\ Len(more) # 0
    BY <1>0
  <2> QED
    BY <1>0, <1>2, <2>1 DEF Sums
<1>7. f[Len(stored)] \in Nat
  BY <1>0, <1>1
<1> QED
  BY <1>1, <1>2, <1>5, <1>6, <1>7 DEF more

-----------------------------------------------------------------------------
(* The names of the parts.                                                 *)

\* A number is left for one more name, for no more names are taken than parts
\* have been walked past.
LEMMA FreeNameIsFree ==
    ASSUME NEW base \in Seq(Tokens), IsFiniteSet(usedNames),
           Cardinality(usedNames) < MaxWalk
    PROVE  /\ FreeName(base) \notin usedNames
           /\ \/ FreeName(base) = base
              \/ \E n \in DOMAIN Numbers : FreeName(base) = Append(base, Numbers[n])
<1> DEFINE Numbered(n) == Append(base, Numbers[n])
           Free == {n \in DOMAIN Numbers : Numbered(n) \notin usedNames}
<1>0. /\ Len(Numbers) \in Nat /\ DOMAIN Numbers = 1..Len(Numbers)
      /\ MaxWalk \in Nat /\ MaxWalk <= Len(Numbers)
      /\ \A n \in DOMAIN Numbers : Numbers[n] \in Tokens
      /\ \A i, k \in DOMAIN Numbers : Numbers[i] = Numbers[k] => i = k
  <2>1. Numbers \in Seq(Tokens)
    BY TokenAssumption
  <2> QED
    <3>1. /\ Len(Numbers) \in Nat /\ DOMAIN Numbers = 1..Len(Numbers)
          /\ \A n \in 1..Len(Numbers) : Numbers[n] \in Tokens
      BY <2>1, LenProperties, ElementOfSeq
    <3>2. /\ MaxWalk \in Nat /\ MaxWalk <= Len(Numbers)
          /\ \A i, k \in DOMAIN Numbers : Numbers[i] = Numbers[k] => i = k
      BY MhtAssumption, TokenAssumption
    <3> QED
      BY <3>1, <3>2
<1>1. \A i, k \in DOMAIN Numbers : Numbered(i) = Numbered(k) => i = k
  <2> SUFFICES ASSUME NEW i \in DOMAIN Numbers, NEW k \in DOMAIN Numbers, Numbered(i) = Numbered(k)
               PROVE  i = k
    OBVIOUS
  <2>1. Numbered(i)[Len(base) + 1] = Numbers[i] /\ Numbered(k)[Len(base) + 1] = Numbers[k]
    BY <1>0
  <2> QED
    BY <1>0, <2>1
<1> HIDE DEF Numbered
<1>2. Free # {}
  <2> SUFFICES ASSUME \A n \in DOMAIN Numbers : Numbered(n) \in usedNames PROVE FALSE
    OBVIOUS
  <2> DEFINE f == [n \in 1..Len(Numbers) |-> Numbered(n)]
  <2>1. f \in Injection(1..Len(Numbers), usedNames)
    BY <1>0, <1>1 DEF Injection, IsInjective
  <2> HIDE DEF f
  <2>2. Cardinality(1..Len(Numbers)) <= Cardinality(usedNames)
    BY <2>1, FS_Injection
  <2>3. Cardinality(1..Len(Numbers)) = Len(Numbers)
    <3>1. Cardinality(1..Len(Numbers)) = IF 1 > Len(Numbers) THEN 0 ELSE Len(Numbers) - 1 + 1
      <4>1. 1 \in Int /\ Len(Numbers) \in Int
        BY <1>0
      <4> QED
        BY <4>1, FS_Interval
    <3>2. Len(Numbers) - 1 + 1 = Len(Numbers) /\ (1 > Len(Numbers) => Len(Numbers) = 0)
      BY <1>0
    <3> QED
      BY <3>1, <3>2
  <2>4. Cardinality(usedNames) \in Nat
    BY FS_CardinalityType
  <2> QED
    BY <1>0, <2>2, <2>3, <2>4
<1>3. PICK n \in Free : \A k \in Free : n <= k
  <2>1. Free \in SUBSET Nat
    BY <1>0
  <2> HIDE DEF Free
  <2> QED
    BY <1>2, <2>1, LeastOf
<1>4. /\ n \in DOMAIN Numbers /\ Numbered(n) \notin usedNames
      /\ \A i \in 1..(n - 1) : Numbered(i) \in usedNames
  <2>1. n \in DOMAIN Numbers /\ n \in Nat /\ Numbered(n) \notin usedNames
    BY <1>0
  <2>2. ASSUME NEW i \in 1..(n - 1) PROVE Numbered(i) \in usedNames
    <3>1. i \in DOMAIN Numbers /\ ~(n <= i)
      BY <1>0, <2>1
    <3> QED
      BY <1>3, <3>1
  <2> QED
    BY <2>1, <2>2
<1>5. CASE base \notin usedNames
  BY <1>5 DEF FreeName
<1>6. CASE base \in usedNames
  <2> DEFINE P(k) == /\ Append(base, Numbers[k]) \notin usedNames
                     /\ \A i \in 1..(k - 1) : Append(base, Numbers[i]) \in usedNames
             c == CHOOSE k \in DOMAIN Numbers : P(k)
  <2>1. P(n)
    BY <1>4 DEF Numbered
  <2> HIDE DEF P
  <2>2. c \in DOMAIN Numbers /\ P(c)
    BY <1>4, <2>1
  <2>3. FreeName(base) = Append(base, Numbers[c])
    BY <1>6 DEF FreeName, P
  <2> HIDE DEF c
  <2> QED
    BY <2>2, <2>3 DEF P
<1> QED
  BY <1>5, <1>6

LEMMA TokenFacts == "_" \in Tokens /\ "part" \in Tokens /\ \A p \in Payloads : p \in Tokens
BY TokenAssumption

LEMMA LocationFacts ==
    ASSUME NEW loc \in Locations
    PROVE  /\ loc \in Seq(Tokens) /\ LastSegment(loc) \in Seq(Tokens)
           /\ \A i \in DOMAIN loc : loc[i] \in Directories => i = 1
           /\ \A i \in DOMAIN LastSegment(loc) : LastSegment(loc)[i] \notin Directories
<1>1. loc \in Seq(Tokens) /\ \A i \in DOMAIN loc : loc[i] \in Directories => i = 1
  BY TokenAssumption
<1>2. CASE loc # NoName /\ Head(loc) \in Directories
  <2>1. /\ LastSegment(loc) = Tail(loc) /\ Len(loc) \in Nat \ {0}
        /\ Tail(loc) \in Seq(Tokens) /\ Len(Tail(loc)) = Len(loc) - 1
        /\ \A i \in 1..(Len(loc) - 1) : Tail(loc)[i] = loc[i + 1]
    BY <1>1, <1>2 DEF LastSegment, NoName
  <2>2. \A i \in DOMAIN Tail(loc) : i + 1 \in DOMAIN loc /\ i + 1 # 1 /\ Tail(loc)[i] = loc[i + 1]
    BY <1>1, <2>1
  <2> QED
    BY <1>1, <2>1, <2>2
<1>3. CASE ~(loc # NoName /\ Head(loc) \in Directories)
  <2>1. LastSegment(loc) = loc
    BY <1>3 DEF LastSegment
  <2>2. \A i \in DOMAIN loc : loc[i] \notin Directories
    BY <1>1, <1>3 DEF NoName
  <2> QED
    BY <1>1, <2>1, <2>2
<1> QED
  BY <1>2, <1>3

\* The tokens that are kept run from the first to the last that is not "_".
LEMMA Extremes ==
    ASSUME NEW n \in Nat, NEW kept \in SUBSET (1..n), kept # {}
    PROVE  /\ \E i \in kept : \A k \in kept : i <= k
           /\ \E i \in kept : \A k \in kept : i >= k
<1>1. \E i \in kept : \A k \in kept : i <= k
  <2>1. kept \in SUBSET Nat
    OBVIOUS
  <2> QED
    BY <2>1, LeastOf
<1>2. \E i \in kept : \A k \in kept : i >= k
  <2> DEFINE T == {n - i : i \in kept}
  <2>1. T \in SUBSET Nat /\ T # {}
    <3>1. \A i \in kept : n - i \in Nat
      OBVIOUS
    <3> QED
      BY <3>1
  <2>2. PICK m \in T : \A k \in T : m <= k
    <3> HIDE DEF T
    <3> QED
      BY <2>1, LeastOf
  <2>3. PICK i \in kept : m = n - i
    BY <2>2
  <2>4. \A k \in kept : n - i <= n - k
    BY <2>2, <2>3
  <2>5. ASSUME NEW k \in kept PROVE i >= k
    <3>1. n - i <= n - k /\ i \in Nat /\ k \in Nat
      BY <2>4
    <3> QED
      BY <3>1
  <2> QED
    BY <2>5
<1> QED
  BY <1>1, <1>2

LEMMA StrippedFacts ==
    ASSUME NEW name \in Seq(Tokens), Stripped(name) # NoName
    PROVE  \E lo, hi \in 1..Len(name) :
              /\ name[lo] # "_" /\ name[hi] # "_"
              /\ \A i \in 1..Len(name) : name[i] # "_" => lo <= i /\ i <= hi
              /\ Stripped(name) = SubSeq(name, lo, hi)
<1> DEFINE kept == {i \in DOMAIN name : name[i] # "_"}
           lo == CHOOSE i \in kept : \A k \in kept : i <= k
           hi == CHOOSE i \in kept : \A k \in kept : i >= k
<1>1. DOMAIN name = 1..Len(name) /\ Len(name) \in Nat
  BY LenProperties
<1>2. kept # {} /\ Stripped(name) = SubSeq(name, lo, hi)
  BY Zenon DEF Stripped
<1>3. /\ kept \in SUBSET (1..Len(name))
      /\ \A i \in kept : name[i] # "_"
      /\ \A i \in 1..Len(name) : name[i] # "_" => i \in kept
  BY <1>1
<1> HIDE DEF kept
<1>4. /\ lo \in kept /\ \A k \in kept : lo <= k
      /\ hi \in kept /\ \A k \in kept : hi >= k
  BY <1>1, <1>2, <1>3, Extremes
<1> HIDE DEF lo, hi
<1>5. lo \in 1..Len(name) /\ hi \in 1..Len(name) /\ name[lo] # "_" /\ name[hi] # "_"
  BY <1>3, <1>4
<1>6. \A i \in 1..Len(name) : name[i] # "_" => lo <= i /\ i <= hi
  <2> SUFFICES ASSUME NEW i \in 1..Len(name), name[i] # "_" PROVE lo <= i /\ i <= hi
    OBVIOUS
  <2>1. lo <= i /\ hi >= i
    BY <1>3, <1>4
  <2> QED
    BY <1>1, <1>5, <2>1
<1> QED
  BY <1>2, <1>5, <1>6

LEMMA UnderscoredType ==
    ASSUME NEW name \in Seq(Tokens)
    PROVE  /\ Underscored(name) \in Seq(Tokens) /\ Len(Underscored(name)) = Len(name)
           /\ \A i \in 1..Len(name) :
                Underscored(name)[i] = IF name[i] \in Unsafe THEN "_" ELSE name[i]
<1>1. DOMAIN name = 1..Len(name) /\ Len(name) \in Nat /\ \A i \in 1..Len(name) : name[i] \in Tokens
  BY LenProperties, ElementOfSeq
<1>2. Underscored(name) = [i \in 1..Len(name) |-> IF name[i] \in Unsafe THEN "_" ELSE name[i]]
  BY <1>1 DEF Underscored
<1>3. Underscored(name) \in [1..Len(name) -> Tokens]
  BY <1>1, <1>2, TokenFacts
<1> QED
  BY <1>1, <1>2, <1>3, SeqOfFcn

LEMMA StrippedType ==
    ASSUME NEW name \in Seq(Tokens)
    PROVE  Stripped(name) \in Seq(Tokens)
<1>1. CASE Stripped(name) = NoName
  BY <1>1, EmptySeq DEF NoName
<1>2. CASE Stripped(name) # NoName
  <2>1. PICK lo, hi \in 1..Len(name) : Stripped(name) = SubSeq(name, lo, hi)
    BY <1>2, StrippedFacts
  <2>2. lo \in Int /\ hi \in Int /\ \A i \in lo..hi : name[i] \in Tokens
    BY LenProperties, ElementOfSeq
  <2> QED
    BY <2>1, <2>2, SubSeqProperties
<1> QED
  BY <1>1, <1>2

LEMMA SafeType ==
    ASSUME NEW part \in Part
    PROVE  SafeFilename(part.loc, Fallback(part)) \in Seq(Tokens)
<1>1. Fallback(part) \in Seq(Tokens)
  <2>1. part.payload \in Tokens
    BY TokenFacts DEF Part
  <2>2. <<"part", part.payload>> \in Seq(Tokens)
    BY <2>1, TokenFacts, PairSeq
  <2> QED
    BY <2>2 DEF Fallback
<1>2. Stripped(Underscored(LastSegment(part.loc))) \in Seq(Tokens)
  BY LocationFacts, UnderscoredType, StrippedType DEF Part
<1> QED
  BY <1>1, <1>2 DEF SafeFilename

-----------------------------------------------------------------------------
(* The extraction.                                                         *)

\* Every stored part has a name of its own among the names that are taken, the
\* directory holds it under that name, and the counter is true.  No more names
\* are taken than parts have been walked past, so that one is always left.
StoreInv ==
    /\ mht \in {"idle", "walking", "walked", "rewritten", "page", "none"}
    /\ parts \in Nat /\ parts <= MaxWalk
    /\ IsFiniteSet(usedNames) /\ Cardinality(usedNames) <= parts
    /\ placed \in Seq(Stored)
    /\ \A i \in 1..Len(placed) : placed[i].name \in usedNames
    /\ \A i, k \in 1..Len(placed) : placed[i].name = placed[k].name => i = k
    /\ bytesWritten = Total(placed)
    /\ Len(placed) <= MaxParts
    /\ placed # <<>> => Total(Front(placed)) < MaxBytes
    /\ \A i \in 1..Len(placed) :
          /\ placed[i].name \in DOMAIN files
          /\ \/ files[placed[i].name] = placed[i].part.payload
             \/ placed[i].name = Document /\ mht = "page"

LEMMA StoreInitInv == MhtInit => StoreInv
<1> SUFFICES ASSUME MhtInit PROVE StoreInv
  OBVIOUS
<1>1. <<>> \in Seq(Stored) /\ Len(<<>>) = 0
  BY EmptySeq
<1>2. IsFiniteSet({}) /\ Cardinality({}) = 0
  BY FS_EmptySet
<1> QED
  BY <1>1, <1>2, TotalOfNone, MhtAssumption DEF MhtInit, StoreInv

\* The steps that neither store a part nor write the page.
LEMMA StoreKept ==
    ASSUME StoreInv, parts' \in Nat, parts' >= parts, parts' <= MaxWalk,
           mht' \in {"walking", "walked", "rewritten", "none"},
           UNCHANGED <<usedNames, placed, bytesWritten, files>>,
           mht # "page"
    PROVE  StoreInv'
<1>1. Cardinality(usedNames) <= parts'
  <2>1. Cardinality(usedNames) \in Nat /\ Cardinality(usedNames) <= parts /\ parts \in Nat
    BY FS_CardinalityType DEF StoreInv
  <2> QED
    BY <2>1
<1> QED
  BY <1>1 DEF StoreInv

\* The name a part is given.
LEMMA NameFacts ==
    ASSUME StoreInv, parts < MaxWalk, NEW part \in Part
    PROVE  LET base == SafeFilename(part.loc, Fallback(part))
               name == FreeName(base)
           IN  /\ base \in Seq(Tokens) /\ name \in Seq(Tokens) /\ name \notin usedNames
               /\ name = base \/ \E n \in DOMAIN Numbers : name = Append(base, Numbers[n])
<1> DEFINE base == SafeFilename(part.loc, Fallback(part))
<1>1. base \in Seq(Tokens)
  BY SafeType
<1>2. IsFiniteSet(usedNames) /\ Cardinality(usedNames) < MaxWalk
  <2>1. /\ IsFiniteSet(usedNames) /\ Cardinality(usedNames) \in Nat /\ MaxWalk \in Nat
        /\ Cardinality(usedNames) <= parts /\ parts \in Nat
    BY FS_CardinalityType, MhtAssumption DEF StoreInv
  <2> QED
    BY <2>1
<1> HIDE DEF base
<1>3. /\ FreeName(base) \notin usedNames
      /\ FreeName(base) = base \/ \E n \in DOMAIN Numbers : FreeName(base) = Append(base, Numbers[n])
  BY <1>1, <1>2, FreeNameIsFree
<1>4. \A n \in DOMAIN Numbers : Append(base, Numbers[n]) \in Seq(Tokens)
  <2>1. \A n \in DOMAIN Numbers : Numbers[n] \in Tokens
    <3>1. Numbers \in Seq(Tokens)
      BY TokenAssumption
    <3> QED
      BY <3>1, LenProperties, ElementOfSeq
  <2> QED
    BY <1>1, <2>1, AppendProperties
<1> QED
  BY <1>1, <1>3, <1>4 DEF base

LEMMA NameTaken ==
    ASSUME StoreInv, NextPart, NEW name,
           usedNames' = usedNames \cup {name}
    PROVE  /\ IsFiniteSet(usedNames') /\ Cardinality(usedNames') <= parts'
           /\ parts' \in Nat /\ parts' <= MaxWalk
<1>1. /\ IsFiniteSet(usedNames) /\ Cardinality(usedNames) \in Nat /\ MaxWalk \in Nat
      /\ Cardinality(usedNames) <= parts /\ parts \in Nat /\ parts < MaxWalk /\ parts' = parts + 1
  BY FS_CardinalityType, MhtAssumption DEF StoreInv, NextPart
<1>2. /\ IsFiniteSet(usedNames')
      /\ Cardinality(usedNames') = Cardinality(usedNames)
            \/ Cardinality(usedNames') = Cardinality(usedNames) + 1
  BY <1>1, FS_AddElement
<1> QED
  BY <1>1, <1>2

LEMMA PartStored ==
    ASSUME StoreInv, NEW part \in Part, StorePart(part)
    PROVE  StoreInv'
<1> DEFINE name == FreeName(SafeFilename(part.loc, Fallback(part)))
           entry == [part |-> part, name |-> name]
<1>1. /\ NextPart /\ ~AtCap /\ mht' = mht
      /\ usedNames' = usedNames \cup {name}
      /\ files' = [n \in DOMAIN files \cup {name} |-> IF n = name THEN part.payload ELSE files[n]]
      /\ placed' = Append(placed, entry)
      /\ bytesWritten' = bytesWritten + Size[part.payload]
  BY DEF StorePart
<1>2. name \in Seq(Tokens) /\ name \notin usedNames
  BY <1>1, NameFacts DEF NextPart
<1>3. entry \in Stored /\ entry.part = part /\ entry.name = name
  BY <1>2 DEF Stored
<1> HIDE DEF name, entry
<1>4. /\ IsFiniteSet(usedNames') /\ Cardinality(usedNames') <= parts'
      /\ parts' \in Nat /\ parts' <= MaxWalk
  BY <1>1, NameTaken
<1>5. /\ placed \in Seq(Stored) /\ Len(placed) \in Nat
      /\ placed' \in Seq(Stored) /\ placed' # <<>> /\ Len(placed') = Len(placed) + 1
      /\ \A i \in 1..Len(placed) : placed'[i] = placed[i]
      /\ placed'[Len(placed) + 1] = entry
  <2>1. placed \in Seq(Stored)
    BY DEF StoreInv
  <2> QED
    BY <1>1, <1>3, <2>1, AppendProperties, LenProperties
<1>6. Front(placed') = placed
  <2>1. /\ 1 \in Int /\ Len(placed') - 1 = Len(placed)
        /\ \A i \in 1..Len(placed) : placed'[i] \in Stored
    BY <1>5, ElementOfSeq
  <2>2. /\ SubSeq(placed', 1, Len(placed)) \in Seq(Stored)
        /\ Len(SubSeq(placed', 1, Len(placed))) = Len(placed)
        /\ \A i \in 1..Len(placed) : SubSeq(placed', 1, Len(placed))[i] = placed'[i]
    BY <1>5, <2>1
  <2>3. SubSeq(placed', 1, Len(placed)) = placed
    BY <1>5, <2>2, SeqEqual
  <2> QED
    BY <2>1, <2>3 DEF Front
<1>7. /\ bytesWritten' = Total(placed')
      /\ Total(Front(placed')) < MaxBytes /\ Len(placed') <= MaxParts
  <2>1. Total(placed') = Total(placed) + Size[part.payload] /\ Total(placed) \in Nat
    BY <1>1, <1>3, <1>5, TotalGrows
  <2>2. bytesWritten = Total(placed)
    BY DEF StoreInv
  <2>3. ~(bytesWritten >= MaxBytes) /\ ~(Len(placed) >= MaxParts)
    BY <1>1 DEF AtCap
  <2>4. MaxBytes \in Nat /\ MaxParts \in Nat
    BY MhtAssumption
  <2> QED
    BY <1>1, <1>5, <1>6, <2>1, <2>2, <2>3, <2>4
<1>8. ASSUME NEW i \in 1..Len(placed')
      PROVE  i \in 1..Len(placed) \/ (i = Len(placed) + 1 /\ placed'[i] = entry)
  BY <1>5
<1>9. \A i \in 1..Len(placed) : placed[i].name \in usedNames /\ placed[i].name # name
  BY <1>2 DEF StoreInv
<1>10. \A i \in 1..Len(placed') : placed'[i].name \in usedNames'
  BY <1>1, <1>3, <1>5, <1>8, <1>9
<1>11. \A i, k \in 1..Len(placed') : placed'[i].name = placed'[k].name => i = k
  <2> SUFFICES ASSUME NEW i \in 1..Len(placed'), NEW k \in 1..Len(placed'),
                      placed'[i].name = placed'[k].name
               PROVE  i = k
    OBVIOUS
  <2>1. CASE i \in 1..Len(placed) /\ k \in 1..Len(placed)
    BY <1>5, <2>1 DEF StoreInv
  <2>2. CASE i \in 1..Len(placed) /\ k \notin 1..Len(placed)
    BY <1>3, <1>5, <1>8, <1>9, <2>2
  <2>3. CASE i \notin 1..Len(placed) /\ k \in 1..Len(placed)
    BY <1>3, <1>5, <1>8, <1>9, <2>3
  <2>4. CASE i \notin 1..Len(placed) /\ k \notin 1..Len(placed)
    BY <1>8, <2>4
  <2> QED
    BY <2>1, <2>2, <2>3, <2>4
<1>12. ASSUME NEW i \in 1..Len(placed')
       PROVE  /\ placed'[i].name \in DOMAIN files'
              /\ files'[placed'[i].name] = placed'[i].part.payload
  <2>1. CASE i \in 1..Len(placed)
    <3>1. /\ placed[i].name \in DOMAIN files
          /\ files[placed[i].name] = placed[i].part.payload
      BY <1>1, <2>1 DEF StoreInv, NextPart
    <3> QED
      BY <1>1, <1>5, <1>9, <2>1, <3>1
  <2>2. CASE i = Len(placed) + 1 /\ placed'[i] = entry
    BY <1>1, <1>3, <2>2
  <2> QED
    BY <1>8, <2>1, <2>2
<1>13. mht' \in {"idle", "walking", "walked", "rewritten", "page", "none"}
  BY <1>1 DEF StoreInv
<1> QED
  BY <1>4, <1>5, <1>7, <1>10, <1>11, <1>12, <1>13 DEF StoreInv

LEMMA NameLost ==
    ASSUME StoreInv, NEW part \in Part, StoreFails(part)
    PROVE  StoreInv'
<1>1. /\ NextPart /\ UNCHANGED <<mht, placed, bytesWritten, files>>
      /\ usedNames' = usedNames \cup {FreeName(SafeFilename(part.loc, Fallback(part)))}
  BY DEF StoreFails
<1>2. /\ IsFiniteSet(usedNames') /\ Cardinality(usedNames') <= parts'
      /\ parts' \in Nat /\ parts' <= MaxWalk
  BY <1>1, NameTaken
<1>3. \A i \in 1..Len(placed) : placed[i].name \in usedNames'
  BY <1>1 DEF StoreInv
<1> QED
  BY <1>1, <1>2, <1>3 DEF StoreInv

LEMMA PageWritten ==
    ASSUME StoreInv, WritePage
    PROVE  StoreInv'
<1>1. /\ mht = "rewritten" /\ UNCHANGED <<parts, usedNames, placed, bytesWritten>>
      /\ \/ /\ mht' = "page"
            /\ files' = [n \in DOMAIN files \cup {Document} |->
                              IF n = Document THEN "page" ELSE files[n]]
         \/ mht' = "none" /\ UNCHANGED files
  BY DEF WritePage
<1>2. ASSUME NEW i \in 1..Len(placed)
      PROVE  /\ placed[i].name \in DOMAIN files'
             /\ \/ files'[placed[i].name] = placed[i].part.payload
                \/ placed[i].name = Document /\ mht' = "page"
  <2>1. /\ placed[i].name \in DOMAIN files
        /\ files[placed[i].name] = placed[i].part.payload
    BY <1>1 DEF StoreInv
  <2> QED
    BY <1>1, <2>1
<1> QED
  BY <1>1, <1>2 DEF StoreInv

LEMMA StoreInductive == StoreInv /\ [Next]_vars => StoreInv'
<1> SUFFICES ASSUME StoreInv, [Next]_vars PROVE StoreInv'
  OBVIOUS
<1>0. parts \in Nat /\ parts <= MaxWalk /\ MaxWalk \in Nat
  BY MhtAssumption DEF StoreInv
<1>1. CASE BeginWalk \/ Unreadable \/ EndWalk \/ NoPage \/ RewriteLinks
  BY <1>0, <1>1, StoreKept DEF BeginWalk, Unreadable, EndWalk, NoPage, RewriteLinks
<1>2. CASE SkipPart \/ TakeRoot \/ CapReached
  <2>1. parts' \in Nat /\ parts' >= parts /\ parts' <= MaxWalk /\ mht = "walking"
    BY <1>0, <1>2 DEF SkipPart, TakeRoot, CapReached, NextPart
  <2>2. /\ mht' \in {"walking", "walked"}
        /\ UNCHANGED <<usedNames, placed, bytesWritten, files>>
    BY <1>2, <2>1 DEF SkipPart, TakeRoot, CapReached
  <2> QED
    BY <2>1, <2>2, StoreKept
<1>3. CASE \E part \in Part : StorePart(part) \/ StoreFails(part)
  BY <1>3, PartStored, NameLost
<1>4. CASE WritePage
  BY <1>4, PageWritten
<1>5. CASE UNCHANGED mhtVars
  BY <1>5 DEF mhtVars, StoreInv
<1> QED
  BY <1>1, <1>2, <1>3, <1>4, <1>5 DEF Next, Detect, Unpack, Extract, Boost, Inject, Write, vars

LEMMA StoreSuffices == StoreInv => ResourcesSurvive
<1> SUFFICES ASSUME StoreInv PROVE ResourcesSurvive
  OBVIOUS
<1>1. DOMAIN placed = 1..Len(placed)
  BY LenProperties DEF StoreInv
<1> QED
  BY <1>1 DEF StoreInv, ResourcesSurvive

\* A resource that was written is still there, whole, under the name it was
\* given, whatever its neighbours are called and whichever writes failed.
THEOREM ResourcesStay == Spec => []ResourcesSurvive
<1>1. Init => StoreInv
  BY StoreInitInv DEF Init
<1>2. StoreInv /\ [Next]_vars => StoreInv'
  BY StoreInductive
<1>3. StoreInv => ResourcesSurvive
  BY StoreSuffices
<1> QED
  BY <1>1, <1>2, <1>3, PTL DEF Spec

-----------------------------------------------------------------------------
(* Replacing a key in a link.                                              *)

\* A subsequence stands somewhere in the sequence.
LEMMA SubSeqStands ==
    ASSUME NEW S, NEW t \in Seq(S), NEW s \in SubSeqs(t)
    PROVE  /\ s \in Seq(S)
           /\ \E a \in 0..Len(t) : /\ a + Len(s) <= Len(t)
                                   /\ \A i \in 1..Len(s) : s[i] = t[a + i]
<1>0. Len(t) \in Nat /\ \A i \in 1..Len(t) : t[i] \in S
  BY LenProperties, ElementOfSeq
<1>1. PICK a, b \in 0..Len(t) : s = SubSeq(t, a + 1, b)
  BY DEF SubSeqs
<1>2. a \in Nat /\ b \in Nat /\ a + 1 \in Int /\ b \in Int /\ \A i \in (a + 1)..b : t[i] \in S
  BY <1>0
<1>3. /\ s \in Seq(S) /\ Len(s) = IF a + 1 <= b THEN b - (a + 1) + 1 ELSE 0
      /\ \A i \in 1..(b - (a + 1) + 1) : s[i] = t[(a + 1) + i - 1]
  BY <1>1, <1>2, SubSeqProperties
<1>4. CASE a + 1 <= b
  <2>1. Len(s) = b - a /\ a + (b - a) = b /\ b <= Len(t)
    BY <1>0, <1>2, <1>3, <1>4
  <2>2. \A i \in 1..Len(s) : s[i] = t[a + i]
    <3>1. \A i \in 1..(b - a) : i \in 1..(b - (a + 1) + 1) /\ (a + 1) + i - 1 = a + i
      BY <1>2
    <3> QED
      BY <1>3, <2>1, <3>1
  <2> QED
    BY <1>3, <2>1, <2>2
<1>5. CASE ~(a + 1 <= b)
  <2>1. Len(s) = 0 /\ 1..0 = {} /\ 0 \in 0..Len(t) /\ 0 + 0 <= Len(t)
    BY <1>0, <1>3, <1>5
  <2> QED
    BY <1>3, <2>1
<1> QED
  BY <1>4, <1>5

\* The other way about.
LEMMA StandsSubSeq ==
    ASSUME NEW S, NEW t \in Seq(S), NEW s \in Seq(S), NEW a \in 0..Len(t),
           a + Len(s) <= Len(t), \A i \in 1..Len(s) : s[i] = t[a + i]
    PROVE  s \in SubSeqs(t)
<1> DEFINE b == a + Len(s)
           x == SubSeq(t, a + 1, b)
<1>0. Len(t) \in Nat /\ Len(s) \in Nat /\ a \in Nat /\ \A i \in 1..Len(t) : t[i] \in S
  BY LenProperties, ElementOfSeq
<1>1. a + 1 \in Int /\ b \in Int /\ b \in 0..Len(t) /\ \A i \in (a + 1)..b : t[i] \in S
  BY <1>0
<1>5. b - (a + 1) + 1 = Len(s) /\ (~(a + 1 <= b) => Len(s) = 0)
  BY <1>0
<1> HIDE DEF b
<1>2. /\ x \in Seq(S) /\ Len(x) = IF a + 1 <= b THEN b - (a + 1) + 1 ELSE 0
      /\ \A i \in 1..(b - (a + 1) + 1) : x[i] = t[(a + 1) + i - 1]
  BY <1>1, SubSeqProperties
<1> HIDE DEF x
<1>3. Len(x) = Len(s) /\ \A i \in 1..Len(x) : x[i] = s[i]
  <2>1. Len(x) = Len(s)
    BY <1>2, <1>5
  <2>2. \A i \in 1..Len(s) : (a + 1) + i - 1 = a + i
    BY <1>0
  <2>3. \A i \in 1..Len(s) : x[i] = t[a + i]
    BY <1>2, <1>5, <2>2
  <2> QED
    BY <2>1, <2>3
<1>4. x = s
  BY <1>2, <1>3, SeqEqual
<1> QED
  BY <1>1, <1>4 DEF x, SubSeqs

\* A subsequence that is no shorter is the sequence itself.
LEMMA WholeSubSeq ==
    ASSUME NEW S, NEW t \in Seq(S), NEW s \in SubSeqs(t)
    PROVE  /\ Len(s) <= Len(t)
           /\ Len(s) = Len(t) => s = t
<1>0. Len(t) \in Nat
  BY LenProperties
<1>1. /\ s \in Seq(S)
      /\ \E a \in 0..Len(t) : /\ a + Len(s) <= Len(t)
                              /\ \A i \in 1..Len(s) : s[i] = t[a + i]
  BY SubSeqStands
<1>2. PICK a \in 0..Len(t) : a + Len(s) <= Len(t) /\ \A i \in 1..Len(s) : s[i] = t[a + i]
  BY <1>1
<1>3. Len(s) \in Nat
  BY <1>1, LenProperties
<1>4. Len(s) <= Len(t)
  BY <1>0, <1>2, <1>3
<1>5. ASSUME Len(s) = Len(t) PROVE s = t
  <2>1. a = 0 /\ \A i \in 1..Len(s) : a + i = i
    BY <1>0, <1>2, <1>3, <1>5
  <2>2. \A i \in 1..Len(s) : s[i] = t[i]
    BY <1>2, <2>1
  <2> QED
    BY <1>1, <1>5, <2>2, SeqEqual
<1> QED
  BY <1>4, <1>5

\* Where ReplaceFirstSubSeq finds a key, it stands.
LEMMA FirstMatch ==
    ASSUME NEW S, NEW t \in Seq(S), NEW s \in SubSeqs(t), Len(s) > 0
    PROVE  LET k == IndexFirstSubSeq(s, t)
           IN  /\ k \in 1..Len(t) /\ k + Len(s) - 1 <= Len(t)
               /\ \A i \in 1..Len(s) : t[k + i - 1] = s[i]
<1> DEFINE Holds(i) == s \in SubSeqs(SubSeq(t, 1, i))
           T == {i \in 0..Len(t) : Holds(i)}
           last == CHOOSE i \in 0..Len(t) : Holds(i) /\ \A j \in 0..(i - 1) : ~Holds(j)
<1>0. /\ Len(t) \in Nat /\ (\A i \in 1..Len(t) : t[i] \in S)
      /\ s \in Seq(S) /\ Len(s) \in Nat
  <2>1. s \in Seq(S)
    BY SubSeqStands
  <2> QED
    BY <2>1, LenProperties, ElementOfSeq
<1>1. ASSUME NEW m \in 0..Len(t)
      PROVE  /\ SubSeq(t, 1, m) \in Seq(S) /\ Len(SubSeq(t, 1, m)) = m
             /\ \A i \in 1..m : SubSeq(t, 1, m)[i] = t[i]
  <2>1. 1 \in Int /\ m \in Int /\ m \in Nat /\ \A i \in 1..m : t[i] \in S
    BY <1>0
  <2> DEFINE x == SubSeq(t, 1, m)
  <2>2. /\ x \in Seq(S) /\ Len(x) = IF 1 <= m THEN m - 1 + 1 ELSE 0
        /\ \A i \in 1..(m - 1 + 1) : x[i] = t[1 + i - 1]
    BY <2>1, SubSeqProperties
  <2> HIDE DEF x
  <2>3. x \in Seq(S) /\ Len(x) = m /\ \A i \in 1..m : x[i] = t[i]
    BY <2>1, <2>2
  <2> QED
    BY <2>3 DEF x
<1>2. Holds(Len(t)) /\ Len(t) \in 0..Len(t)
  <2>1. Len(t) \in 0..Len(t)
    BY <1>0
  <2>2. SubSeq(t, 1, Len(t)) = t
    BY <1>1, <2>1, SeqEqual
  <2> QED
    BY <2>1, <2>2
<1>3. IndexFirstSubSeq(s, t) = last - (Len(s) - 1)
  BY DEF IndexFirstSubSeq
<1> HIDE DEF Holds
<1>4. /\ last \in 0..Len(t) /\ Holds(last)
      /\ \A j \in 0..(last - 1) : ~Holds(j)
  <2>1. T \in SUBSET Nat /\ T # {}
    BY <1>2
  <2>2. PICK e \in T : \A k \in T : e <= k
    <3> HIDE DEF T
    <3> QED
      BY <2>1, LeastOf
  <2>3. e \in 0..Len(t) /\ Holds(e) /\ \A j \in 0..(e - 1) : ~Holds(j)
    <3>1. ASSUME NEW j \in 0..(e - 1), Holds(j) PROVE FALSE
      <4>1. j \in T /\ ~(e <= j)
        BY <1>0, <2>2, <3>1
      <4> QED
        BY <2>2, <4>1
    <3> QED
      BY <3>1
  <2> QED
    BY <2>3
<1> HIDE DEF last
<1> DEFINE x == SubSeq(t, 1, last)
<1>5. x \in Seq(S) /\ Len(x) = last /\ \A i \in 1..last : x[i] = t[i]
  BY <1>1, <1>4
<1>6. s \in SubSeqs(x)
  BY <1>4 DEF Holds
<1> HIDE DEF x
<1>7. PICK a \in 0..last : a + Len(s) <= last /\ \A i \in 1..Len(s) : s[i] = x[a + i]
  BY <1>5, <1>6, SubSeqStands
<1>8. \A i \in 1..Len(s) : s[i] = t[a + i] /\ a + i \in 1..last
  <2>1. \A i \in 1..Len(s) : a + i \in 1..last
    BY <1>0, <1>4, <1>7
  <2> QED
    BY <1>5, <1>7, <2>1
<1>9. a + Len(s) = last
  <2> DEFINE b == a + Len(s)
             y == SubSeq(t, 1, b)
  <2>1. b \in 0..Len(t) /\ b <= last /\ b \in Nat /\ a \in Nat
    BY <1>0, <1>4, <1>7
  <2>7. a \in 0..b /\ a + Len(s) <= b /\ \A i \in 1..Len(s) : a + i \in 1..b
    BY <1>0, <2>1
  <2> HIDE DEF b
  <2>2. y \in Seq(S) /\ Len(y) = b /\ \A i \in 1..b : y[i] = t[i]
    BY <1>1, <2>1
  <2> HIDE DEF y
  <2>3. \A i \in 1..Len(s) : s[i] = y[a + i]
    BY <1>8, <2>2, <2>7
  <2>4. s \in SubSeqs(y)
    BY <1>0, <2>2, <2>3, <2>7, StandsSubSeq
  <2>5. Holds(b)
    BY <2>4 DEF y, Holds
  <2>6. b = last
    <3>1. ~(b \in 0..(last - 1)) /\ last \in Nat
      BY <1>4, <2>5
    <3> QED
      BY <2>1, <3>1
  <2> QED
    BY <2>6 DEF b
<1> DEFINE k == IndexFirstSubSeq(s, t)
<1>10. k = a + 1 /\ a \in Nat
  <2>1. a \in Nat /\ last \in Nat /\ Len(s) \in Nat /\ a + Len(s) = last
    BY <1>0, <1>4, <1>7, <1>9
  <2>2. last - (Len(s) - 1) = a + 1
    BY ONLY <2>1
  <2> QED
    BY <1>3, <2>1, <2>2
<1> HIDE DEF k
<1>11. k \in 1..Len(t) /\ k + Len(s) - 1 <= Len(t) /\ \A i \in 1..Len(s) : k + i - 1 = a + i
  BY <1>0, <1>4, <1>9, <1>10
<1> QED
  BY <1>8, <1>11 DEF k

\* What is put in place of a key.
LEMMA ReplacedIs ==
    ASSUME NEW S, NEW t \in Seq(S), NEW r \in Seq(S), NEW s \in SubSeqs(t), Len(s) > 0
    PROVE  LET k == IndexFirstSubSeq(s, t)
               u == ReplaceFirstSubSeq(r, s, t)
           IN  /\ u \in Seq(S) /\ Len(u) = Len(t) - Len(s) + Len(r)
               /\ \A i \in 1..(k - 1) : u[i] = t[i]
               /\ \A i \in 1..Len(r) : u[k - 1 + i] = r[i]
               /\ \A i \in (k + Len(s))..Len(t) : u[i - Len(s) + Len(r)] = t[i]
<1> DEFINE k == IndexFirstSubSeq(s, t)
           p == SubSeq(t, 1, k - 1)
           q == SubSeq(t, k + Len(s), Len(t))
           u == ReplaceFirstSubSeq(r, s, t)
           n == Len(t)
           m == Len(s)
           l == Len(r)
<1>0. /\ n \in Nat /\ l \in Nat /\ m \in Nat /\ m > 0
      /\ k \in 1..n /\ k + m - 1 <= n
      /\ \A i \in 1..n : t[i] \in S
  <2>1. s \in Seq(S)
    BY SubSeqStands
  <2>2. k \in 1..n /\ k + m - 1 <= n
    BY FirstMatch
  <2> QED
    BY <2>1, <2>2, LenProperties, ElementOfSeq
<1>1. u = (p \o r) \o q
  BY DEF ReplaceFirstSubSeq, ReplaceSubSeqAt
<1> HIDE DEF k, u, m, n, l
<1>2. p \in Seq(S) /\ Len(p) = k - 1 /\ \A i \in 1..(k - 1) : p[i] = t[i]
  <2>1. 1 \in Int /\ k - 1 \in Int /\ k \in Nat /\ \A i \in 1..(k - 1) : t[i] \in S
    BY <1>0
  <2>2. /\ p \in Seq(S) /\ Len(p) = IF 1 <= k - 1 THEN k - 1 - 1 + 1 ELSE 0
        /\ \A i \in 1..(k - 1 - 1 + 1) : p[i] = t[1 + i - 1]
    BY <2>1, SubSeqProperties
  <2> HIDE DEF p
  <2> QED
    BY <1>0, <2>1, <2>2
<1>3. q \in Seq(S) /\ Len(q) = n - (k + m) + 1 /\ \A i \in 1..(n - (k + m) + 1) : q[i] = t[k + m + i - 1]
  <2>1. k + m \in Int /\ n \in Int /\ \A i \in (k + m)..n : t[i] \in S
    BY <1>0
  <2>2. /\ q \in Seq(S) /\ Len(q) = IF k + m <= n THEN n - (k + m) + 1 ELSE 0
        /\ \A i \in 1..(n - (k + m) + 1) : q[i] = t[k + m + i - 1]
    BY <2>1, SubSeqProperties DEF m, n
  <2> HIDE DEF q
  <2> QED
    BY <1>0, <2>1, <2>2
<1> HIDE DEF p, q
<1> DEFINE v == p \o r
<1>4. /\ v \in Seq(S) /\ Len(v) = k - 1 + l
      /\ \A i \in 1..(k - 1 + l) : v[i] = IF i <= k - 1 THEN p[i] ELSE r[i - (k - 1)]
  BY <1>2, ConcatProperties DEF l
<1>11. v \in Seq(S) /\ q \in Seq(S)
  BY <1>3, <1>4
<1> HIDE DEF v
<1>5. /\ v \o q \in Seq(S) /\ Len(v \o q) = Len(v) + Len(q)
      /\ \A i \in 1..(Len(v) + Len(q)) : (v \o q)[i] = IF i <= Len(v) THEN v[i] ELSE q[i - Len(v)]
  BY ONLY <1>11, ConcatProperties
<1>6. u = v \o q
  BY <1>1 DEF v
<1>7. u \in Seq(S) /\ Len(u) = n - m + l
  <2>1. (k - 1 + l) + (n - (k + m) + 1) = n - m + l
    BY <1>0
  <2> QED
    BY <1>3, <1>4, <1>5, <1>6, <2>1
<1>8. ASSUME NEW i \in 1..(k - 1) PROVE u[i] = t[i]
  <2>1. i \in 1..(Len(v) + Len(q)) /\ i <= Len(v) /\ i \in 1..(k - 1 + l) /\ i <= k - 1
    BY <1>0, <1>3, <1>4
  <2> QED
    BY <1>2, <1>4, <1>5, <1>6, <2>1
<1>9. ASSUME NEW i \in 1..l PROVE u[k - 1 + i] = r[i]
  <2>1. /\ k - 1 + i \in 1..(Len(v) + Len(q)) /\ k - 1 + i <= Len(v)
        /\ k - 1 + i \in 1..(k - 1 + l) /\ ~(k - 1 + i <= k - 1) /\ (k - 1 + i) - (k - 1) = i
    BY <1>0, <1>3, <1>4
  <2> QED
    BY <1>4, <1>5, <1>6, <2>1
<1>10. ASSUME NEW i \in (k + m)..n PROVE u[i - m + l] = t[i]
  <2> DEFINE j == i - (k + m) + 1
  <2>1. /\ i - m + l \in 1..(Len(v) + Len(q)) /\ ~(i - m + l <= Len(v))
        /\ (i - m + l) - Len(v) = j /\ j \in 1..(n - (k + m) + 1) /\ k + m + j - 1 = i
    BY <1>0, <1>3, <1>4
  <2> HIDE DEF j
  <2> QED
    BY <1>3, <1>5, <1>6, <2>1
<1> QED
  BY <1>7, <1>8, <1>9, <1>10 DEF k, u, m, n, l

\* A key that stands for itself changes no link.
LEMMA ReplaceSame ==
    ASSUME NEW S, NEW t \in Seq(S), NEW s \in Seq(S), Len(s) > 0
    PROVE  ReplaceFirstSubSeq(s, s, t) = t
<1>1. CASE s \notin SubSeqs(t)
  BY <1>1 DEF ReplaceFirstSubSeq
<1>2. CASE s \in SubSeqs(t)
  <2> DEFINE k == IndexFirstSubSeq(s, t)
             u == ReplaceFirstSubSeq(s, s, t)
             n == Len(t)
             m == Len(s)
  <2>0. n \in Nat /\ m \in Nat
    BY LenProperties
  <2>1. k \in 1..n /\ k + m - 1 <= n /\ \A i \in 1..m : t[k + i - 1] = s[i]
    BY <1>2, FirstMatch
  <2>2. /\ u \in Seq(S) /\ Len(u) = n - m + m
        /\ \A i \in 1..(k - 1) : u[i] = t[i]
        /\ \A i \in 1..m : u[k - 1 + i] = s[i]
        /\ \A i \in (k + m)..n : u[i - m + m] = t[i]
    BY <1>2, ReplacedIs
  <2> HIDE DEF k, u, m
  <2>3. ASSUME NEW i \in 1..n PROVE u[i] = t[i]
    <3>1. CASE i <= k - 1
      <4>1. i \in 1..(k - 1)
        BY <2>0, <2>1, <3>1
      <4> QED
        BY <2>2, <4>1
    <3>2. CASE k <= i /\ i <= k - 1 + m
      <4> DEFINE j == i - (k - 1)
      <4>1. j \in 1..m /\ k - 1 + j = i /\ k + j - 1 = i
        BY <2>0, <2>1, <3>2
      <4> HIDE DEF j
      <4> QED
        BY <2>1, <2>2, <4>1
    <3>3. CASE k + m <= i
      <4>1. i \in (k + m)..n /\ i - m + m = i
        BY <2>0, <2>1, <3>3
      <4> QED
        BY <2>2, <4>1
    <3>4. i <= k - 1 \/ (k <= i /\ i <= k - 1 + m) \/ k + m <= i
      BY <2>0, <2>1
    <3> QED
      BY <3>1, <3>2, <3>3, <3>4
  <2>4. Len(u) = n
    BY <2>0, <2>2
  <2>5. u = t
    BY <2>2, <2>3, <2>4, SeqEqual
  <2> QED
    BY <2>5 DEF u
<1> QED
  BY <1>1, <1>2

\* A link that is the key becomes its value.
LEMMA ReplaceWhole ==
    ASSUME NEW S, NEW t \in Seq(S), NEW r \in Seq(S), Len(t) > 0
    PROVE  ReplaceFirstSubSeq(r, t, t) = r
<1> DEFINE k == IndexFirstSubSeq(t, t)
           u == ReplaceFirstSubSeq(r, t, t)
           n == Len(t)
<1>0. n \in Nat /\ Len(r) \in Nat
  BY LenProperties
<1>1. t \in SubSeqs(t)
  <2>1. 0 \in 0..n /\ 0 + n <= n /\ \A i \in 1..n : 0 + i = i
    BY <1>0
  <2>2. \A i \in 1..n : t[i] = t[0 + i]
    BY <2>1
  <2> HIDE DEF n
  <2> QED
    BY <2>1, <2>2, StandsSubSeq DEF n
<1>2. k \in 1..n /\ k + n - 1 <= n
  BY <1>1, FirstMatch
<1>3. /\ u \in Seq(S) /\ Len(u) = n - n + Len(r)
      /\ \A i \in 1..Len(r) : u[k - 1 + i] = r[i]
  BY <1>1, ReplacedIs
<1> HIDE DEF k, u, n
<1>4. k = 1 /\ Len(u) = Len(r) /\ \A i \in 1..Len(r) : k - 1 + i = i
  BY <1>0, <1>2, <1>3
<1>5. \A i \in 1..Len(r) : u[i] = r[i]
  BY <1>3, <1>4
<1>6. u = r
  BY <1>3, <1>4, <1>5, SeqEqual
<1> QED
  BY <1>6 DEF u
-----------------------------------------------------------------------------
(* The order of the keys.                                                  *)

\* An entry of either map.
Address == [key : Seq(Tokens), value : Seq(Tokens)]

LEMMA KeyFacts ==
    ASSUME urlMap \in Seq(Address)
    PROVE  /\ Len(urlMap) \in Nat /\ DOMAIN urlMap = 1..Len(urlMap)
           /\ \A k \in DOMAIN urlMap : /\ urlMap[k] \in Address
                                       /\ urlMap[k].key \in Seq(Tokens)
                                       /\ urlMap[k].value \in Seq(Tokens)
                                       /\ Len(urlMap[k].key) \in Nat
<1>1. Len(urlMap) \in Nat /\ DOMAIN urlMap = 1..Len(urlMap)
  BY LenProperties
<1>2. \A k \in 1..Len(urlMap) : urlMap[k] \in Address
  BY ElementOfSeq
<1>3. \A e \in Address : e.key \in Seq(Tokens) /\ e.value \in Seq(Tokens)
  BY DEF Address
<1>4. \A s \in Seq(Tokens) : Len(s) \in Nat
  BY LenProperties
<1> QED
  BY <1>1, <1>2, <1>3, <1>4

\* Longest first, and as met among keys of one length, is a total order.
LEMMA BeforeIsOrder ==
    ASSUME urlMap \in Seq(Address), NEW i \in DOMAIN urlMap, NEW k \in DOMAIN urlMap,
           NEW j \in DOMAIN urlMap
    PROVE  /\ ~Before(i, i)
           /\ i # k => Before(i, k) \/ Before(k, i)
           /\ Before(i, k) => ~Before(k, i)
           /\ Before(i, k) /\ Before(k, j) => Before(i, j)
<1> DEFINE w(x) == Len(urlMap[x].key)
<1>1. /\ i \in Nat /\ k \in Nat /\ j \in Nat
      /\ w(i) \in Nat /\ w(k) \in Nat /\ w(j) \in Nat
  BY KeyFacts
<1>2. \A x, y : Before(x, y) <=> (w(x) > w(y) \/ (w(x) = w(y) /\ x < y))
  BY DEF Before
<1> HIDE DEF w
<1> QED
  BY <1>1, <1>2

LEMMA LastKeyIs ==
    ASSUME urlMap \in Seq(Address), NEW keys \in SUBSET (DOMAIN urlMap), keys # {}
    PROVE  /\ LastKey(keys) \in keys
           /\ \A i \in keys \ {LastKey(keys)} : Before(i, LastKey(keys))
<1> DEFINE w(x) == Len(urlMap[x].key)
           W == {w(i) : i \in keys}
<1>1. /\ Len(urlMap) \in Nat /\ keys \in SUBSET (1..Len(urlMap))
      /\ \A i \in keys : w(i) \in Nat
  BY KeyFacts
<1>2. \A x, y : Before(x, y) <=> (w(x) > w(y) \/ (w(x) = w(y) /\ x < y))
  BY DEF Before
<1> HIDE DEF w
<1>3. PICK least \in W : \A x \in W : least <= x
  <2>1. W \in SUBSET Nat /\ W # {}
    BY <1>1
  <2> HIDE DEF W
  <2> QED
    BY <2>1, LeastOf
<1> DEFINE T == {i \in keys : w(i) = least}
<1>4. PICK e \in T : \A i \in T : e >= i
  <2>1. T \in SUBSET (1..Len(urlMap)) /\ T # {}
    BY <1>1, <1>3
  <2> HIDE DEF T
  <2> QED
    BY <1>1, <2>1, Extremes
<1>5. ASSUME NEW i \in keys \ {e} PROVE Before(i, e)
  <2>1. w(i) \in Nat /\ w(e) \in Nat /\ w(e) = least /\ least <= w(i) /\ i \in Nat /\ e \in Nat
    BY <1>1, <1>3, <1>4
  <2>2. w(i) = least => e >= i
    BY <1>4
  <2> QED
    BY <1>2, <2>1, <2>2
<1> QED
  BY <1>4, <1>5, Zenon DEF LastKey

\* Of some keys one is handled before the others.
LEMMA FirstKeyIs ==
    ASSUME urlMap \in Seq(Address), NEW keys \in SUBSET (DOMAIN urlMap), keys # {}
    PROVE  \E e \in keys : \A i \in keys : ~Before(i, e)
<1> DEFINE C == {Cardinality(Earlier(i)) : i \in keys}
<1>1. ASSUME NEW i \in DOMAIN urlMap
      PROVE  IsFiniteSet(Earlier(i)) /\ Cardinality(Earlier(i)) \in Nat
  <2>1. 1 \in Int /\ Len(urlMap) \in Int /\ Earlier(i) \in SUBSET (1..Len(urlMap))
    BY KeyFacts DEF Earlier
  <2>2. IsFiniteSet(1..Len(urlMap))
    BY <2>1, FS_Interval
  <2> QED
    BY <2>1, <2>2, FS_Subset, FS_CardinalityType
<1>2. PICK e \in keys : \A i \in keys : Cardinality(Earlier(e)) <= Cardinality(Earlier(i))
  <2>1. C \in SUBSET Nat /\ C # {}
    BY <1>1
  <2>2. PICK c \in C : \A x \in C : c <= x
    <3> HIDE DEF C
    <3> QED
      BY <2>1, LeastOf
  <2> QED
    BY <2>2
<1>3. ASSUME NEW i \in keys, Before(i, e) PROVE FALSE
  <2>1. i \in DOMAIN urlMap /\ e \in DOMAIN urlMap
    OBVIOUS
  <2>2. Earlier(i) \subseteq Earlier(e)
    <3> SUFFICES ASSUME NEW x \in Earlier(i) PROVE x \in Earlier(e)
      OBVIOUS
    <3>1. x \in DOMAIN urlMap /\ Before(x, i)
      BY DEF Earlier
    <3>2. Before(x, e)
      BY <1>3, <2>1, <3>1, BeforeIsOrder
    <3> QED
      BY <3>1, <3>2 DEF Earlier
  <2>3. i \in Earlier(e) /\ i \notin Earlier(i)
    BY <1>3, <2>1, BeforeIsOrder DEF Earlier
  <2>4. Cardinality(Earlier(i)) < Cardinality(Earlier(e))
    <3>1. Earlier(i) # Earlier(e)
      BY <2>3
    <3> QED
      BY <1>1, <2>1, <2>2, <3>1, FS_Subset
  <2> QED
    BY <1>1, <1>2, <2>1, <2>4
<1> QED
  BY <1>2, <1>3

\* The function that RewriteUrl is the last value of.
Rewrites(link, f) ==
    f = [k \in DOMAIN urlMap |->
            ReplaceKey(k, IF Earlier(k) = {} THEN link ELSE f[LastKey(Earlier(k))])]

\* There is one such function only, so that one that is found is the one.
LEMMA RewriteIs ==
    ASSUME urlMap \in Seq(Address), NEW link, NEW f, Rewrites(link, f)
    PROVE  RewriteUrl(link) = IF urlMap = <<>> THEN link ELSE f[LastKey(DOMAIN urlMap)]
<1> DEFINE g == CHOOSE h : Rewrites(link, h)
<1>1. Rewrites(link, g)
  OBVIOUS
<1>2. RewriteUrl(link) = IF urlMap = <<>> THEN link ELSE g[LastKey(DOMAIN urlMap)]
  BY DEF RewriteUrl, Rewrites
<1> HIDE DEF g
<1> DEFINE bad == {k \in DOMAIN urlMap : g[k] # f[k]}
<1>3. bad = {}
  <2> SUFFICES ASSUME bad # {} PROVE FALSE
    OBVIOUS
  <2>1. PICK e \in bad : \A i \in bad : ~Before(i, e)
    <3>1. bad \in SUBSET (DOMAIN urlMap)
      OBVIOUS
    <3> HIDE DEF bad
    <3> QED
      BY <3>1, FirstKeyIs
  <2>2. e \in DOMAIN urlMap /\ g[e] # f[e]
    BY <2>1
  <2>3. /\ g[e] = ReplaceKey(e, IF Earlier(e) = {} THEN link ELSE g[LastKey(Earlier(e))])
        /\ f[e] = ReplaceKey(e, IF Earlier(e) = {} THEN link ELSE f[LastKey(Earlier(e))])
    BY <1>1, <2>2 DEF Rewrites
  <2>4. ASSUME Earlier(e) # {} PROVE g[LastKey(Earlier(e))] = f[LastKey(Earlier(e))]
    <3>1. Earlier(e) \in SUBSET (DOMAIN urlMap)
      BY DEF Earlier
    <3>2. LastKey(Earlier(e)) \in Earlier(e)
      BY <2>4, <3>1, LastKeyIs
    <3>3. LastKey(Earlier(e)) \in DOMAIN urlMap /\ Before(LastKey(Earlier(e)), e)
      BY <3>2 DEF Earlier
    <3>4. LastKey(Earlier(e)) \notin bad
      BY <2>1, <3>3
    <3> QED
      BY <3>3, <3>4
  <2> QED
    BY <2>2, <2>3, <2>4
<1>4. urlMap # <<>> => LastKey(DOMAIN urlMap) \in DOMAIN urlMap
  <2> SUFFICES ASSUME urlMap # <<>> PROVE LastKey(DOMAIN urlMap) \in DOMAIN urlMap
    OBVIOUS
  <2>1. DOMAIN urlMap # {}
    <3>1. DOMAIN urlMap = {} => Len(urlMap) = 0
      BY KeyFacts
    <3> QED
      BY <3>1, EmptySeq
  <2>2. DOMAIN urlMap \in SUBSET (DOMAIN urlMap)
    OBVIOUS
  <2> QED
    BY <2>1, <2>2, LastKeyIs
<1> QED
  BY <1>2, <1>3, <1>4
-----------------------------------------------------------------------------
(* The two maps.                                                           *)

\* The name the part's address asks for.
Base(part) == SafeFilename(part.loc, Fallback(part))

\* Every part has the name asked for, or that with a number, and its address
\* and its id lead to a part of that address or id; what a map holds is the
\* name of a part whose address, bare name or id the key is.
MapsInv ==
    /\ urlMap \in Seq(Address) /\ cidMap \in Seq(Address)
    /\ \A i \in DOMAIN placed :
          \/ placed[i].name = Base(placed[i].part)
          \/ \E n \in DOMAIN Numbers :
                placed[i].name = Append(Base(placed[i].part), Numbers[n])
    /\ \A e, f \in DOMAIN urlMap : urlMap[e].key = urlMap[f].key => e = f
    /\ \A e \in DOMAIN urlMap : \E i \in DOMAIN placed :
          /\ urlMap[e].key # NoName /\ placed[i].part.loc # NoName
          /\ urlMap[e].key \in {placed[i].part.loc, SafeFilename(placed[i].part.loc, NoName)}
          /\ urlMap[e].value = placed[i].name
    /\ \A i \in DOMAIN placed : placed[i].part.loc # NoName =>
          \E e \in DOMAIN urlMap : urlMap[e].key = placed[i].part.loc
    /\ \A e, f \in DOMAIN cidMap : cidMap[e].key = cidMap[f].key => e = f
    /\ \A e \in DOMAIN cidMap : \E i \in DOMAIN placed :
          /\ cidMap[e].key # NoName /\ cidMap[e].key = placed[i].part.cid
          /\ cidMap[e].value = placed[i].name
    /\ \A i \in DOMAIN placed : placed[i].part.cid # NoName =>
          \E e \in DOMAIN cidMap : cidMap[e].key = placed[i].part.cid

\* dict assignment.
LEMMA PutIs ==
    ASSUME NEW map \in Seq(Address), NEW key \in Seq(Tokens), NEW value \in Seq(Tokens),
           \A e, f \in DOMAIN map : map[e].key = map[f].key => e = f
    PROVE  LET put == Put(map, key, value)
           IN  /\ put \in Seq(Address)
               /\ \A e, f \in DOMAIN put : put[e].key = put[f].key => e = f
               /\ \A e \in DOMAIN put :
                     \/ put[e].key = key /\ put[e].value = value
                     \/ \E f \in DOMAIN map : put[e] = map[f]
               /\ \A f \in DOMAIN map : \E e \in DOMAIN put : put[e].key = map[f].key
               /\ \E e \in DOMAIN put : put[e].key = key
<1> DEFINE put == Put(map, key, value)
           pair == [key |-> key, value |-> value]
           n == Len(map)
<1>0. n \in Nat /\ DOMAIN map = 1..n /\ \A e \in 1..n : map[e] \in Address
  BY LenProperties, ElementOfSeq
<1>1. pair \in Address /\ pair.key = key /\ pair.value = value
  BY DEF Address
<1>2. CASE \E i \in DOMAIN map : map[i].key = key
  <2>1. put = [i \in 1..n |-> IF map[i].key = key THEN pair ELSE map[i]]
    BY <1>0, <1>2 DEF Put
  <2> HIDE DEF put, pair
  <2>2. \A i \in 1..n : put[i] = IF map[i].key = key THEN pair ELSE map[i]
    BY <2>1
  <2>3. put \in [1..n -> Address]
    BY <1>0, <1>1, <2>1
  <2>4. put \in Seq(Address) /\ DOMAIN put = 1..n
    BY <1>0, <2>3, SeqOfFcn
  <2>5. \A i \in 1..n : put[i].key = map[i].key
    BY <1>1, <2>2
  <2>6. \A e, f \in 1..n : put[e].key = put[f].key => e = f
    BY <1>0, <2>5
  <2>7. \A e \in 1..n : \/ put[e].key = key /\ put[e].value = value
                        \/ \E f \in 1..n : put[e] = map[f]
    BY <1>1, <2>2
  <2>8. \E e \in 1..n : put[e].key = key
    BY <1>0, <1>2, <2>5
  <2> QED
    BY <1>0, <2>4, <2>5, <2>6, <2>7, <2>8 DEF put
<1>3. CASE ~\E i \in DOMAIN map : map[i].key = key
  <2>1. put = Append(map, pair)
    BY <1>3 DEF Put
  <2> HIDE DEF put, pair
  <2>2. /\ put \in Seq(Address) /\ Len(put) = n + 1
        /\ \A i \in 1..n : put[i] = map[i]
        /\ put[n + 1] = pair
    BY <1>0, <1>1, <2>1, AppendProperties
  <2>3. DOMAIN put = 1..(n + 1) /\ n + 1 \in 1..(n + 1) /\ \A i \in 1..(n + 1) : i \in 1..n \/ i = n + 1
    BY <1>0, <2>2, LenProperties
  <2>4. \A i \in 1..n : put[i].key # key /\ i \in 1..(n + 1)
    BY <1>0, <1>3, <2>2
  <2>5. \A e, f \in 1..(n + 1) : put[e].key = put[f].key => e = f
    <3> SUFFICES ASSUME NEW e \in 1..(n + 1), NEW f \in 1..(n + 1), put[e].key = put[f].key
                 PROVE  e = f
      OBVIOUS
    <3>1. CASE e \in 1..n /\ f \in 1..n
      BY <1>0, <2>2, <3>1
    <3>2. CASE e = n + 1 /\ f \in 1..n
      BY <1>1, <2>2, <2>4, <3>2
    <3>3. CASE e \in 1..n /\ f = n + 1
      BY <1>1, <2>2, <2>4, <3>3
    <3> QED
      BY <2>3, <3>1, <3>2, <3>3
  <2>6. \A e \in 1..(n + 1) : \/ put[e].key = key /\ put[e].value = value
                              \/ \E f \in 1..n : put[e] = map[f]
    BY <1>1, <2>2, <2>3
  <2>7. \A f \in 1..n : \E e \in 1..(n + 1) : put[e].key = map[f].key
    BY <2>2, <2>4
  <2>8. \E e \in 1..(n + 1) : put[e].key = key
    BY <1>1, <2>2, <2>3
  <2> QED
    BY <1>0, <2>2, <2>3, <2>5, <2>6, <2>7, <2>8 DEF put
<1> QED
  BY <1>2, <1>3

LEMMA MapsInitInv == MhtInit => MapsInv
<1> SUFFICES ASSUME MhtInit PROVE MapsInv
  OBVIOUS
<1>1. <<>> \in Seq(Address) /\ <<>> \in Seq(Address) /\ DOMAIN <<>> = {}
  BY EmptySeq, LenProperties
<1> QED
  BY <1>1 DEF MhtInit, MapsInv

LEMMA PartMapped ==
    ASSUME StoreInv, MapsInv, NEW part \in Part, StorePart(part)
    PROVE  MapsInv'
<1> DEFINE name == FreeName(Base(part))
           entry == [part |-> part, name |-> name]
           n == Len(placed)
<1>1. /\ NextPart
      /\ placed' = Append(placed, entry)
      /\ cidMap' = PutCid(part, name)
      /\ urlMap' = PutLocation(part, name)
  BY DEF StorePart, Base
<1>2. /\ name \in Seq(Tokens)
      /\ name = Base(part) \/ \E k \in DOMAIN Numbers : name = Append(Base(part), Numbers[k])
  BY <1>1, NameFacts DEF NextPart, Base
<1>3. entry \in Stored /\ entry.part = part /\ entry.name = name
  BY <1>2 DEF Stored
<1> HIDE DEF name, entry
<1>4. /\ n \in Nat /\ DOMAIN placed = 1..n /\ DOMAIN placed' = 1..(n + 1)
      /\ \A i \in 1..n : placed'[i] = placed[i] /\ i \in 1..(n + 1)
      /\ placed'[n + 1] = entry /\ n + 1 \in 1..(n + 1)
      /\ \A i \in 1..(n + 1) : i \in 1..n \/ i = n + 1
  <2>1. placed \in Seq(Stored) /\ n \in Nat
    BY LenProperties DEF StoreInv
  <2>2. /\ placed' \in Seq(Stored) /\ Len(placed') = n + 1
        /\ \A i \in 1..n : placed'[i] = placed[i]
        /\ placed'[n + 1] = entry
    BY <1>1, <1>3, <2>1, AppendProperties
  <2> QED
    BY <2>1, <2>2, LenProperties
<1> HIDE DEF n
<1>5. \A i \in DOMAIN placed' :
          \/ placed'[i].name = Base(placed'[i].part)
          \/ \E k \in DOMAIN Numbers :
                placed'[i].name = Append(Base(placed'[i].part), Numbers[k])
  <2> SUFFICES ASSUME NEW i \in 1..(n + 1)
               PROVE  \/ placed'[i].name = Base(placed'[i].part)
                      \/ \E k \in DOMAIN Numbers :
                            placed'[i].name = Append(Base(placed'[i].part), Numbers[k])
    BY <1>4
  <2>1. CASE i \in 1..n
    <3>1. \/ placed[i].name = Base(placed[i].part)
          \/ \E k \in DOMAIN Numbers :
                placed[i].name = Append(Base(placed[i].part), Numbers[k])
      BY <1>4, <2>1 DEF MapsInv
    <3>2. placed'[i] = placed[i]
      BY <1>4, <2>1
    <3> QED
      BY <3>1, <3>2
  <2>2. CASE i = n + 1
    BY <1>2, <1>3, <1>4, <2>2
  <2> QED
    BY <1>4, <2>1, <2>2
<1>6. part.loc \in Seq(Tokens) /\ part.cid \in Seq(Tokens)
  BY TokenAssumption DEF Part
<1> DEFINE OfPart(e, i) ==
               /\ urlMap'[e].key # NoName /\ placed'[i].part.loc # NoName
               /\ urlMap'[e].key \in {placed'[i].part.loc, SafeFilename(placed'[i].part.loc, NoName)}
               /\ urlMap'[e].value = placed'[i].name
<1>7. /\ urlMap' \in Seq(Address)
      /\ \A e, f \in DOMAIN urlMap' : urlMap'[e].key = urlMap'[f].key => e = f
      /\ \A e \in DOMAIN urlMap' :
            \/ /\ part.loc # NoName /\ urlMap'[e].key # NoName
               /\ urlMap'[e].key \in {part.loc, SafeFilename(part.loc, NoName)}
               /\ urlMap'[e].value = name
            \/ \E f \in DOMAIN urlMap : urlMap'[e] = urlMap[f]
      /\ \A f \in DOMAIN urlMap : \E e \in DOMAIN urlMap' : urlMap'[e].key = urlMap[f].key
      /\ part.loc # NoName => \E e \in DOMAIN urlMap' : urlMap'[e].key = part.loc
  <2> DEFINE bare == SafeFilename(part.loc, NoName)
             whole == Put(urlMap, part.loc, name)
  <2>1. /\ urlMap \in Seq(Address)
        /\ \A e, f \in DOMAIN urlMap : urlMap[e].key = urlMap[f].key => e = f
    BY DEF MapsInv
  <2>2. /\ whole \in Seq(Address)
        /\ \A e, f \in DOMAIN whole : whole[e].key = whole[f].key => e = f
        /\ \A e \in DOMAIN whole :
              \/ whole[e].key = part.loc /\ whole[e].value = name
              \/ \E f \in DOMAIN urlMap : whole[e] = urlMap[f]
        /\ \A f \in DOMAIN urlMap : \E e \in DOMAIN whole : whole[e].key = urlMap[f].key
        /\ \E e \in DOMAIN whole : whole[e].key = part.loc
    <3>1. part.loc \in Seq(Tokens) /\ name \in Seq(Tokens)
      BY <1>2, <1>6
    <3> QED
      BY ONLY <2>1, <3>1, PutIs
  <2>3. bare \in Seq(Tokens)
    <3>1. Stripped(Underscored(LastSegment(part.loc))) \in Seq(Tokens) /\ NoName \in Seq(Tokens)
      BY LocationFacts, UnderscoredType, StrippedType, EmptySeq DEF Part, NoName
    <3> QED
      BY <3>1 DEF SafeFilename
  <2> HIDE DEF bare, whole
  <2>4. CASE part.loc = NoName
    <3>1. urlMap' = urlMap
      BY <1>1, <2>4 DEF PutLocation
    <3> QED
      BY <2>1, <2>4, <3>1
  <2>5. CASE part.loc # NoName /\ bare \in {NoName, part.loc}
    <3>1. urlMap' = whole
      BY <1>1, <2>5 DEF PutLocation, bare, whole
    <3> QED
      BY <2>2, <2>5, <3>1
  <2>6. CASE part.loc # NoName /\ bare \notin {NoName, part.loc}
    <3> DEFINE put == Put(whole, bare, name)
    <3>1. urlMap' = put
      BY <1>1, <2>6 DEF PutLocation, bare, whole
    <3>2. /\ put \in Seq(Address)
          /\ \A e, f \in DOMAIN put : put[e].key = put[f].key => e = f
          /\ \A e \in DOMAIN put :
                \/ put[e].key = bare /\ put[e].value = name
                \/ \E f \in DOMAIN whole : put[e] = whole[f]
          /\ \A f \in DOMAIN whole : \E e \in DOMAIN put : put[e].key = whole[f].key
      BY <1>2, <2>2, <2>3, PutIs
    <3> HIDE DEF put
    <3>3. ASSUME NEW e \in DOMAIN put
          PROVE  \/ /\ put[e].key # NoName /\ put[e].key \in {part.loc, bare}
                    /\ put[e].value = name
                 \/ \E f \in DOMAIN urlMap : put[e] = urlMap[f]
      <4>1. CASE put[e].key = bare /\ put[e].value = name
        BY <2>6, <4>1
      <4>2. CASE \E f \in DOMAIN whole : put[e] = whole[f]
        BY <2>2, <2>6, <4>2
      <4> QED
        BY <3>2, <4>1, <4>2
    <3>4. \A f \in DOMAIN urlMap : \E e \in DOMAIN put : put[e].key = urlMap[f].key
      <4> SUFFICES ASSUME NEW f \in DOMAIN urlMap
                   PROVE  \E e \in DOMAIN put : put[e].key = urlMap[f].key
        OBVIOUS
      <4>1. PICK e \in DOMAIN whole : whole[e].key = urlMap[f].key
        BY <2>2
      <4>2. PICK d \in DOMAIN put : put[d].key = whole[e].key
        BY <3>2
      <4> QED
        BY <4>1, <4>2
    <3>5. \E e \in DOMAIN put : put[e].key = part.loc
      <4>1. PICK e \in DOMAIN whole : whole[e].key = part.loc
        BY <2>2
      <4>2. PICK d \in DOMAIN put : put[d].key = whole[e].key
        BY <3>2
      <4> QED
        BY <4>1, <4>2
    <3> QED
      BY <2>6, <3>1, <3>2, <3>3, <3>4, <3>5 DEF bare
  <2> QED
    BY <2>4, <2>5, <2>6
<1>8. ASSUME NEW e \in DOMAIN urlMap' PROVE \E i \in DOMAIN placed' : OfPart(e, i)
  <2>1. CASE /\ part.loc # NoName /\ urlMap'[e].key # NoName
             /\ urlMap'[e].key \in {part.loc, SafeFilename(part.loc, NoName)}
             /\ urlMap'[e].value = name
    <3>1. OfPart(e, n + 1)
      BY <1>3, <1>4, <2>1
    <3> HIDE DEF OfPart
    <3> QED
      BY <1>4, <3>1
  <2>2. CASE \E f \in DOMAIN urlMap : urlMap'[e] = urlMap[f]
    <3>1. PICK f \in DOMAIN urlMap : urlMap'[e] = urlMap[f]
      BY <2>2
    <3>2. PICK i \in DOMAIN placed :
            /\ urlMap[f].key # NoName /\ placed[i].part.loc # NoName
            /\ urlMap[f].key \in {placed[i].part.loc, SafeFilename(placed[i].part.loc, NoName)}
            /\ urlMap[f].value = placed[i].name
      BY DEF MapsInv
    <3>3. placed'[i] = placed[i] /\ i \in DOMAIN placed'
      BY <1>4
    <3>4. OfPart(e, i)
      BY <3>1, <3>2, <3>3
    <3> HIDE DEF OfPart
    <3> QED
      BY <3>3, <3>4
  <2> QED
    BY <1>7, <2>1, <2>2
<1>9. ASSUME NEW i \in DOMAIN placed', placed'[i].part.loc # NoName
      PROVE  \E e \in DOMAIN urlMap' : urlMap'[e].key = placed'[i].part.loc
  <2>1. CASE i \in 1..n
    <3>1. placed'[i] = placed[i] /\ i \in DOMAIN placed
      BY <1>4, <2>1
    <3>2. PICK f \in DOMAIN urlMap : urlMap[f].key = placed[i].part.loc
      BY <1>9, <3>1 DEF MapsInv
    <3> QED
      BY <1>7, <3>1, <3>2
  <2>2. CASE i = n + 1
    BY <1>3, <1>4, <1>7, <1>9, <2>2
  <2> QED
    BY <1>4, <2>1, <2>2
<1>10. /\ cidMap' \in Seq(Address)
       /\ \A e, f \in DOMAIN cidMap' : cidMap'[e].key = cidMap'[f].key => e = f
       /\ \A e \in DOMAIN cidMap' :
             \/ cidMap'[e].key = part.cid /\ part.cid # NoName /\ cidMap'[e].value = name
             \/ \E f \in DOMAIN cidMap : cidMap'[e] = cidMap[f]
       /\ \A f \in DOMAIN cidMap : \E e \in DOMAIN cidMap' : cidMap'[e].key = cidMap[f].key
       /\ part.cid # NoName => \E e \in DOMAIN cidMap' : cidMap'[e].key = part.cid
  <2>1. /\ cidMap \in Seq(Address)
        /\ \A e, f \in DOMAIN cidMap : cidMap[e].key = cidMap[f].key => e = f
    BY DEF MapsInv
  <2>2. CASE part.cid = NoName
    <3>1. cidMap' = cidMap
      BY <1>1, <2>2 DEF PutCid
    <3> QED
      BY <2>1, <2>2, <3>1
  <2>3. CASE part.cid # NoName
    <3>1. cidMap' = Put(cidMap, part.cid, name)
      BY <1>1, <2>3 DEF PutCid
    <3> DEFINE put == Put(cidMap, part.cid, name)
    <3>2. part.cid \in Seq(Tokens) /\ name \in Seq(Tokens)
      BY <1>2, <1>6
    <3>3. /\ put \in Seq(Address)
          /\ \A e, f \in DOMAIN put : put[e].key = put[f].key => e = f
          /\ \A e \in DOMAIN put :
                \/ put[e].key = part.cid /\ put[e].value = name
                \/ \E f \in DOMAIN cidMap : put[e] = cidMap[f]
          /\ \A f \in DOMAIN cidMap : \E e \in DOMAIN put : put[e].key = cidMap[f].key
          /\ \E e \in DOMAIN put : put[e].key = part.cid
      BY ONLY <2>1, <3>2, PutIs
    <3> HIDE DEF put
    <3> QED
      BY <2>3, <3>1, <3>3 DEF put
  <2> QED
    BY <2>2, <2>3
<1>11. ASSUME NEW e \in DOMAIN cidMap'
       PROVE  \E i \in DOMAIN placed' : /\ cidMap'[e].key # NoName
                                        /\ cidMap'[e].key = placed'[i].part.cid
                                        /\ cidMap'[e].value = placed'[i].name
  <2>1. CASE cidMap'[e].key = part.cid /\ part.cid # NoName /\ cidMap'[e].value = name
    BY <1>3, <1>4, <2>1
  <2>2. CASE \E f \in DOMAIN cidMap : cidMap'[e] = cidMap[f]
    <3>1. PICK f \in DOMAIN cidMap : cidMap'[e] = cidMap[f]
      BY <2>2
    <3>2. PICK i \in DOMAIN placed : /\ cidMap[f].key # NoName
                                     /\ cidMap[f].key = placed[i].part.cid
                                     /\ cidMap[f].value = placed[i].name
      BY DEF MapsInv
    <3>3. placed'[i] = placed[i] /\ i \in DOMAIN placed'
      BY <1>4
    <3> QED
      BY <3>1, <3>2, <3>3
  <2> QED
    BY <1>10, <2>1, <2>2
<1>12. ASSUME NEW i \in DOMAIN placed', placed'[i].part.cid # NoName
       PROVE  \E e \in DOMAIN cidMap' : cidMap'[e].key = placed'[i].part.cid
  <2>1. CASE i \in 1..n
    <3>1. placed'[i] = placed[i] /\ i \in DOMAIN placed
      BY <1>4, <2>1
    <3>2. PICK f \in DOMAIN cidMap : cidMap[f].key = placed[i].part.cid
      BY <1>12, <3>1 DEF MapsInv
    <3> QED
      BY <1>10, <3>1, <3>2
  <2>2. CASE i = n + 1
    BY <1>3, <1>4, <1>10, <1>12, <2>2
  <2> QED
    BY <1>4, <2>1, <2>2
<1> QED
  BY <1>5, <1>7, <1>8, <1>9, <1>10, <1>11, <1>12 DEF MapsInv
LEMMA MapsInductive == StoreInv /\ MapsInv /\ [Next]_vars => MapsInv'
<1> SUFFICES ASSUME StoreInv, MapsInv, [Next]_vars PROVE MapsInv'
  OBVIOUS
<1>1. CASE UNCHANGED <<placed, cidMap, urlMap>>
  BY <1>1 DEF MapsInv
<1>2. CASE \E part \in Part : StorePart(part)
  BY <1>2, PartMapped
<1>3. UNCHANGED <<placed, cidMap, urlMap>> \/ \E part \in Part : StorePart(part)
  <2>1. CASE BeginWalk \/ Unreadable \/ EndWalk \/ NoPage \/ RewriteLinks \/ WritePage
    BY <2>1 DEF BeginWalk, Unreadable, EndWalk, NoPage, RewriteLinks, WritePage
  <2>2. CASE SkipPart \/ TakeRoot \/ CapReached
    BY <2>2 DEF SkipPart, TakeRoot, CapReached
  <2>3. CASE \E part \in Part : StoreFails(part)
    BY <2>3 DEF StoreFails
  <2>4. CASE UNCHANGED mhtVars
    BY <2>4 DEF mhtVars
  <2> QED
    BY <2>1, <2>2, <2>3, <2>4 DEF Next, Detect, Unpack, Extract, Boost, Inject, Write, vars
<1> QED
  BY <1>1, <1>2, <1>3

-----------------------------------------------------------------------------
(* Plain names.                                                            *)

NoDirectory(name) == \A i \in DOMAIN name : name[i] \notin Directories

\* One run of a name, from its first token that is not "_" to its last.
RunOf(bare, name, lo, hi) ==
    /\ lo \in 1..Len(name) /\ hi \in 1..Len(name) /\ lo <= hi
    /\ Len(bare) = hi - lo + 1
    /\ name[lo] # "_"
    /\ \A i \in 1..Len(name) : name[i] # "_" => lo <= i /\ i <= hi
    /\ \A i \in 1..(hi - lo + 1) : bare[i] = name[lo + i - 1]

\* What is kept of a name is one run of it.
LEMMA StrippedRun ==
    ASSUME NEW name \in Seq(Tokens), Stripped(name) # NoName
    PROVE  LET bare == Stripped(name)
           IN  bare \in Seq(Tokens) /\ \E lo, hi : RunOf(bare, name, lo, hi)
<1> DEFINE bare == Stripped(name)
           n == Len(name)
<1>1. PICK lo \in 1..n : \E hi \in 1..n :
              /\ name[lo] # "_" /\ name[hi] # "_"
              /\ \A i \in 1..n : name[i] # "_" => lo <= i /\ i <= hi
              /\ bare = SubSeq(name, lo, hi)
  BY StrippedFacts
<1>2. PICK hi \in 1..n :
              /\ name[lo] # "_" /\ name[hi] # "_"
              /\ \A i \in 1..n : name[i] # "_" => lo <= i /\ i <= hi
              /\ bare = SubSeq(name, lo, hi)
  BY <1>1
<1>3. n \in Nat /\ \A i \in 1..n : name[i] \in Tokens
  BY LenProperties, ElementOfSeq
<1>4. bare \in Seq(Tokens)
  BY StrippedType
<1> HIDE DEF bare, n
<1>5. lo \in Int /\ hi \in Int /\ lo <= hi /\ \A i \in lo..hi : name[i] \in Tokens
  <2>1. lo <= hi
    BY <1>2
  <2> QED
    BY <1>3, <2>1
<1>6. /\ Len(bare) = IF lo <= hi THEN hi - lo + 1 ELSE 0
      /\ \A i \in 1..(hi - lo + 1) : bare[i] = name[lo + i - 1]
  <2> DEFINE x == SubSeq(name, lo, hi)
  <2>1. /\ Len(x) = IF lo <= hi THEN hi - lo + 1 ELSE 0
        /\ \A i \in 1..(hi - lo + 1) : x[i] = name[lo + i - 1]
    BY <1>5, SubSeqProperties
  <2> QED
    BY <1>2, <2>1
<1>7. Len(bare) = hi - lo + 1
  BY <1>5, <1>6
<1>8. RunOf(bare, name, lo, hi)
  BY <1>2, <1>5, <1>6, <1>7 DEF RunOf, n
<1> QED
  BY <1>4, <1>8 DEF bare

\* A safe name has no directory.
LEMMA SafeIsPlain ==
    ASSUME NEW loc \in Locations
    PROVE  LET bare == Stripped(Underscored(LastSegment(loc)))
           IN  bare \in Seq(Tokens) /\ NoDirectory(bare)
<1> DEFINE seg == LastSegment(loc)
           name == Underscored(seg)
           bare == Stripped(name)
<1>1. seg \in Seq(Tokens) /\ \A i \in 1..Len(seg) : seg[i] \notin Directories
  <2>1. seg \in Seq(Tokens) /\ \A i \in DOMAIN seg : seg[i] \notin Directories
    BY LocationFacts
  <2> QED
    BY <2>1, LenProperties
<1> HIDE DEF seg
<1>2. /\ name \in Seq(Tokens) /\ Len(name) = Len(seg)
      /\ \A i \in 1..Len(seg) : name[i] = IF seg[i] \in Unsafe THEN "_" ELSE seg[i]
  BY <1>1, UnderscoredType
<1>3. Len(name) \in Nat /\ \A i \in 1..Len(name) : name[i] \notin Directories
  BY <1>1, <1>2, TokenAssumption, LenProperties
<1> HIDE DEF name
<1>4. bare \in Seq(Tokens)
  BY <1>2, StrippedType
<1>5. CASE bare = NoName
  <2>1. DOMAIN bare = {}
    BY <1>5 DEF NoName
  <2> QED
    BY <1>4, <2>1 DEF NoDirectory, name, seg
<1>6. CASE bare # NoName
  <2>0. PICK lo, hi : RunOf(bare, name, lo, hi)
    BY <1>2, <1>6, StrippedRun
  <2>1. /\ lo \in 1..Len(name) /\ hi \in 1..Len(name)
        /\ lo <= hi /\ Len(bare) = hi - lo + 1
        /\ \A i \in 1..(hi - lo + 1) : bare[i] = name[lo + i - 1]
    BY <2>0 DEF RunOf
  <2> HIDE DEF bare
  <2>4. ASSUME NEW i \in 1..Len(bare) PROVE bare[i] \notin Directories
    <3>1. i \in 1..(hi - lo + 1) /\ lo + i - 1 \in 1..Len(name)
      BY <1>3, <2>1
    <3> QED
      BY <1>3, <2>1, <3>1
  <2>5. DOMAIN bare = 1..Len(bare)
    BY <1>4, LenProperties
  <2> QED
    BY <1>4, <2>4, <2>5 DEF NoDirectory, bare, name, seg
<1> QED
  BY <1>5, <1>6

\* A name that needed a number is not the bare name it was asked for: what
\* precedes the number would have to be the safe spelling of the whole.
LEMMA NumberedIsNot ==
    ASSUME NEW seg \in Seq(Tokens), NEW name \in Seq(Tokens), NEW bare \in Seq(Tokens),
           NEW d \in Tokens, d # "_", d \notin Unsafe,
           Len(name) = Len(seg),
           \A i \in 1..Len(seg) : name[i] = IF seg[i] \in Unsafe THEN "_" ELSE seg[i],
           NEW lo, NEW hi, RunOf(bare, name, lo, hi)
    PROVE  Append(bare, d) # seg
<1> DEFINE x == Append(bare, d)
           l == Len(seg)
           m == Len(bare)
<1>1. bare \in Seq(Tokens) /\ d \in Tokens /\ seg \in Seq(Tokens)
  OBVIOUS
<1>2. m \in Nat /\ Len(x) = m + 1 /\ x[m + 1] = d /\ \A i \in 1..m : x[i] = bare[i]
  BY ONLY <1>1, AppendProperties, LenProperties
<1>3. l \in Nat
  BY ONLY <1>1, LenProperties
<1>4. \A i \in 1..l : name[i] = IF seg[i] \in Unsafe THEN "_" ELSE seg[i]
  OBVIOUS
<1>5. Len(name) = l /\ d # "_" /\ d \notin Unsafe
  OBVIOUS
<1>6. lo \in 1..l /\ hi \in 1..l /\ lo <= hi /\ m = hi - lo + 1
  <2>1. RunOf(bare, name, lo, hi)
    OBVIOUS
  <2> QED
    BY ONLY <1>5, <2>1 DEF RunOf
<1>8. /\ name[lo] # "_"
      /\ \A i \in 1..l : name[i] # "_" => lo <= i /\ i <= hi
      /\ \A i \in 1..(hi - lo + 1) : bare[i] = name[lo + i - 1]
  <2>1. RunOf(bare, name, lo, hi)
    OBVIOUS
  <2> QED
    BY ONLY <1>5, <2>1 DEF RunOf
<1> HIDE DEF x, l, m
<1>9. ASSUME x = seg PROVE FALSE
  <2>0. l = m + 1
    BY ONLY <1>2, <1>9 DEF l
  <2>1. l = m + 1 /\ seg[l] = d /\ seg[1] = bare[1] /\ 1 \in 1..m
    <3>1. m >= 1
      BY ONLY <1>3, <1>6
    <3>2. 1 \in 1..m
      BY ONLY <1>2, <3>1
    <3> QED
      BY ONLY <1>2, <1>9, <3>2 DEF l
  <2>2. l \in 1..l /\ name[l] = d
    <3>1. l \in 1..l
      BY ONLY <1>3, <1>6
    <3> QED
      BY ONLY <1>4, <1>5, <2>1, <3>1
  <2>3. l <= hi
    BY ONLY <1>5, <1>8, <2>2
  <2>4. hi = l /\ lo = 2
    BY ONLY <1>3, <1>6, <2>0, <2>3
  <2>5. 1 \in 1..l /\ 2 \in 1..l /\ 1 \in 1..(hi - lo + 1) /\ lo + 1 - 1 = 2 /\ ~(lo <= 1)
    BY ONLY <1>3, <1>6, <2>4
  <2>6. seg[1] = name[2] /\ name[2] # "_" /\ name[1] = "_"
    BY ONLY <1>8, <2>1, <2>4, <2>5
  <2>7. seg[1] \in Unsafe /\ seg[2] \notin Unsafe /\ seg[2] = name[2]
    BY ONLY <1>4, <2>5, <2>6
  <2> QED
    BY ONLY <2>6, <2>7
<1> QED
  BY ONLY <1>9 DEF x

LEMMA NumberShows ==
    ASSUME NEW seg \in Seq(Tokens), NEW n \in DOMAIN Numbers,
           Stripped(Underscored(seg)) # NoName
    PROVE  Append(Stripped(Underscored(seg)), Numbers[n]) # seg
<1>1. Numbers[n] \in Tokens /\ Numbers[n] # "_" /\ Numbers[n] \notin Unsafe
  <2>1. Numbers \in Seq(Tokens) /\ Numbers[n] \notin Directories \cup Unsafe \cup {"_"}
    BY TokenAssumption
  <2> QED
    BY <2>1, LenProperties, ElementOfSeq
<1> DEFINE name == Underscored(seg)
<1>2. /\ name \in Seq(Tokens) /\ Len(name) = Len(seg)
      /\ \A i \in 1..Len(seg) : name[i] = IF seg[i] \in Unsafe THEN "_" ELSE seg[i]
  BY UnderscoredType
<1> HIDE DEF name
<1> DEFINE bare == Stripped(name)
<1>3. bare \in Seq(Tokens)
  BY <1>2, StrippedType
<1>4. PICK lo, hi : RunOf(bare, name, lo, hi)
  BY <1>2, StrippedRun DEF name
<1> HIDE DEF bare
<1> DEFINE d == Numbers[n]
<1>5. d \in Tokens /\ d # "_" /\ d \notin Unsafe
  BY <1>1
<1> HIDE DEF d
<1>6. Append(bare, d) # seg
  BY <1>2, <1>3, <1>4, <1>5, NumberedIsNot
<1> QED
  BY <1>6 DEF name, bare, d

\* The names of the files have no directory.
LEMMA NamesPlain ==
    ASSUME StoreInv, MapsInv, NEW i \in DOMAIN placed
    PROVE  /\ placed[i] \in Stored /\ placed[i].part \in Part
           /\ placed[i].name \in Seq(Tokens) /\ NoDirectory(placed[i].name)
<1> DEFINE part == placed[i].part
           name == placed[i].name
<1>1. placed[i] \in Stored /\ part \in Part /\ name \in Seq(Tokens)
  <2>1. placed[i] \in Stored
    BY LenProperties, ElementOfSeq DEF StoreInv
  <2> QED
    BY <2>1 DEF Stored
<1>2. name = Base(part) \/ \E n \in DOMAIN Numbers : name = Append(Base(part), Numbers[n])
  BY DEF MapsInv
<1> HIDE DEF part, name
<1>3. Base(part) \in Seq(Tokens) /\ NoDirectory(Base(part))
  <2>1. part.loc \in Locations /\ part.payload \in Payloads
    BY <1>1 DEF Part
  <2>2. /\ Stripped(Underscored(LastSegment(part.loc))) \in Seq(Tokens)
        /\ NoDirectory(Stripped(Underscored(LastSegment(part.loc))))
    BY <2>1, SafeIsPlain
  <2>3. Fallback(part) \in Seq(Tokens) /\ NoDirectory(Fallback(part))
    <3>1. "part" \in Tokens \ Directories /\ part.payload \in Tokens \ Directories
      BY <2>1, TokenAssumption
    <3> DEFINE f == <<"part", part.payload>>
    <3>2. f \in Seq(Tokens)
      BY <3>1, PairSeq
    <3>3. DOMAIN f = 1..2 /\ f[1] = "part" /\ f[2] = part.payload
      OBVIOUS
    <3>4. \A j \in DOMAIN f : f[j] \notin Directories
      <4>1. \A j \in 1..2 : j = 1 \/ j = 2
        OBVIOUS
      <4> HIDE DEF f
      <4> QED
        BY <3>1, <3>3, <4>1
    <3> QED
      BY <3>2, <3>4 DEF Fallback, NoDirectory
  <2> QED
    BY <2>2, <2>3 DEF Base, SafeFilename
<1>4. ASSUME NEW n \in DOMAIN Numbers, name = Append(Base(part), Numbers[n])
      PROVE  NoDirectory(name)
  <2> DEFINE base == Base(part)
             d == Numbers[n]
  <2>1. d \in Tokens /\ d \notin Directories
    <3>1. Numbers \in Seq(Tokens) /\ d \notin Directories \cup Unsafe \cup {"_"}
      BY TokenAssumption
    <3> QED
      BY <3>1, LenProperties, ElementOfSeq
  <2> HIDE DEF d
  <2>2. base \in Seq(Tokens) /\ Len(base) \in Nat /\ \A j \in 1..Len(base) : base[j] \notin Directories
    BY <1>3, LenProperties DEF NoDirectory
  <2> HIDE DEF base
  <2>3. /\ Append(base, d) \in Seq(Tokens)
        /\ Len(Append(base, d)) = Len(base) + 1
        /\ \A j \in 1..Len(base) : Append(base, d)[j] = base[j]
        /\ Append(base, d)[Len(base) + 1] = d
    BY <2>1, <2>2, AppendProperties
  <2>4. name = Append(base, d)
    BY <1>4 DEF base, d
  <2>5. ASSUME NEW j \in DOMAIN name PROVE name[j] \notin Directories
    <3>1. j \in 1..(Len(base) + 1)
      BY <2>3, <2>4, LenProperties
    <3>2. j \in 1..Len(base) \/ j = Len(base) + 1
      BY <2>2, <3>1
    <3> QED
      BY <2>1, <2>2, <2>3, <2>4, <3>2
  <2> QED
    BY <2>5 DEF NoDirectory
<1>5. NoDirectory(name)
  BY <1>2, <1>3, <1>4
<1> QED
  BY <1>1, <1>5 DEF part, name

\* With plain names a key without a directory is the name it leads to.
PlainKeys ==
    /\ urlMap \in Seq(Address)
    /\ \A e, f \in DOMAIN urlMap : urlMap[e].key = urlMap[f].key => e = f
    /\ \A e \in DOMAIN urlMap :
          /\ urlMap[e].key # NoName
          /\ NoDirectory(urlMap[e].key) => urlMap[e].value = urlMap[e].key

LEMMA KeysPlain ==
    ASSUME StoreInv, MapsInv, PlainNames
    PROVE  PlainKeys
<1>1. ASSUME NEW e \in DOMAIN urlMap, NoDirectory(urlMap[e].key)
      PROVE  urlMap[e].value = urlMap[e].key
  <2>1. PICK i \in DOMAIN placed :
            /\ urlMap[e].key # NoName /\ placed[i].part.loc # NoName
            /\ urlMap[e].key \in {placed[i].part.loc, SafeFilename(placed[i].part.loc, NoName)}
            /\ urlMap[e].value = placed[i].name
    BY DEF MapsInv
  <2> DEFINE part == placed[i].part
             loc == part.loc
             seg == LastSegment(loc)
             bare == Stripped(Underscored(seg))
  <2>2. part \in Part /\ loc \in Locations /\ loc \in Seq(Tokens) /\ seg \in Seq(Tokens)
    <3>1. part \in Part
      BY NamesPlain
    <3>2. loc \in Locations
      BY <3>1 DEF Part
    <3> QED
      BY <3>1, <3>2, LocationFacts
  <2>3. seg # NoName => placed[i].name = seg
    BY DEF PlainNames
  <2>4. CASE urlMap[e].key = loc
    <3>1. seg = loc
      <4>1. loc # NoName /\ NoDirectory(loc)
        BY <1>1, <2>1, <2>4
      <4>2. 1 \in DOMAIN loc /\ Head(loc) = loc[1]
        BY <2>2, <4>1 DEF NoName
      <4> QED
        BY <4>1, <4>2 DEF LastSegment, NoDirectory
    <3> QED
      BY <2>1, <2>3, <2>4, <3>1
  <2>5. CASE urlMap[e].key = SafeFilename(loc, NoName)
    <3>1. bare # NoName /\ urlMap[e].key = bare /\ Base(part) = bare
      BY <2>1, <2>5 DEF SafeFilename, Base
    <3>2. seg # NoName
      <4> SUFFICES ASSUME seg = NoName PROVE FALSE
        OBVIOUS
      <4>1. Len(seg) = 0 /\ Underscored(seg) \in Seq(Tokens) /\ Len(Underscored(seg)) = 0
        BY <2>2, UnderscoredType, EmptySeq DEF NoName
      <4>2. \E lo, hi \in 1..Len(Underscored(seg)) : TRUE
        BY <3>1, <4>1, StrippedFacts
      <4> QED
        BY <4>1, <4>2
    <3>3. \/ placed[i].name = Base(part)
          \/ \E n \in DOMAIN Numbers : placed[i].name = Append(Base(part), Numbers[n])
      BY DEF MapsInv
    <3>4. \A n \in DOMAIN Numbers : Append(bare, Numbers[n]) # seg
      BY <2>2, <3>1, NumberShows
    <3>5. placed[i].name = bare
      BY <2>3, <3>1, <3>2, <3>3, <3>4
    <3> QED
      BY <2>1, <3>1, <3>5
  <2> QED
    BY <2>1, <2>4, <2>5
<1>2. /\ urlMap \in Seq(Address)
      /\ \A e, f \in DOMAIN urlMap : urlMap[e].key = urlMap[f].key => e = f
      /\ \A e \in DOMAIN urlMap : urlMap[e].key # NoName
  BY DEF MapsInv
<1> QED
  BY <1>1, <1>2 DEF PlainKeys
-----------------------------------------------------------------------------
(* The links.                                                              *)

\* No key changes a link that has no directory: the keys that stand in it lead
\* to themselves.
LEMMA NameStands ==
    ASSUME PlainKeys, NEW name \in Seq(Tokens), NoDirectory(name), NEW k \in DOMAIN urlMap
    PROVE  ReplaceKey(k, name) = name
<1> DEFINE key == urlMap[k].key
           value == urlMap[k].value
<1>1. key \in Seq(Tokens) /\ key # NoName
  BY KeyFacts DEF PlainKeys
<1>2. NoDirectory(key) => value = key
  BY DEF PlainKeys
<1>3. ReplaceKey(k, name) = ReplaceFirstSubSeq(value, key, name)
  BY DEF ReplaceKey
<1> HIDE DEF key, value
<1>4. CASE key \notin SubSeqs(name)
  BY <1>3, <1>4 DEF ReplaceFirstSubSeq
<1>5. CASE key \in SubSeqs(name)
  <2>1. \A i \in 1..Len(name) : name[i] \notin Directories
    BY LenProperties DEF NoDirectory
  <2>2. PICK a \in 0..Len(name) : /\ a + Len(key) <= Len(name)
                                  /\ \A i \in 1..Len(key) : key[i] = name[a + i]
    BY <1>5, SubSeqStands
  <2>3. Len(key) \in Nat \ {0} /\ DOMAIN key = 1..Len(key) /\ Len(name) \in Nat
    BY <1>1, EmptySeq, LenProperties DEF NoName
  <2>4. \A i \in 1..Len(key) : a + i \in 1..Len(name)
    BY <2>2, <2>3
  <2>5. NoDirectory(key)
    BY <2>1, <2>2, <2>3, <2>4 DEF NoDirectory
  <2>6. name \in Seq(Tokens) /\ key \in Seq(Tokens) /\ Len(key) > 0
    BY <1>1, <2>3
  <2>7. ReplaceFirstSubSeq(key, key, name) = name
    BY ONLY <2>6, ReplaceSame
  <2> QED
    BY <1>2, <1>3, <2>5, <2>7
<1> QED
  BY <1>4, <1>5

\* No key changes a link that is no longer and not the key.
LEMMA LinkStands ==
    ASSUME urlMap \in Seq(Address), NEW link \in Seq(Tokens), NEW k \in DOMAIN urlMap,
           Len(urlMap[k].key) >= Len(link), urlMap[k].key # link
    PROVE  ReplaceKey(k, link) = link
<1> DEFINE key == urlMap[k].key
<1>1. key \in Seq(Tokens) /\ Len(key) \in Nat /\ Len(link) \in Nat
  BY KeyFacts, LenProperties
<1>2. key \in SubSeqs(link) => Len(key) <= Len(link) /\ (Len(key) = Len(link) => key = link)
  BY WholeSubSeq
<1>3. Len(key) >= Len(link) /\ key # link
  OBVIOUS
<1>4. ReplaceKey(k, link) = ReplaceFirstSubSeq(urlMap[k].value, key, link)
  BY DEF ReplaceKey
<1> HIDE DEF key
<1>5. key \notin SubSeqs(link)
  BY ONLY <1>1, <1>2, <1>3
<1> QED
  BY <1>4, <1>5 DEF ReplaceFirstSubSeq

\* The last key is one that is there.
LEMMA LastOfAll ==
    ASSUME urlMap \in Seq(Address), urlMap # <<>>
    PROVE  /\ LastKey(DOMAIN urlMap) \in DOMAIN urlMap
           /\ \A i \in DOMAIN urlMap \ {LastKey(DOMAIN urlMap)} : Before(i, LastKey(DOMAIN urlMap))
<1>1. DOMAIN urlMap # {}
  <2>1. DOMAIN urlMap = {} => Len(urlMap) = 0
    BY KeyFacts
  <2> QED
    BY <2>1, EmptySeq
<1>2. DOMAIN urlMap \in SUBSET (DOMAIN urlMap)
  OBVIOUS
<1> QED
  BY <1>1, <1>2, LastKeyIs

LEMMA LastOfEarlier ==
    ASSUME urlMap \in Seq(Address), NEW k \in DOMAIN urlMap, Earlier(k) # {}
    PROVE  /\ LastKey(Earlier(k)) \in DOMAIN urlMap /\ Before(LastKey(Earlier(k)), k)
           /\ \A i \in Earlier(k) \ {LastKey(Earlier(k))} : Before(i, LastKey(Earlier(k)))
<1>1. Earlier(k) \in SUBSET (DOMAIN urlMap)
  BY DEF Earlier
<1>2. /\ LastKey(Earlier(k)) \in Earlier(k)
      /\ \A i \in Earlier(k) \ {LastKey(Earlier(k))} : Before(i, LastKey(Earlier(k)))
  BY <1>1, LastKeyIs
<1> QED
  BY <1>1, <1>2 DEF Earlier

\* A link without a directory is left alone.
LEMMA NameIsKept ==
    ASSUME PlainKeys, NEW name \in Seq(Tokens), NoDirectory(name)
    PROVE  RewriteUrl(name) = name
<1> DEFINE f == [k \in DOMAIN urlMap |-> name]
<1>1. urlMap \in Seq(Address)
  BY DEF PlainKeys
<1>2. \A k \in DOMAIN urlMap : f[k] = name
  OBVIOUS
<1>3. ASSUME NEW k \in DOMAIN urlMap
      PROVE  name = ReplaceKey(k, IF Earlier(k) = {} THEN name ELSE f[LastKey(Earlier(k))])
  <2>1. ReplaceKey(k, name) = name
    BY NameStands
  <2>2. Earlier(k) # {} => f[LastKey(Earlier(k))] = name
    <3> HIDE DEF f
    <3> QED
      BY <1>1, <1>2, LastOfEarlier
  <2> HIDE DEF f
  <2> QED
    BY <2>1, <2>2
<1>4. Rewrites(name, f)
  BY <1>3 DEF Rewrites
<1> HIDE DEF f
<1>5. RewriteUrl(name) = IF urlMap = <<>> THEN name ELSE f[LastKey(DOMAIN urlMap)]
  BY <1>1, <1>4, RewriteIs
<1>6. urlMap # <<>> => f[LastKey(DOMAIN urlMap)] = name
  BY <1>1, <1>2, LastOfAll
<1> QED
  BY <1>5, <1>6

\* A link that is a key becomes the name the key leads to: the keys before it
\* are no shorter and stand nowhere in the link, those after it change no name.
LEMMA KeyIsRewritten ==
    ASSUME PlainKeys, NEW e \in DOMAIN urlMap, NoDirectory(urlMap[e].value)
    PROVE  RewriteUrl(urlMap[e].key) = urlMap[e].value
<1> DEFINE link == urlMap[e].key
           name == urlMap[e].value
           f == [k \in DOMAIN urlMap |-> IF k = e \/ Before(e, k) THEN name ELSE link]
<1>1. urlMap \in Seq(Address) /\ \A k \in DOMAIN urlMap : urlMap[k].key = link => k = e
  BY DEF PlainKeys
<1>2. link \in Seq(Tokens) /\ name \in Seq(Tokens) /\ NoDirectory(name) /\ Len(link) > 0
  <2>1. link \in Seq(Tokens) /\ name \in Seq(Tokens) /\ link # NoName
    BY <1>1, KeyFacts DEF PlainKeys
  <2>2. Len(link) \in Nat /\ Len(link) # 0
    BY <2>1, EmptySeq, LenProperties DEF NoName
  <2> QED
    BY <2>1, <2>2
<1>3. \A k \in DOMAIN urlMap : f[k] = IF k = e \/ Before(e, k) THEN name ELSE link
  OBVIOUS
<1>4. ReplaceKey(e, link) = name
  <2>1. ReplaceFirstSubSeq(name, link, link) = name
    <3> HIDE DEF link, name
    <3> QED
      BY ONLY <1>2, ReplaceWhole
  <2> QED
    BY <2>1 DEF ReplaceKey
<1>5. ASSUME NEW k \in DOMAIN urlMap, Before(k, e) PROVE ReplaceKey(k, link) = link
  <2>1. Len(urlMap[k].key) >= Len(link)
    <3>1. Len(urlMap[k].key) \in Nat /\ Len(link) \in Nat
      BY <1>1, KeyFacts
    <3> QED
      BY <1>5, <3>1 DEF Before
  <2>2. urlMap[k].key # link
    BY <1>1, <1>5, BeforeIsOrder
  <2> HIDE DEF link
  <2> QED
    BY <1>1, <1>2, <2>1, <2>2, LinkStands
<1>6. \A k \in DOMAIN urlMap : ReplaceKey(k, name) = name
  BY <1>2, NameStands
<1> HIDE DEF link, name, f
<1>7. ASSUME NEW k \in DOMAIN urlMap
      PROVE  f[k] = ReplaceKey(k, IF Earlier(k) = {} THEN link ELSE f[LastKey(Earlier(k))])
  <2> DEFINE last == LastKey(Earlier(k))
  <2>1. /\ Earlier(k) # {} => last \in DOMAIN urlMap /\ Before(last, k)
        /\ Earlier(k) # {} => \A i \in Earlier(k) \ {last} : Before(i, last)
    BY <1>1, LastOfEarlier
  <2> HIDE DEF last
  <2>2. CASE k = e
    <3>1. ASSUME Earlier(k) # {} PROVE f[last] = link
      <4>1. last # e /\ ~Before(e, last)
        BY <1>1, <2>1, <2>2, <3>1, BeforeIsOrder
      <4> QED
        BY <1>3, <2>1, <3>1, <4>1
    <3> QED
      BY <1>3, <1>4, <2>2, <3>1 DEF last
  <2>3. CASE Before(e, k)
    <3>1. e \in Earlier(k)
      BY <2>3 DEF Earlier
    <3>2. last \in DOMAIN urlMap /\ (last = e \/ Before(e, last))
      BY <2>1, <3>1
    <3>3. f[last] = name
      BY <1>3, <3>2
    <3> QED
      BY <1>3, <1>6, <2>3, <3>1, <3>3 DEF last
  <2>4. CASE k # e /\ ~Before(e, k)
    <3>1. Before(k, e)
      BY <1>1, <2>4, BeforeIsOrder
    <3>2. ASSUME Earlier(k) # {} PROVE f[last] = link
      <4>1. last \in DOMAIN urlMap /\ Before(last, k)
        BY <2>1, <3>2
      <4>2. Before(last, e)
        BY <1>1, <3>1, <4>1, BeforeIsOrder
      <4>3. last # e /\ ~Before(e, last)
        BY <1>1, <4>1, <4>2, BeforeIsOrder
      <4> QED
        BY <1>3, <4>1, <4>3
    <3> QED
      BY <1>3, <1>5, <2>4, <3>1, <3>2 DEF last
  <2> QED
    BY <2>2, <2>3, <2>4
<1>8. Rewrites(link, f)
  <2>1. f = [k \in DOMAIN urlMap |-> f[k]]
    BY DEF f
  <2>2. [k \in DOMAIN urlMap |-> f[k]] =
          [k \in DOMAIN urlMap |->
            ReplaceKey(k, IF Earlier(k) = {} THEN link ELSE f[LastKey(Earlier(k))])]
    BY <1>7
  <2> QED
    BY <2>1, <2>2 DEF Rewrites
<1>9. RewriteUrl(link) = IF urlMap = <<>> THEN link ELSE f[LastKey(DOMAIN urlMap)]
  BY <1>1, <1>8, RewriteIs
<1>10. urlMap # <<>>
  BY EmptySeq
<1>11. f[LastKey(DOMAIN urlMap)] = name
  BY <1>1, <1>3, <1>10, LastOfAll
<1> QED
  BY <1>9, <1>10, <1>11 DEF link, name

\* A reference to one part ends as the name of its file.
LEMMA LinkIsRewritten ==
    ASSUME StoreInv, MapsInv, PlainNames, NEW ref \in References, NEW p, Meant(ref) = {p}
    PROVE  RewriteUrl(RewriteCid(ref)) = placed[p].name
<1>1. PlainKeys
  BY KeysPlain
<1>2. p \in DOMAIN placed /\ ref # NoName
  <2>1. p \in Meant(ref)
    OBVIOUS
  <2> QED
    BY <2>1 DEF Meant, References
<1>3. \A i \in DOMAIN placed : placed[i].name \in Seq(Tokens) /\ NoDirectory(placed[i].name)
  BY NamesPlain
<1>4. CASE \E e \in DOMAIN cidMap : CidLink(cidMap[e].key) = ref
  <2> DEFINE c == CHOOSE e \in DOMAIN cidMap : CidLink(cidMap[e].key) = ref
  <2>1. c \in DOMAIN cidMap /\ CidLink(cidMap[c].key) = ref
    BY <1>4
  <2>2. RewriteCid(ref) = cidMap[c].value
    BY <1>4 DEF RewriteCid
  <2> HIDE DEF c
  <2>3. PICK i \in DOMAIN placed : /\ cidMap[c].key # NoName
                                   /\ cidMap[c].key = placed[i].part.cid
                                   /\ cidMap[c].value = placed[i].name
    BY <2>1 DEF MapsInv
  <2>4. i \in Meant(ref)
    BY <2>1, <2>3 DEF Meant
  <2>5. i = p
    BY <2>4
  <2>6. RewriteUrl(placed[p].name) = placed[p].name
    BY <1>1, <1>2, <1>3, NameIsKept
  <2> QED
    BY <2>2, <2>3, <2>5, <2>6
<1>5. CASE ~\E e \in DOMAIN cidMap : CidLink(cidMap[e].key) = ref
  <2>1. RewriteCid(ref) = ref
    BY <1>5 DEF RewriteCid
  <2>2. placed[p].part.loc = ref
    <3>1. \/ placed[p].part.loc = ref
          \/ placed[p].part.cid # NoName /\ ref = CidLink(placed[p].part.cid)
      <4>1. p \in Meant(ref)
        OBVIOUS
      <4> QED
        BY <4>1 DEF Meant
    <3>2. placed[p].part.cid # NoName =>
            \E e \in DOMAIN cidMap : cidMap[e].key = placed[p].part.cid
      BY <1>2 DEF MapsInv
    <3> QED
      BY <1>5, <3>1, <3>2
  <2>3. PICK e \in DOMAIN urlMap : urlMap[e].key = ref
    BY <1>2, <2>2 DEF MapsInv
  <2>4. PICK i \in DOMAIN placed :
            /\ placed[i].part.loc # NoName
            /\ urlMap[e].key \in {placed[i].part.loc, SafeFilename(placed[i].part.loc, NoName)}
            /\ urlMap[e].value = placed[i].name
    BY DEF MapsInv
  <2>5. urlMap[e].value = placed[p].name
    <3>1. CASE placed[i].part.loc = ref
      <4>1. i \in Meant(ref)
        BY <3>1 DEF Meant
      <4> QED
        BY <2>4, <4>1
    <3>2. CASE placed[i].part.loc # ref
      <4> DEFINE loc == placed[i].part.loc
      <4>1. ref = SafeFilename(loc, NoName)
        BY <2>3, <2>4, <3>2
      <4>2. loc \in Locations
        BY NamesPlain DEF Part
      <4>3. ref = Stripped(Underscored(LastSegment(loc)))
        BY <1>2, <4>1 DEF SafeFilename
      <4>4. ref \in Seq(Tokens) /\ NoDirectory(ref)
        BY <4>2, <4>3, SafeIsPlain
      <4>5. urlMap[e].value = ref
        BY <1>1, <2>3, <4>4 DEF PlainKeys
      <4>6. LastSegment(ref) = ref
        <5>1. 1 \in DOMAIN ref /\ Head(ref) = ref[1]
          BY <1>2, <4>4 DEF NoName
        <5> QED
          BY <4>4, <5>1 DEF LastSegment, NoDirectory
      <4>7. placed[p].name = ref
        BY <1>2, <2>2, <4>6 DEF PlainNames
      <4> QED
        BY <4>5, <4>7
    <3> QED
      BY <3>1, <3>2
  <2>6. NoDirectory(urlMap[e].value)
    BY <1>2, <1>3, <2>5
  <2>7. RewriteUrl(urlMap[e].key) = urlMap[e].value
    BY <1>1, <2>6, KeyIsRewritten
  <2> QED
    BY <2>1, <2>3, <2>5, <2>7
<1> QED
  BY <1>4, <1>5

LinksInv == StoreInv /\ MapsInv /\ PlainLinksResolve

LEMMA LinksInductive == LinksInv /\ [Next]_vars => LinksInv'
<1> SUFFICES ASSUME LinksInv, [Next]_vars PROVE LinksInv'
  OBVIOUS
<1>1. StoreInv /\ MapsInv
  BY DEF LinksInv
<1>2. StoreInv' /\ MapsInv'
  BY <1>1, StoreInductive, MapsInductive
<1>3. CASE RewriteLinks
  <2>1. placed' = placed /\ links' = [r \in References |-> RewriteUrl(RewriteCid(r))]
    BY <1>3 DEF RewriteLinks
  <2>2. ASSUME PlainNames', NEW ref \in References, Cardinality(Meant(ref)') = 1
        PROVE  \E i \in Meant(ref)' : links'[ref] = placed'[i].name
    <3>1. Meant(ref)' = Meant(ref) /\ PlainNames
      BY <2>1, <2>2 DEF Meant, PlainNames
    <3>2. \E p : Meant(ref) = {p}
      <4>1. IsFiniteSet(Meant(ref))
        <5>1. Len(placed) \in Nat /\ DOMAIN placed = 1..Len(placed)
          BY <1>1, LenProperties DEF StoreInv
        <5>2. IsFiniteSet(1..Len(placed)) /\ Meant(ref) \in SUBSET (1..Len(placed))
          BY <5>1, FS_Interval DEF Meant
        <5> QED
          BY <5>2, FS_Subset
      <4> QED
        BY <2>2, <3>1, <4>1, FS_Singleton
    <3>3. PICK p : Meant(ref) = {p}
      BY <3>2
    <3>4. RewriteUrl(RewriteCid(ref)) = placed[p].name
      BY <1>1, <3>1, <3>3, LinkIsRewritten
    <3> QED
      BY <2>1, <3>1, <3>3, <3>4
  <2>3. PlainLinksResolve'
    BY <2>2 DEF PlainLinksResolve
  <2> QED
    BY <1>2, <2>3 DEF LinksInv
<1>4. CASE mht' \notin {"rewritten", "page"}
  BY <1>2, <1>4 DEF LinksInv, PlainLinksResolve, Resolved
<1>5. CASE UNCHANGED <<placed, links>> /\ (Resolved' => Resolved)
  <2>1. ASSUME Resolved', PlainNames', NEW ref \in References, Cardinality(Meant(ref)') = 1
        PROVE  \E i \in Meant(ref)' : links'[ref] = placed'[i].name
    <3>1. Meant(ref)' = Meant(ref) /\ PlainNames /\ Resolved
      BY <1>5, <2>1 DEF Meant, PlainNames
    <3> QED
      BY <1>5, <2>1, <3>1 DEF LinksInv, PlainLinksResolve
  <2>2. PlainLinksResolve'
    BY <2>1 DEF PlainLinksResolve
  <2> QED
    BY <1>2, <2>2 DEF LinksInv
<1>6. CASE BeginWalk \/ Unreadable \/ EndWalk \/ NoPage \/ CapReached
  <2>1. mht' \in {"walking", "walked", "none"}
    BY <1>6 DEF BeginWalk, Unreadable, EndWalk, NoPage, CapReached
  <2> QED
    BY <1>4, <2>1
<1>7. CASE SkipPart \/ TakeRoot \/ \E part \in Part : StorePart(part) \/ StoreFails(part)
  <2>1. mht' = "walking"
    BY <1>7 DEF SkipPart, TakeRoot, StorePart, StoreFails, NextPart
  <2> QED
    BY <1>4, <2>1
<1>8. CASE WritePage \/ UNCHANGED mhtVars
  BY <1>5, <1>8 DEF WritePage, mhtVars, Resolved
<1> QED
  BY <1>3, <1>6, <1>7, <1>8 DEF Next, Detect, Unpack, Extract, Boost, Inject, Write, vars

\* In an archive with plain names a reference to one part, by location or by
\* id, ends as the name of that part's file, although the address of one part
\* may be the beginning of another's.
THEOREM PlainLinksEnd == Spec => []PlainLinksResolve
<1>1. Init => LinksInv
  <2>1. Init => PlainLinksResolve
    BY DEF Init, MhtInit, PlainLinksResolve, Resolved
  <2> QED
    BY <2>1, StoreInitInv, MapsInitInv DEF Init, LinksInv
<1>2. LinksInv /\ [Next]_vars => LinksInv'
  BY LinksInductive
<1>3. LinksInv => PlainLinksResolve
  BY DEF LinksInv
<1> QED
  BY <1>1, <1>2, <1>3, PTL DEF Spec

-----------------------------------------------------------------------------
(* The styles.                                                             *)

\* The cascade at the i-th of some open elements, as CascadedStyle has it at
\* the last.
Setters(els, i, property) ==
    {k \in 1..i : els[k].tag \in Containers /\ els[k].own[property] # Nothing}

NearestIn(els, i, property) ==
    IF Setters(els, i, property) = {} THEN Nothing
    ELSE els[CHOOSE k \in Setters(els, i, property) :
                \A j \in Setters(els, i, property) : k >= j].own[property]

StyleIn(els, i) ==
    [color |-> NearestIn(els, i, "color"), weight |-> NearestIn(els, i, "weight")]

\* What the cascade makes of one more element.
LEMMA NearestStep ==
    ASSUME NEW els, NEW i \in Nat, NEW property
    PROVE  NearestIn(els, i + 1, property) =
              IF els[i + 1].tag \in Containers /\ els[i + 1].own[property] # Nothing
              THEN els[i + 1].own[property] ELSE NearestIn(els, i, property)
<1> DEFINE S == Setters(els, i, property)
           T == Setters(els, i + 1, property)
<1>1. CASE els[i + 1].tag \in Containers /\ els[i + 1].own[property] # Nothing
  <2>1. /\ i + 1 \in T /\ \A j \in T : i + 1 >= j /\ j \in Nat
    BY <1>1 DEF Setters
  <2> DEFINE c == CHOOSE k \in T : \A j \in T : k >= j
  <2>2. c \in T /\ \A j \in T : c >= j
    <3> HIDE DEF T
    <3> QED
      BY <2>1
  <2>3. c = i + 1
    <3> HIDE DEF T, c
    <3>1. i + 1 >= c /\ c >= i + 1 /\ c \in Nat
      BY <2>1, <2>2
    <3> QED
      BY <3>1
  <2> HIDE DEF c
  <2>4. NearestIn(els, i + 1, property) = els[c].own[property]
    BY <2>1 DEF NearestIn, c
  <2> QED
    BY <1>1, <2>3, <2>4
<1>2. CASE ~(els[i + 1].tag \in Containers /\ els[i + 1].own[property] # Nothing)
  <2>1. T = S
    <3>1. ASSUME NEW k \in T PROVE k \in S
      BY <1>2 DEF Setters
    <3>2. ASSUME NEW k \in S PROVE k \in T
      BY DEF Setters
    <3> QED
      BY <3>1, <3>2
  <2>2. CASE S = {}
    BY <1>2, <2>1, <2>2 DEF NearestIn
  <2>3. CASE S # {}
    <3> DEFINE c == CHOOSE k \in S : \A j \in S : k >= j
    <3>1. NearestIn(els, i, property) = els[c].own[property]
      BY <2>3 DEF NearestIn, c
    <3>2. NearestIn(els, i + 1, property) = els[c].own[property]
      BY <2>1, <2>3 DEF NearestIn, c
    <3> QED
      BY <1>2, <3>1, <3>2
  <2> QED
    BY <1>2, <2>2, <2>3
<1> QED
  BY <1>1, <1>2

LEMMA StyleStep ==
    ASSUME NEW els, NEW i \in Nat
    PROVE  StyleIn(els, i + 1) =
              IF els[i + 1].tag \in Containers
              THEN Over(els[i + 1].own, StyleIn(els, i)) ELSE StyleIn(els, i)
BY NearestStep DEF StyleIn, Over

LEMMA StyleOfNone == \A els : StyleIn(els, 0) = Plain
<1> SUFFICES ASSUME NEW els PROVE StyleIn(els, 0) = Plain
  OBVIOUS
<1>1. \A property : Setters(els, 0, property) = {}
  BY DEF Setters
<1> QED
  BY <1>1 DEF StyleIn, NearestIn, Plain

\* The cascade looks at no later element, and a later one that is no container
\* does not count.
LEMMA StyleSame ==
    ASSUME NEW els, NEW more, NEW i \in Nat, NEW n \in Nat, i <= n,
           \A k \in 1..i : els[k] = more[k],
           \A k \in (i + 1)..n : more[k].tag \notin Containers
    PROVE  StyleIn(els, i) = StyleIn(more, n)
<1>1. ASSUME NEW property PROVE NearestIn(els, i, property) = NearestIn(more, n, property)
  <2> DEFINE S == Setters(els, i, property)
             T == Setters(more, n, property)
  <2>1. S = T
    <3>1. ASSUME NEW k \in S PROVE k \in T
      BY DEF Setters
    <3>2. ASSUME NEW k \in T PROVE k \in S
      <4>1. k \in 1..n /\ more[k].tag \in Containers /\ more[k].own[property] # Nothing
        BY DEF Setters
      <4>2. k \in 1..i
        BY <4>1
      <4> QED
        BY <4>1, <4>2 DEF Setters
    <3> QED
      BY <3>1, <3>2
  <2>2. CASE S = {}
    BY <2>1, <2>2 DEF NearestIn
  <2>3. CASE S # {}
    <3> DEFINE c == CHOOSE k \in S : \A j \in S : k >= j
    <3>1. S \in SUBSET (1..i)
      BY DEF Setters
    <3>2. c \in S
      <4> HIDE DEF S
      <4> QED
        BY <2>3, <3>1, Extremes
    <3> HIDE DEF c
    <3>3. els[c] = more[c]
      BY <3>1, <3>2
    <3>4. NearestIn(els, i, property) = els[c].own[property]
      BY <2>3 DEF NearestIn, c
    <3>5. NearestIn(more, n, property) = more[c].own[property]
      BY <2>1, <2>3 DEF NearestIn, c
    <3> QED
      BY <3>3, <3>4, <3>5
  <2> QED
    BY <2>2, <2>3
<1> QED
  BY <1>1 DEF StyleIn

LEMMA StyleSets ==
    ASSUME NEW els, NEW j \in Nat, NEW m \in Nat, j <= m, StyleIn(els, j).color # Nothing
    PROVE  StyleIn(els, m).color # Nothing
<1> DEFINE S == Setters(els, j, "color")
           T == Setters(els, m, "color")
<1>1. NearestIn(els, j, "color") # Nothing
  BY DEF StyleIn
<1>2. S # {}
  BY <1>1 DEF NearestIn
<1>3. T # {} /\ T \in SUBSET (1..m) /\ \A k \in T : els[k].own["color"] # Nothing
  BY <1>2 DEF Setters
<1> DEFINE c == CHOOSE k \in T : \A i \in T : k >= i
<1>4. c \in T
  <2> HIDE DEF T
  <2> QED
    BY <1>3, Extremes
<1> HIDE DEF c
<1>5. NearestIn(els, m, "color") = els[c].own["color"]
  BY <1>3 DEF NearestIn, c
<1> QED
  BY <1>3, <1>4, <1>5 DEF StyleIn

-----------------------------------------------------------------------------
(* The tags of the output.                                                 *)

Colors == {own.color : own \in Styles} \cup {Nothing}
Weights == {own.weight : own \in Styles} \cup {Nothing}
Style == [color : Colors, weight : Weights]
Entry == [tag : Tags \cup {"font", "b"}, color : Colors, inserted : BOOLEAN]
Open == [tag : Tags, own : Styles]
Frame == [effective : Style, wrappers : Seq(Entry)]

\* The tags inserted for an element: two at most, a <font> first if there is a
\* color, a <b> if there is boldness.
LEMMA WrapperFacts ==
    ASSUME NEW tag, NEW style \in Style
    PROVE  LET w == WrappersOf(tag, style)
           IN  /\ w \in Seq(Entry) /\ Len(w) \in 0..2
               /\ \A k \in 1..Len(w) : w[k].inserted
               /\ tag \notin Decorated => Len(w) = 0
               /\ tag \in Decorated /\ style.color # Nothing =>
                     Len(w) >= 1 /\ w[1] = Inserted("font", style.color)
               /\ \A k \in 1..Len(w) : w[k].color # Nothing =>
                     k = 1 /\ tag \in Decorated /\ style.color # Nothing
               /\ tag \in Decorated /\ style.weight = "bold" =>
                     \E k \in 1..Len(w) : w[k] = Inserted("b", Nothing)
<1> DEFINE F == Inserted("font", style.color)
           B == Inserted("b", Nothing)
<1>1. /\ F \in Entry /\ B \in Entry /\ F.inserted /\ B.inserted
      /\ F.color = style.color /\ B.color = Nothing
  BY DEF Inserted, Entry, Style, Colors
<1> HIDE DEF F, B
<1>2. CASE tag \notin Decorated
  <2>1. WrappersOf(tag, style) = <<>>
    BY <1>2 DEF WrappersOf
  <2> QED
    BY <1>2, <2>1
<1>3. CASE tag \in Decorated /\ style.color # Nothing /\ style.weight = "bold"
  <2>1. WrappersOf(tag, style) = <<F>> \o <<B>>
    BY <1>3 DEF WrappersOf, F, B
  <2>2. <<F>> \o <<B>> = <<F, B>>
    BY <1>1, ConcatOfTwo
  <2>3. <<F, B>> \in Seq(Entry) /\ Len(<<F, B>>) = 2 /\ <<F, B>>[1] = F /\ <<F, B>>[2] = B
    BY <1>1
  <2> HIDE DEF F, B
  <2> DEFINE w == WrappersOf(tag, style)
  <2>4. w \in Seq(Entry) /\ Len(w) = 2 /\ w[1] = F /\ w[2] = B
    BY <2>1, <2>2, <2>3
  <2> HIDE DEF w
  <2>5. \A k \in 1..Len(w) : k = 1 \/ k = 2
    BY <2>4
  <2>6. 1 \in 1..Len(w) /\ 2 \in 1..Len(w) /\ Len(w) \in 0..2 /\ Len(w) >= 1
    BY <2>4
  <2> QED
    BY <1>1, <1>3, <2>4, <2>5, <2>6 DEF w, F, B
<1>4. CASE tag \in Decorated /\ style.color # Nothing /\ style.weight # "bold"
  <2>1. WrappersOf(tag, style) = <<F>> \o <<>>
    BY <1>4 DEF WrappersOf, F
  <2>2. <<F>> \o <<>> = <<F>>
    BY <1>1
  <2>3. <<F>> \in Seq(Entry) /\ Len(<<F>>) = 1 /\ <<F>>[1] = F
    BY <1>1
  <2> DEFINE w == WrappersOf(tag, style)
  <2>4. w \in Seq(Entry) /\ Len(w) = 1 /\ w[1] = F
    BY <2>1, <2>2, <2>3
  <2> HIDE DEF w
  <2>5. Len(w) \in 0..2 /\ Len(w) >= 1 /\ \A k \in 1..Len(w) : k = 1
    BY <2>4
  <2> QED
    BY <1>1, <1>4, <2>4, <2>5 DEF w, F
<1>5. CASE tag \in Decorated /\ style.color = Nothing /\ style.weight = "bold"
  <2>1. WrappersOf(tag, style) = <<>> \o <<B>>
    BY <1>5 DEF WrappersOf, B
  <2>2. <<>> \o <<B>> = <<B>>
    BY <1>1
  <2>3. <<B>> \in Seq(Entry) /\ Len(<<B>>) = 1 /\ <<B>>[1] = B
    BY <1>1
  <2> DEFINE w == WrappersOf(tag, style)
  <2>4. w \in Seq(Entry) /\ Len(w) = 1 /\ w[1] = B
    BY <2>1, <2>2, <2>3
  <2> HIDE DEF w
  <2>5. Len(w) \in 0..2 /\ 1 \in 1..Len(w) /\ \A k \in 1..Len(w) : k = 1
    BY <2>4
  <2> QED
    BY <1>1, <1>5, <2>4, <2>5 DEF w, B
<1>6. CASE tag \in Decorated /\ style.color = Nothing /\ style.weight # "bold"
  <2>1. WrappersOf(tag, style) = <<>> \o <<>>
    BY <1>6 DEF WrappersOf
  <2>2. <<>> \o <<>> = <<>>
    OBVIOUS
  <2> QED
    BY <1>6, <2>1, <2>2
<1> QED
  BY <1>2, <1>3, <1>4, <1>5, <1>6

-----------------------------------------------------------------------------
(* How the output is laid out.                                             *)

Inside(els, i) == WrappersOf(els[i].tag, StyleIn(els, i))

\* The output after i open elements is at[i] long, and fr[i] of the frames are
\* theirs: each element is followed by the tags inserted for it, and the frames
\* carry the cascade.
LevelOf(els, frs, out, at, fr, i) ==
    /\ at[i] = at[i - 1] + 1 + Len(Inside(els, i))
    /\ out[at[i - 1] + 1] = Own(els[i].tag)
    /\ \A k \in 1..Len(Inside(els, i)) : out[at[i - 1] + 1 + k] = Inside(els, i)[k]
    /\ IF els[i].tag \in Containers
       THEN fr[i] = fr[i - 1] + 1 /\ frs[fr[i]].wrappers = Inside(els, i)
       ELSE fr[i] = fr[i - 1]

Layout(els, frs, out, at, fr) ==
    /\ at \in [0..Len(els) -> Nat] /\ fr \in [0..Len(els) -> Nat]
    /\ at[0] = 0 /\ at[Len(els)] = Len(out)
    /\ fr[0] = 0 /\ fr[Len(els)] = Len(frs)
    /\ \A i \in 1..Len(els) : LevelOf(els, frs, out, at, fr, i)
    /\ \A i \in 0..Len(els) :
          StyleIn(els, i) = IF fr[i] = 0 THEN Plain ELSE frs[fr[i]].effective

AttrInv ==
    Omissible = {} =>
        /\ element \in Seq(Open) /\ frames \in Seq(Frame) /\ output \in Seq(Entry)
        /\ crossed = FALSE
        /\ \E at, fr : Layout(element, frames, output, at, fr)

LEMMA AttrInitInv == AttrInit => AttrInv
<1> SUFFICES ASSUME AttrInit, Omissible = {} PROVE AttrInv
  BY DEF AttrInv
<1>1. \A S : <<>> \in Seq(S) /\ Len(<<>>) = 0
  BY EmptySeq
<1> DEFINE z == [i \in 0..0 |-> 0]
<1>2. z \in [0..0 -> Nat] /\ z[0] = 0 /\ 1..0 = {} /\ 0..0 = {0}
  OBVIOUS
<1> HIDE DEF z
<1>3. Layout(<<>>, <<>>, <<>>, z, z)
  BY <1>1, <1>2, StyleOfNone DEF Layout
<1> QED
  BY <1>1, <1>3 DEF AttrInit, AttrInv

LEMMA StyleType ==
    ASSUME NEW els \in Seq(Open), NEW i \in 0..Len(els)
    PROVE  StyleIn(els, i) \in Style
<1> DEFINE G == {n \in Nat : n <= Len(els) => StyleIn(els, n) \in Style}
<1>0. Len(els) \in Nat /\ \A k \in 1..Len(els) : els[k] \in Open
  BY LenProperties, ElementOfSeq
<1>1. 0 \in G
  BY StyleOfNone DEF Plain, Style, Colors, Weights
<1>2. ASSUME NEW n \in Nat, n \in G PROVE n + 1 \in G
  <2> SUFFICES ASSUME n + 1 <= Len(els) PROVE StyleIn(els, n + 1) \in Style
    OBVIOUS
  <2>1. StyleIn(els, n) \in Style /\ els[n + 1].own \in Styles
    <3>1. n <= Len(els) /\ n + 1 \in 1..Len(els)
      BY <1>0
    <3> QED
      BY <1>0, <1>2, <3>1 DEF Open
  <2>2. \A own \in Styles : own.color \in Colors /\ own.weight \in Weights
    BY DEF Colors, Weights
  <2>3. Over(els[n + 1].own, StyleIn(els, n)) \in Style
    BY <2>1, <2>2 DEF Over, Style
  <2> QED
    BY <2>1, <2>3, StyleStep
<1>3. \A n \in Nat : n \in G
  <2> HIDE DEF G
  <2> QED
    BY <1>1, <1>2, SetInduction
<1> QED
  BY <1>0, <1>3

LEMMA InsideFacts ==
    ASSUME NEW els \in Seq(Open), NEW i \in 1..Len(els)
    PROVE  LET w == Inside(els, i)
               style == StyleIn(els, i)
               tag == els[i].tag
           IN  /\ tag \in Tags
               /\ w \in Seq(Entry) /\ Len(w) \in 0..2
               /\ \A k \in 1..Len(w) : w[k].inserted /\ w[k] \in Entry
               /\ tag \notin Decorated => Len(w) = 0
               /\ tag \in Decorated /\ style.color # Nothing =>
                     Len(w) >= 1 /\ w[1] = Inserted("font", style.color)
               /\ \A k \in 1..Len(w) : w[k].color # Nothing =>
                     k = 1 /\ tag \in Decorated /\ style.color # Nothing
               /\ tag \in Decorated /\ style.weight = "bold" =>
                     \E k \in 1..Len(w) : w[k] = Inserted("b", Nothing)
<1>1. StyleIn(els, i) \in Style
  <2>1. i \in 0..Len(els)
    BY LenProperties
  <2> QED
    BY <2>1, StyleType
<1>2. els[i].tag \in Tags
  <2>1. els[i] \in Open
    BY ElementOfSeq
  <2> QED
    BY <2>1 DEF Open
<1>3. Inside(els, i) \in Seq(Entry)
  BY <1>1, WrapperFacts DEF Inside
<1>4. \A k \in 1..Len(Inside(els, i)) : Inside(els, i)[k] \in Entry
  BY <1>3, ElementOfSeq
<1> QED
  BY <1>1, <1>2, <1>4, WrapperFacts DEF Inside

\* The levels follow one another.
LEMMA LayoutGrows ==
    ASSUME NEW els \in Seq(Open), NEW frs, NEW out, NEW at, NEW fr,
           Layout(els, frs, out, at, fr)
    PROVE  \A i, j \in 0..Len(els) : i <= j => at[i] <= at[j] /\ fr[i] <= fr[j]
<1>0. Len(els) \in Nat
  BY LenProperties
<1>1. ASSUME NEW i \in 0..Len(els)
      PROVE  \A j \in 0..Len(els) : i <= j => at[i] <= at[j] /\ fr[i] <= fr[j]
  <2> DEFINE G == {d \in Nat : i + d <= Len(els) => at[i] <= at[i + d] /\ fr[i] <= fr[i + d]}
  <2>1. at[i] \in Nat /\ fr[i] \in Nat
    BY DEF Layout
  <2>2. 0 \in G
    BY <2>1
  <2>3. ASSUME NEW d \in Nat, d \in G PROVE d + 1 \in G
    <3> SUFFICES ASSUME i + (d + 1) <= Len(els)
                 PROVE  at[i] <= at[i + (d + 1)] /\ fr[i] <= fr[i + (d + 1)]
      OBVIOUS
    <3>1. /\ i + (d + 1) \in 1..Len(els) /\ (i + (d + 1)) - 1 = i + d
          /\ i + d \in 0..Len(els) /\ i + (d + 1) \in 0..Len(els)
      BY <1>0
    <3>2. LevelOf(els, frs, out, at, fr, i + (d + 1))
      BY <3>1 DEF Layout
    <3>3. Len(Inside(els, i + (d + 1))) \in Nat
      BY <3>1, InsideFacts
    <3>4. at[i + (d + 1)] >= at[i + d] /\ fr[i + (d + 1)] >= fr[i + d]
      <4>1. /\ at[i + (d + 1)] = at[i + d] + 1 + Len(Inside(els, i + (d + 1)))
            /\ fr[i + (d + 1)] = fr[i + d] + 1 \/ fr[i + (d + 1)] = fr[i + d]
        BY <3>1, <3>2 DEF LevelOf
      <4>2. at[i + d] \in Nat /\ fr[i + d] \in Nat
        BY <3>1 DEF Layout
      <4> QED
        BY <3>3, <4>1, <4>2
    <3>5. /\ at[i + d] \in Nat /\ fr[i + d] \in Nat
          /\ at[i + (d + 1)] \in Nat /\ fr[i + (d + 1)] \in Nat
      BY <3>1 DEF Layout
    <3>6. at[i] <= at[i + d] /\ fr[i] <= fr[i + d]
      BY <1>0, <2>3, <3>1
    <3> QED
      BY <2>1, <3>4, <3>5, <3>6
  <2>4. \A d \in Nat : d \in G
    <3> HIDE DEF G
    <3> QED
      BY <2>2, <2>3, SetInduction
  <2>5. ASSUME NEW j \in 0..Len(els), i <= j PROVE at[i] <= at[j] /\ fr[i] <= fr[j]
    <3>1. j - i \in Nat /\ i + (j - i) = j
      BY <2>5
    <3>2. j - i \in G
      <4> HIDE DEF G
      <4> QED
        BY <2>4, <3>1
    <3> QED
      BY <1>0, <3>1, <3>2
  <2> QED
    BY <2>5
<1> QED
  BY <1>1

\* Two pages of the same first m levels.
SameLevels(els, frs, out, at, fr, els1, frs1, out1, at1, fr1, m) ==
    /\ \A k \in 1..m : els1[k] = els[k]
    /\ \A k \in 1..fr[m] : frs1[k] = frs[k]
    /\ \A k \in 1..at[m] : out1[k] = out[k]
    /\ \A i \in 0..m : at1[i] = at[i] /\ fr1[i] = fr[i]

LEMMA LevelsKept ==
    ASSUME NEW els \in Seq(Open), NEW frs, NEW out, NEW at, NEW fr,
           Layout(els, frs, out, at, fr),
           NEW m \in 0..Len(els),
           NEW els1, NEW frs1, NEW out1, NEW at1, NEW fr1,
           SameLevels(els, frs, out, at, fr, els1, frs1, out1, at1, fr1, m)
    PROVE  /\ \A i \in 1..m : LevelOf(els1, frs1, out1, at1, fr1, i)
           /\ \A i \in 0..m :
                 StyleIn(els1, i) = IF fr1[i] = 0 THEN Plain ELSE frs1[fr1[i]].effective
<1> DEFINE n == Len(els)
<1> USE DEF SameLevels
<1>1. n \in Nat /\ m \in Nat /\ m <= n
  BY LenProperties
<1>2. /\ at \in [0..n -> Nat] /\ fr \in [0..n -> Nat]
      /\ \A i \in 1..n : LevelOf(els, frs, out, at, fr, i)
      /\ \A i \in 0..n : StyleIn(els, i) = IF fr[i] = 0 THEN Plain ELSE frs[fr[i]].effective
  BY DEF Layout
<1>3. \A i \in 0..m : at[i] <= at[m] /\ fr[i] <= fr[m] /\ at[i] \in Nat /\ fr[i] \in Nat
  <2>1. \A i, j \in 0..n : i <= j => at[i] <= at[j] /\ fr[i] <= fr[j]
    BY LayoutGrows
  <2>2. \A i \in 0..m : i \in 0..n /\ m \in 0..n /\ i <= m
    BY <1>1
  <2> QED
    BY <1>2, <2>1, <2>2
<1>4. ASSUME NEW i \in 0..m PROVE StyleIn(els1, i) = StyleIn(els, i)
  <2>1. /\ \A k \in 1..i : els1[k] = els[k]
        /\ \A k \in (i + 1)..i : els[k].tag \notin Containers
        /\ i \in Nat /\ i <= i
    BY <1>1
  <2> QED
    BY ONLY <2>1, StyleSame
<1>5. ASSUME NEW i \in 1..m PROVE LevelOf(els1, frs1, out1, at1, fr1, i)
  <2>1. i \in 1..n /\ i \in 0..m /\ i - 1 \in 0..m
    BY <1>1
  <2>2. LevelOf(els, frs, out, at, fr, i)
    BY <1>2, <2>1
  <2>3. Inside(els1, i) = Inside(els, i) /\ els1[i] = els[i]
    BY <1>4, <2>1 DEF Inside
  <2>4. at1[i] = at[i] /\ at1[i - 1] = at[i - 1] /\ fr1[i] = fr[i] /\ fr1[i - 1] = fr[i - 1]
    BY <2>1
  <2>5. /\ at[i - 1] + 1 \in 1..at[m]
        /\ \A k \in 1..Len(Inside(els, i)) : at[i - 1] + 1 + k \in 1..at[m]
    <3> DEFINE l == Len(Inside(els, i))
    <3>1. l \in Nat
      BY <2>1, InsideFacts
    <3>2. at[i] = at[i - 1] + 1 + l
      BY <2>2 DEF LevelOf
    <3> HIDE DEF l
    <3>3. at[i - 1] \in Nat /\ at[m] \in Nat /\ at[i - 1] + 1 + l <= at[m]
      BY <1>1, <1>3, <2>1, <3>2
    <3>4. at[i - 1] + 1 \in 1..at[m] /\ \A k \in 1..l : at[i - 1] + 1 + k \in 1..at[m]
      BY <3>1, <3>3
    <3> QED
      BY <3>4 DEF l
  <2>6. els[i].tag \in Containers => fr[i] \in 1..fr[m]
    <3>1. els[i].tag \in Containers => fr[i] = fr[i - 1] + 1
      BY <2>2 DEF LevelOf
    <3> QED
      BY <1>1, <1>3, <2>1, <3>1
  <2> QED
    BY <2>2, <2>3, <2>4, <2>5, <2>6 DEF LevelOf
<1>6. ASSUME NEW i \in 0..m
      PROVE  StyleIn(els1, i) = IF fr1[i] = 0 THEN Plain ELSE frs1[fr1[i]].effective
  <2>1. fr1[i] = fr[i] /\ (fr[i] # 0 => fr[i] \in 1..fr[m]) /\ i \in 0..n
    BY <1>1, <1>3
  <2>2. fr[i] # 0 => frs1[fr[i]] = frs[fr[i]]
    BY <2>1
  <2> QED
    BY <1>2, <1>4, <2>1, <2>2
<1> QED
  BY <1>5, <1>6

\* A start tag opens one more level.
LEMMA LevelOpened ==
    ASSUME Omissible = {}, AttrInv, NEW tag \in Tags, NEW own \in Styles, StartTag(tag, own)
    PROVE  AttrInv'
<1> DEFINE n == Len(element)
           effective == Over(own, Inherited)
           wrappers == WrappersOf(tag, effective)
           opened == [tag |-> tag, own |-> own]
           frame == [effective |-> effective, wrappers |-> wrappers]
<1>1. /\ element' = Append(element, opened)
      /\ output' = output \o <<Own(tag)>> \o wrappers
      /\ frames' = IF tag \in Containers THEN Append(frames, frame) ELSE frames
      /\ crossed' = crossed
  BY DEF StartTag
<1>2. PICK at, fr : Layout(element, frames, output, at, fr)
  BY DEF AttrInv
<1>3. /\ element \in Seq(Open) /\ frames \in Seq(Frame) /\ output \in Seq(Entry) /\ crossed = FALSE
      /\ n \in Nat /\ Len(frames) \in Nat /\ Len(output) \in Nat
  BY LenProperties DEF AttrInv
<1>4. opened \in Open /\ opened.tag = tag /\ opened.own = own
  BY DEF Open
<1> HIDE DEF opened
<1>5. /\ element' \in Seq(Open) /\ Len(element') = n + 1
      /\ \A k \in 1..n : element'[k] = element[k]
      /\ element'[n + 1] = opened
  BY <1>1, <1>3, <1>4, AppendProperties
<1>6. Inherited = StyleIn(element, n)
  <2>1. /\ fr[n] = Len(frames)
        /\ StyleIn(element, n) = IF fr[n] = 0 THEN Plain ELSE frames[fr[n]].effective
    BY <1>2, <1>3 DEF Layout
  <2>2. frames = <<>> <=> Len(frames) = 0
    BY <1>3, EmptySeq
  <2> QED
    BY <2>1, <2>2 DEF Inherited, Last
<1>7. StyleIn(element', n + 1) =
          IF tag \in Containers THEN effective ELSE StyleIn(element, n)
  <2>1. StyleIn(element', n) = StyleIn(element, n)
    <3>1. \A k \in (n + 1)..n : element'[k].tag \notin Containers
      BY <1>3
    <3> QED
      BY <1>3, <1>5, <3>1, StyleSame
  <2> QED
    BY <1>3, <1>4, <1>5, <1>6, <2>1, StyleStep
<1>8. wrappers = Inside(element', n + 1)
  <2>1. CASE tag \in Containers
    BY <1>4, <1>5, <1>7, <2>1 DEF Inside
  <2>2. CASE tag \notin Containers
    <3>1. tag \notin Decorated
      BY <2>2 DEF Containers, Decorated
    <3> QED
      BY <1>4, <1>5, <3>1 DEF Inside, WrappersOf
  <2> QED
    BY <2>1, <2>2
<1>9. /\ wrappers \in Seq(Entry) /\ Len(wrappers) \in Nat
      /\ StyleIn(element', n + 1) \in Style
  <2>1. n + 1 \in 1..Len(element') /\ n + 1 \in 0..Len(element')
    BY <1>3, <1>5
  <2>2. wrappers \in Seq(Entry)
    BY <1>5, <1>8, <2>1, InsideFacts
  <2>3. StyleIn(element', n + 1) \in Style
    BY <1>5, <2>1, StyleType
  <2> QED
    BY <2>2, <2>3, LenProperties
<1> HIDE DEF wrappers, effective
<1>10. /\ output' \in Seq(Entry) /\ Len(output') = Len(output) + 1 + Len(wrappers)
       /\ \A k \in 1..Len(output) : output'[k] = output[k]
       /\ output'[Len(output) + 1] = Own(tag)
       /\ \A k \in 1..Len(wrappers) : output'[Len(output) + 1 + k] = wrappers[k]
  <2>1. Own(tag) \in Entry
    BY DEF Own, Entry, Colors
  <2>2. <<Own(tag)>> \in Seq(Entry) /\ Len(<<Own(tag)>>) = 1 /\ <<Own(tag)>>[1] = Own(tag)
    BY <2>1
  <2> DEFINE o == output \o <<Own(tag)>>
  <2>3. /\ o \in Seq(Entry) /\ Len(o) = Len(output) + 1
        /\ \A i \in 1..(Len(output) + 1) :
              o[i] = IF i <= Len(output) THEN output[i] ELSE <<Own(tag)>>[i - Len(output)]
    BY <1>3, <2>2, ConcatProperties
  <2>12. o \in Seq(Entry) /\ wrappers \in Seq(Entry)
    BY <1>9, <2>3
  <2> HIDE DEF o
  <2>4. /\ o \o wrappers \in Seq(Entry) /\ Len(o \o wrappers) = Len(o) + Len(wrappers)
        /\ \A i \in 1..(Len(o) + Len(wrappers)) :
              (o \o wrappers)[i] = IF i <= Len(o) THEN o[i] ELSE wrappers[i - Len(o)]
    BY ONLY <2>12, ConcatProperties
  <2>5. output' = o \o wrappers
    BY <1>1 DEF o
  <2>6. \A k \in 1..Len(output) : output'[k] = output[k]
    BY <1>3, <1>9, <2>3, <2>4, <2>5
  <2>7. output'[Len(output) + 1] = Own(tag)
    BY <1>3, <1>9, <2>2, <2>3, <2>4, <2>5
  <2>8. ASSUME NEW k \in 1..Len(wrappers) PROVE output'[Len(output) + 1 + k] = wrappers[k]
    <3>1. /\ Len(output) + 1 + k \in 1..(Len(o) + Len(wrappers)) /\ ~(Len(output) + 1 + k <= Len(o))
          /\ (Len(output) + 1 + k) - Len(o) = k
      BY <1>3, <1>9, <2>3
    <3> QED
      BY <2>4, <2>5, <3>1
  <2> QED
    BY <1>3, <1>9, <2>3, <2>4, <2>5, <2>6, <2>7, <2>8
<1>11. /\ frames' \in Seq(Frame)
       /\ \A k \in 1..Len(frames) : frames'[k] = frames[k]
       /\ tag \in Containers => Len(frames') = Len(frames) + 1 /\ frames'[Len(frames) + 1] = frame
       /\ tag \notin Containers => frames' = frames
  <2>1. tag \in Containers => frame \in Frame
    BY <1>7, <1>9 DEF Frame
  <2> HIDE DEF frame
  <2> QED
    BY <1>1, <1>3, <2>1, AppendProperties
<1> DEFINE at1 == [i \in 0..(n + 1) |-> IF i = n + 1 THEN Len(output') ELSE at[i]]
           fr1 == [i \in 0..(n + 1) |-> IF i = n + 1 THEN Len(frames') ELSE fr[i]]
<1>12. /\ at \in [0..n -> Nat] /\ fr \in [0..n -> Nat] /\ at[0] = 0 /\ fr[0] = 0
       /\ at[n] = Len(output) /\ fr[n] = Len(frames)
       /\ \A i \in 1..n : LevelOf(element, frames, output, at, fr, i)
       /\ \A i \in 0..n : StyleIn(element, i) = IF fr[i] = 0 THEN Plain ELSE frames[fr[i]].effective
  BY <1>2 DEF Layout
<1>13. /\ at1 \in [0..(n + 1) -> Nat] /\ fr1 \in [0..(n + 1) -> Nat]
       /\ at1[n + 1] = Len(output') /\ fr1[n + 1] = Len(frames')
       /\ \A i \in 0..n : at1[i] = at[i] /\ fr1[i] = fr[i]
  <2>1. Len(output') \in Nat /\ Len(frames') \in Nat
    BY <1>10, <1>11, LenProperties
  <2> QED
    BY <1>3, <1>12, <2>1
<1> HIDE DEF at1, fr1
<1>14. /\ \A i \in 1..n : LevelOf(element', frames', output', at1, fr1, i)
       /\ \A i \in 0..n :
             StyleIn(element', i) = IF fr1[i] = 0 THEN Plain ELSE frames'[fr1[i]].effective
  <2>1. /\ n \in 0..Len(element)
        /\ \A k \in 1..n : element'[k] = element[k]
        /\ \A k \in 1..fr[n] : frames'[k] = frames[k]
        /\ \A k \in 1..at[n] : output'[k] = output[k]
        /\ \A i \in 0..n : at1[i] = at[i] /\ fr1[i] = fr[i]
    <3>1. n \in 0..Len(element)
      BY <1>3
    <3>2. \A k \in 1..n : element'[k] = element[k]
      BY <1>5
    <3>3. \A k \in 1..fr[n] : frames'[k] = frames[k]
      BY <1>11, <1>12
    <3>4. \A k \in 1..at[n] : output'[k] = output[k]
      BY <1>10, <1>12
    <3> QED
      BY <1>13, <3>1, <3>2, <3>3, <3>4
  <2>2. element \in Seq(Open) /\ Layout(element, frames, output, at, fr) /\ n \in 0..Len(element)
    BY <1>2, <1>3
  <2>3. SameLevels(element, frames, output, at, fr, element', frames', output', at1, fr1, n)
    BY <2>1 DEF SameLevels
  <2> HIDE DEF n
  <2> QED
    BY <2>2, <2>3, LevelsKept
<1>15. LevelOf(element', frames', output', at1, fr1, n + 1)
  <2>1. n \in 0..n /\ (n + 1) - 1 = n
    BY <1>3
  <2>2. at1[n] = Len(output) /\ fr1[n] = Len(frames)
    BY <1>12, <1>13, <2>1
  <2>3. element'[n + 1].tag = tag
    BY <1>4, <1>5
  <2>4. tag \in Containers => /\ fr1[n + 1] = Len(frames) + 1
                              /\ frames'[fr1[n + 1]].wrappers = wrappers
    BY <1>11, <1>13
  <2>5. /\ at1[n + 1] = at1[(n + 1) - 1] + 1 + Len(Inside(element', n + 1))
        /\ output'[at1[(n + 1) - 1] + 1] = Own(tag)
        /\ \A k \in 1..Len(Inside(element', n + 1)) :
              output'[at1[(n + 1) - 1] + 1 + k] = Inside(element', n + 1)[k]
    BY <1>8, <1>10, <1>13, <2>1, <2>2
  <2>6. IF tag \in Containers
        THEN /\ fr1[n + 1] = fr1[(n + 1) - 1] + 1
             /\ frames'[fr1[n + 1]].wrappers = Inside(element', n + 1)
        ELSE fr1[n + 1] = fr1[(n + 1) - 1]
    BY <1>8, <1>11, <1>13, <2>1, <2>2, <2>4
  <2> HIDE DEF n
  <2> QED
    BY <2>3, <2>5, <2>6, Zenon DEF LevelOf
<1>16. ASSUME NEW i \in 0..(n + 1)
       PROVE  StyleIn(element', i) = IF fr1[i] = 0 THEN Plain ELSE frames'[fr1[i]].effective
  <2>1. CASE i = n + 1 /\ tag \in Containers
    <3>1. fr1[i] = Len(frames) + 1 /\ fr1[i] # 0
      BY <1>3, <1>11, <1>13, <2>1
    <3>2. frames'[fr1[i]].effective = effective
      BY <1>11, <2>1, <3>1
    <3> QED
      BY <1>7, <2>1, <3>1, <3>2
  <2>2. CASE i = n + 1 /\ tag \notin Containers
    <3>1. fr1[i] = fr[n] /\ frames' = frames /\ n \in 0..n
      BY <1>3, <1>11, <1>12, <1>13, <2>2
    <3> QED
      BY <1>7, <1>12, <2>2, <3>1
  <2>3. CASE i # n + 1
    <3>1. i \in 0..n
      BY <1>3, <2>3
    <3> QED
      BY <1>14, <3>1
  <2> QED
    BY <2>1, <2>2, <2>3
<1>17. Layout(element', frames', output', at1, fr1)
  <2>1. at1[0] = 0 /\ fr1[0] = 0
    BY <1>3, <1>12, <1>13
  <2>2. \A i \in 1..(n + 1) : LevelOf(element', frames', output', at1, fr1, i)
    <3>1. \A i \in 1..(n + 1) : i \in 1..n \/ i = n + 1
      BY <1>3
    <3> QED
      BY <1>14, <1>15, <3>1
  <2> QED
    BY <1>5, <1>13, <1>16, <2>1, <2>2 DEF Layout
<1> QED
  BY <1>1, <1>3, <1>5, <1>10, <1>11, <1>17 DEF AttrInv
-----------------------------------------------------------------------------
(* End tags, in a page that leaves none out.                               *)

\* An end tag of the innermost element closes that one, and crosses nothing.
LEMMA CloseLast ==
    ASSUME NEW out \in Seq(Entry), NEW tag, Len(out) > 0, out[Len(out)].tag = tag
    PROVE  /\ Closed(out, tag) = SubSeq(out, 1, Len(out) - 1)
           /\ ~Crosses(out, tag)
<1> DEFINE n == Len(out)
           opened == {i \in DOMAIN out : out[i].tag = tag}
           c == CHOOSE i \in opened : \A k \in opened : i >= k
<1>1. n \in Nat /\ DOMAIN out = 1..n
  BY LenProperties
<1>2. n \in opened /\ \A k \in opened : n >= k /\ k \in Nat
  BY <1>1
<1>3. Closed(out, tag) = SubSeq(out, 1, c - 1)
  BY <1>2 DEF Closed
<1>4. c \in opened /\ \A k \in opened : c >= k
  <2> HIDE DEF opened, n
  <2> QED
    BY <1>2
<1>5. c = n
  <2> HIDE DEF opened, c, n
  <2>1. c >= n /\ n >= c /\ c \in Nat /\ n \in Nat
    BY <1>1, <1>2, <1>4
  <2> QED
    BY <2>1
<1>6. out # <<>> /\ Last(out).tag = tag
  BY EmptySeq DEF Last
<1> QED
  BY <1>3, <1>5, <1>6 DEF Crosses

\* The sequence without its last k members.
LEMMA CutFacts ==
    ASSUME NEW out \in Seq(Entry), NEW m \in 0..Len(out)
    PROVE  /\ SubSeq(out, 1, m) \in Seq(Entry) /\ Len(SubSeq(out, 1, m)) = m
           /\ \A i \in 1..m : SubSeq(out, 1, m)[i] = out[i]
<1>0. Len(out) \in Nat /\ m \in Int /\ 1 \in Int /\ m \in Nat
  BY LenProperties
<1>1. \A i \in 1..m : out[i] \in Entry
  BY <1>0, ElementOfSeq
<1>2. /\ SubSeq(out, 1, m) \in Seq(Entry)
      /\ Len(SubSeq(out, 1, m)) = IF 1 <= m THEN m - 1 + 1 ELSE 0
      /\ \A i \in 1..(m - 1 + 1) : SubSeq(out, 1, m)[i] = out[1 + i - 1]
  BY <1>0, <1>1, SubSeqProperties
<1> QED
  BY <1>0, <1>2

LEMMA CutAgain ==
    ASSUME NEW out \in Seq(Entry), NEW m \in 1..Len(out)
    PROVE  SubSeq(SubSeq(out, 1, m), 1, m - 1) = SubSeq(out, 1, m - 1)
<1> DEFINE x == SubSeq(out, 1, m)
           y == SubSeq(x, 1, m - 1)
           z == SubSeq(out, 1, m - 1)
<1>0. Len(out) \in Nat /\ m \in 0..Len(out) /\ m - 1 \in 0..Len(out) /\ m - 1 \in 0..m
  BY LenProperties
<1>1. x \in Seq(Entry) /\ Len(x) = m /\ \A i \in 1..m : x[i] = out[i]
  BY <1>0, CutFacts
<1> HIDE DEF x
<1>2. y \in Seq(Entry) /\ Len(y) = m - 1 /\ \A i \in 1..(m - 1) : y[i] = x[i]
  BY <1>0, <1>1, CutFacts
<1>3. z \in Seq(Entry) /\ Len(z) = m - 1 /\ \A i \in 1..(m - 1) : z[i] = out[i]
  BY <1>0, CutFacts
<1> HIDE DEF y, z
<1>4. Len(y) = Len(z) /\ \A i \in 1..Len(y) : y[i] = z[i]
  BY <1>0, <1>1, <1>2, <1>3
<1>5. y = z
  BY <1>2, <1>3, <1>4, SeqEqual
<1> QED
  BY <1>5 DEF x, y, z

\* The function that ReaderAfter is the last value of.
Reads(ends, read) ==
    read = [k \in 0..Len(ends) |->
              IF k = 0 THEN [out |-> output, crossed |-> crossed]
              ELSE [out |-> Closed(read[k - 1].out, ends[k]),
                    crossed |-> read[k - 1].crossed \/ Crosses(read[k - 1].out, ends[k])]]

\* End tags that name the innermost elements, from within, close just those.
LEMMA ReaderCloses ==
    ASSUME output \in Seq(Entry), crossed = FALSE, NEW ends, NEW n, Len(ends) = n,
           n \in 0..Len(output),
           \A k \in 1..n : output[Len(output) - k + 1].tag = ends[k]
    PROVE  ReaderAfter(ends) = [out |-> SubSeq(output, 1, Len(output) - n), crossed |-> FALSE]
<1> DEFINE l == Len(output)
           Cut(k) == SubSeq(output, 1, l - k)
           State(k) == [out |-> Cut(k), crossed |-> FALSE]
           R == [k \in 0..n |-> State(k)]
<1>1. l \in Nat /\ n \in Nat /\ n <= l
  BY LenProperties
<1>2. State(0) = [out |-> output, crossed |-> crossed]
  <2>1. Cut(0) = output
    <3>1. /\ Cut(0) \in Seq(Entry) /\ Len(Cut(0)) = l
          /\ \A i \in 1..l : Cut(0)[i] = output[i]
      <4>1. l - 0 = l /\ l \in 0..Len(output)
        BY <1>1
      <4> QED
        BY <4>1, CutFacts
    <3> HIDE DEF Cut
    <3> QED
      BY <3>1, SeqEqual
  <2> HIDE DEF Cut
  <2> QED
    BY <2>1
<1>3. ASSUME NEW k \in 1..n
      PROVE  /\ Closed(Cut(k - 1), ends[k]) = Cut(k)
             /\ Crosses(Cut(k - 1), ends[k]) = FALSE
  <2> DEFINE m == l - k + 1
             x == SubSeq(output, 1, m)
  <2>1. m \in 1..l /\ m \in 0..l /\ l - (k - 1) = m /\ m - 1 = l - k /\ m > 0
    BY <1>1
  <2>2. output[m].tag = ends[k]
    OBVIOUS
  <2> HIDE DEF m
  <2>3. x \in Seq(Entry) /\ Len(x) = m /\ \A i \in 1..m : x[i] = output[i]
    BY <2>1, CutFacts
  <2>4. SubSeq(x, 1, m - 1) = SubSeq(output, 1, m - 1)
    BY <2>1, CutAgain
  <2>5. Cut(k - 1) = x /\ Cut(k) = SubSeq(output, 1, m - 1)
    BY <2>1
  <2> HIDE DEF x, Cut
  <2>6. m \in 1..m /\ x[m] = output[m]
    BY <2>1, <2>3
  <2>7. Closed(x, ends[k]) = SubSeq(x, 1, m - 1) /\ ~Crosses(x, ends[k])
    BY <2>1, <2>2, <2>3, <2>6, CloseLast
  <2>8. Crosses(x, ends[k]) \in BOOLEAN
    BY DEF Crosses
  <2> QED
    BY <2>4, <2>5, <2>7, <2>8
<1> HIDE DEF Cut
<1>4. Reads(ends, R)
  <2>1. R[0] = [out |-> output, crossed |-> crossed]
    BY <1>1, <1>2
  <2>2. ASSUME NEW k \in 1..n
        PROVE  R[k] = [out |-> Closed(R[k - 1].out, ends[k]),
                       crossed |-> R[k - 1].crossed \/ Crosses(R[k - 1].out, ends[k])]
    <3>1. R[k] = State(k) /\ R[k - 1] = State(k - 1)
      BY <1>1
    <3>2. State(k) = [out |-> Cut(k), crossed |-> FALSE]
      OBVIOUS
    <3>3. State(k - 1).out = Cut(k - 1) /\ State(k - 1).crossed = FALSE
      OBVIOUS
    <3> HIDE DEF R, State
    <3>4. (R[k - 1].crossed \/ Crosses(R[k - 1].out, ends[k])) = FALSE
      BY <1>3, <3>1, <3>3
    <3> QED
      BY <1>3, <3>1, <3>2, <3>3, <3>4
  <2>3. ASSUME NEW k \in 0..n
        PROVE  R[k] = IF k = 0 THEN [out |-> output, crossed |-> crossed]
                      ELSE [out |-> Closed(R[k - 1].out, ends[k]),
                            crossed |-> R[k - 1].crossed \/ Crosses(R[k - 1].out, ends[k])]
    <3> HIDE DEF R
    <3>1. k # 0 => k \in 1..n
      BY <1>1
    <3> QED
      BY <2>1, <2>2, <3>1
  <2>4. R = [k \in 0..n |-> R[k]]
    OBVIOUS
  <2> HIDE DEF R
  <2> QED
    BY <2>3, <2>4 DEF Reads
<1> DEFINE read == CHOOSE f : Reads(ends, f)
<1>5. Reads(ends, read)
  <2> HIDE DEF R
  <2> QED
    BY <1>4
<1>6. ReaderAfter(ends) = read[n]
  BY DEF ReaderAfter, Reads
<1> HIDE DEF read, R
<1> DEFINE G == {k \in Nat : k <= n => read[k] = R[k]}
<1>7. 0 \in G
  BY <1>1, <1>4, <1>5 DEF Reads
<1>8. ASSUME NEW k \in Nat, k \in G PROVE k + 1 \in G
  <2> SUFFICES ASSUME k + 1 <= n PROVE read[k + 1] = R[k + 1]
    OBVIOUS
  <2>1. k + 1 \in 0..Len(ends) /\ (k + 1) - 1 = k /\ k + 1 # 0 /\ read[k] = R[k]
    BY <1>1, <1>8
  <2>2. read[k + 1] = [out |-> Closed(read[k].out, ends[k + 1]),
                       crossed |-> read[k].crossed \/ Crosses(read[k].out, ends[k + 1])]
    BY <1>5, <2>1 DEF Reads
  <2>3. R[k + 1] = [out |-> Closed(R[k].out, ends[k + 1]),
                    crossed |-> R[k].crossed \/ Crosses(R[k].out, ends[k + 1])]
    BY <1>4, <2>1 DEF Reads
  <2> QED
    BY <2>1, <2>2, <2>3
<1>9. \A k \in Nat : k \in G
  <2> HIDE DEF G
  <2> QED
    BY <1>7, <1>8, SetInduction
<1>10. read[n] = State(n)
  <2>1. read[n] = R[n] /\ n \in 0..n
    BY <1>1, <1>9
  <2> HIDE DEF State
  <2> QED
    BY <2>1 DEF R
<1> QED
  BY <1>6, <1>10 DEF Cut
\* handle_endtag writes the end tags of what was inserted for the element, from
\* within, and then its own.
LEMMA WrittenIs ==
    ASSUME NEW tag, NEW w \in Seq(Entry), Len(w) \in Nat,
           IF tag \in Containers THEN frames # <<>> /\ Last(frames).wrappers = w ELSE w = <<>>
    PROVE  /\ Len(Written(tag)) = Len(w) + 1
           /\ \A k \in 1..Len(w) : Written(tag)[k] = w[Len(w) - k + 1].tag
           /\ Written(tag)[Len(w) + 1] = tag
<1> DEFINE n == Len(w)
           names == Tags \cup {"font", "b"} \cup {tag}
           inner == [i \in 1..n |-> w[n - i + 1].tag]
<1>0. n \in Nat /\ DOMAIN w = 1..n
  BY LenProperties
<1>1. inner \in [1..n -> names]
  <2>1. ASSUME NEW i \in 1..n PROVE w[n - i + 1].tag \in names
    <3>1. n - i + 1 \in 1..n
      BY <1>0
    <3>2. w[n - i + 1] \in Entry
      BY <3>1, ElementOfSeq
    <3> QED
      BY <3>2 DEF Entry
  <2> HIDE DEF names, n
  <2> QED
    BY <2>1
<1>2. inner \in Seq(names) /\ Len(inner) = n /\ \A i \in 1..n : inner[i] = w[n - i + 1].tag
  <2>1. \A i \in 1..n : inner[i] = w[n - i + 1].tag
    OBVIOUS
  <2> HIDE DEF inner, names
  <2> QED
    BY <1>0, <1>1, <2>1, SeqOfFcn
<1>3. Written(tag) = inner \o <<tag>>
  <2>1. CASE tag \in Containers
    <3>1. Reverse(w) = [i \in 1..n |-> w[(n - i) + 1]]
      BY DEF Reverse
    <3>2. [i \in DOMAIN w |-> Reverse(w)[i].tag] = inner
      BY <1>0, <3>1
    <3>3. frames # <<>> /\ Last(frames).wrappers = w
      BY <2>1
    <3> HIDE DEF inner
    <3> QED
      BY <2>1, <3>2, <3>3 DEF Written
  <2>2. CASE tag \notin Containers
    <3>1. Written(tag) = <<>> \o <<tag>> /\ n = 0
      BY <2>2, EmptySeq DEF Written
    <3>2. inner = <<>>
      BY <1>2, <3>1, EmptySeq
    <3> QED
      BY <3>1, <3>2
  <2> QED
    BY <2>1, <2>2
<1>4. <<tag>> \in Seq(names) /\ Len(<<tag>>) = 1 /\ <<tag>>[1] = tag
  OBVIOUS
<1> HIDE DEF inner, names
<1>5. /\ Len(inner \o <<tag>>) = n + 1
      /\ \A i \in 1..(n + 1) : (inner \o <<tag>>)[i] = IF i <= n THEN inner[i] ELSE <<tag>>[i - n]
  BY <1>2, <1>4, ConcatProperties
<1>6. \A k \in 1..n : Written(tag)[k] = w[n - k + 1].tag
  <2> SUFFICES ASSUME NEW k \in 1..n PROVE Written(tag)[k] = w[n - k + 1].tag
    OBVIOUS
  <2>1. k \in 1..(n + 1) /\ k <= n
    BY <1>0
  <2> QED
    BY <1>2, <1>3, <1>5, <2>1
<1>7. Written(tag)[n + 1] = tag
  <2>1. n + 1 \in 1..(n + 1) /\ ~(n + 1 <= n) /\ (n + 1) - n = 1
    BY <1>0
  <2> QED
    BY <1>3, <1>4, <1>5, <2>1
<1> QED
  BY <1>3, <1>5, <1>6, <1>7

\* What an end tag makes of the page: the innermost level is gone, nothing else.
LEMMA EndOfLast ==
    ASSUME Omissible = {}, AttrInv, EndTag,
           NEW at, NEW fr, Layout(element, frames, output, at, fr)
    PROVE  LET n == Len(element)
           IN  /\ n >= 1
               /\ element' = SubSeq(element, 1, n - 1)
               /\ frames' = SubSeq(frames, 1, fr[n - 1])
               /\ output' = SubSeq(output, 1, at[n - 1])
               /\ crossed' = FALSE
<1> DEFINE n == Len(element)
           w == Inside(element, n)
<1>1. /\ element \in Seq(Open) /\ frames \in Seq(Frame) /\ output \in Seq(Entry)
      /\ crossed = FALSE /\ n \in Nat /\ DOMAIN element = 1..n /\ Len(output) \in Nat
      /\ Len(frames) \in Nat
  BY LenProperties DEF AttrInv
<1>2. PICK i \in DOMAIN element :
        /\ \A j \in (i + 1)..n : element[j].tag \in Omissible
        /\ element' = SubSeq(element, 1, i - 1)
        /\ frames' = IF element[i].tag \in Containers /\ frames # <<>> THEN Front(frames) ELSE frames
        /\ output' = ReaderAfter(Written(element[i].tag)).out
        /\ crossed' = ReaderAfter(Written(element[i].tag)).crossed
  BY DEF EndTag
<1>3. i = n
  <2>1. i \in 1..n /\ (i # n => n \in (i + 1)..n)
    BY <1>1
  <2> QED
    BY <1>2, <2>1
<1> DEFINE tag == element[n].tag
<1>4. n \in 1..n /\ n \in 0..n /\ n - 1 \in 0..n /\ n >= 1
  BY <1>1, <1>3
<1>5. /\ LevelOf(element, frames, output, at, fr, n)
      /\ at[n] = Len(output) /\ fr[n] = Len(frames) /\ at[n - 1] \in Nat /\ fr[n - 1] \in Nat
  BY <1>4 DEF Layout
<1>6. w \in Seq(Entry) /\ Len(w) \in Nat
  <2>1. n \in 1..Len(element)
    BY <1>4
  <2>2. w \in Seq(Entry)
    BY <1>1, <2>1, InsideFacts
  <2> QED
    BY <2>2, LenProperties
<1>7. tag \notin Containers => w = <<>>
  <2>1. tag \notin Containers => tag \notin Decorated
    BY DEF Containers, Decorated
  <2> QED
    BY <2>1 DEF Inside, WrappersOf
<1>8. /\ Len(output) = at[n - 1] + 1 + Len(w)
      /\ output[at[n - 1] + 1] = Own(tag)
      /\ \A k \in 1..Len(w) : output[at[n - 1] + 1 + k] = w[k]
      /\ tag \in Containers => fr[n] = fr[n - 1] + 1 /\ frames[fr[n]].wrappers = w
      /\ tag \notin Containers => fr[n] = fr[n - 1]
  BY <1>5 DEF LevelOf
<1> DEFINE b == at[n - 1]
           g == fr[n - 1]
           l == Len(w)
<1>9. /\ b \in Nat /\ g \in Nat /\ l \in Nat
      /\ Len(output) = b + 1 + l
      /\ output[b + 1] = Own(tag)
      /\ \A k \in 1..l : output[b + 1 + k] = w[k]
      /\ tag \in Containers => Len(frames) = g + 1 /\ frames[Len(frames)].wrappers = w
      /\ tag \notin Containers => Len(frames) = g
  BY <1>5, <1>6, <1>8
<1>10. /\ element' = SubSeq(element, 1, n - 1)
       /\ frames' = IF tag \in Containers /\ frames # <<>> THEN Front(frames) ELSE frames
       /\ output' = ReaderAfter(Written(tag)).out
       /\ crossed' = ReaderAfter(Written(tag)).crossed
  BY <1>2, <1>3
<1> HIDE DEF w, tag, b, g, l
<1>11. tag \in Containers => frames # <<>> /\ Last(frames).wrappers = w
  <2>1. tag \in Containers => Len(frames) # 0
    BY <1>9
  <2>2. Len(<<>>) = 0
    BY EmptySeq
  <2> QED
    BY <1>9, <2>1, <2>2 DEF Last
<1>12. frames' = SubSeq(frames, 1, g)
  <2>1. CASE tag \in Containers
    <3>1. Len(frames) - 1 = g
      BY <1>9, <2>1
    <3> QED
      BY <1>10, <1>11, <2>1, <3>1 DEF Front
  <2>2. CASE tag \notin Containers
    <3>1. Len(frames) = g /\ frames' = frames
      BY <1>9, <1>10, <2>2
    <3>2. SubSeq(frames, 1, g) = frames
      <4> DEFINE x == SubSeq(frames, 1, g)
      <4>1. \A j \in 1..g : frames[j] \in Frame
        BY <1>1, <3>1, ElementOfSeq
      <4>2. /\ x \in Seq(Frame)
            /\ Len(x) = IF 1 <= g THEN g - 1 + 1 ELSE 0
            /\ \A j \in 1..(g - 1 + 1) : x[j] = frames[1 + j - 1]
        <5>1. 1 \in Int /\ g \in Int
          BY <1>9
        <5> QED
          BY <4>1, <5>1, SubSeqProperties
      <4> HIDE DEF x
      <4>3. Len(x) = g /\ \A j \in 1..g : x[j] = frames[j]
        BY <1>9, <4>2
      <4>4. x = frames
        BY <1>1, <3>1, <4>2, <4>3, SeqEqual
      <4> QED
        BY <4>4 DEF x
    <3> QED
      BY <3>1, <3>2
  <2> QED
    BY <2>1, <2>2
<1> DEFINE ends == Written(tag)
<1>13. Len(ends) = l + 1 /\ (\A k \in 1..l : ends[k] = w[l - k + 1].tag) /\ ends[l + 1] = tag
  <2>1. IF tag \in Containers THEN frames # <<>> /\ Last(frames).wrappers = w ELSE w = <<>>
    BY <1>7, <1>11 DEF tag, w
  <2> QED
    BY <1>6, <2>1, WrittenIs DEF l
<1> HIDE DEF ends
<1>14. ASSUME NEW k \in 1..(l + 1) PROVE output[Len(output) - k + 1].tag = ends[k]
  <2>1. CASE k = l + 1
    <3>1. Len(output) - k + 1 = b + 1
      BY <1>9, <2>1
    <3>2. Own(tag).tag = tag
      BY DEF Own
    <3> QED
      BY <1>9, <1>13, <2>1, <3>1, <3>2
  <2>2. CASE k # l + 1
    <3>1. k \in 1..l /\ l - k + 1 \in 1..l /\ Len(output) - k + 1 = b + 1 + (l - k + 1)
      BY <1>9, <2>2
    <3>2. output[b + 1 + (l - k + 1)] = w[l - k + 1]
      BY <1>9, <3>1
    <3> QED
      BY <1>13, <3>1, <3>2
  <2> QED
    BY <2>1, <2>2
<1>15. l + 1 \in 0..Len(output) /\ Len(output) - (l + 1) = b
  BY <1>9
<1>16. ReaderAfter(ends) = [out |-> SubSeq(output, 1, Len(output) - (l + 1)), crossed |-> FALSE]
  BY <1>1, <1>13, <1>14, <1>15, ReaderCloses
<1>17. output' = SubSeq(output, 1, b) /\ crossed' = FALSE
  BY <1>10, <1>15, <1>16 DEF ends
<1> QED
  BY <1>4, <1>10, <1>12, <1>17 DEF b, g

LEMMA LevelClosed ==
    ASSUME Omissible = {}, AttrInv, EndTag
    PROVE  AttrInv'
<1> DEFINE n == Len(element)
           m == n - 1
<1>1. /\ element \in Seq(Open) /\ frames \in Seq(Frame) /\ output \in Seq(Entry)
      /\ n \in Nat /\ Len(frames) \in Nat /\ Len(output) \in Nat
  BY LenProperties DEF AttrInv
<1>2. PICK at, fr : Layout(element, frames, output, at, fr)
  BY DEF AttrInv
<1>3. /\ n >= 1 /\ crossed' = FALSE
      /\ element' = SubSeq(element, 1, m)
      /\ frames' = SubSeq(frames, 1, fr[m])
      /\ output' = SubSeq(output, 1, at[m])
  BY <1>2, EndOfLast
<1>4. m \in Nat /\ m \in 0..n /\ m <= n
  BY <1>1, <1>3
<1>5. /\ at \in [0..n -> Nat] /\ fr \in [0..n -> Nat] /\ at[0] = 0 /\ fr[0] = 0
      /\ at[n] = Len(output) /\ fr[n] = Len(frames)
  BY <1>2 DEF Layout
<1> HIDE DEF m, n
<1>6. at[m] \in 0..Len(output) /\ fr[m] \in 0..Len(frames)
  <2>1. \A i, j \in 0..n : i <= j => at[i] <= at[j] /\ fr[i] <= fr[j]
    BY <1>1, <1>2, LayoutGrows DEF n
  <2>2. at[m] \in Nat /\ fr[m] \in Nat /\ n \in 0..n
    BY <1>1, <1>4, <1>5
  <2> QED
    BY <1>1, <1>4, <1>5, <2>1, <2>2
<1>7. /\ element' \in Seq(Open) /\ Len(element') = m
      /\ \A k \in 1..m : element'[k] = element[k]
  <2>1. \A k \in 1..m : element[k] \in Open
    BY <1>1, <1>4, ElementOfSeq DEF n
  <2>2. 1 \in Int /\ m \in Int
    BY <1>4
  <2> DEFINE x == SubSeq(element, 1, m)
  <2>3. /\ x \in Seq(Open) /\ Len(x) = IF 1 <= m THEN m - 1 + 1 ELSE 0
        /\ \A k \in 1..(m - 1 + 1) : x[k] = element[1 + k - 1]
    BY <2>1, <2>2, SubSeqProperties
  <2> HIDE DEF x
  <2>4. x \in Seq(Open) /\ Len(x) = m /\ \A k \in 1..m : x[k] = element[k]
    BY <1>4, <2>3
  <2> QED
    BY <1>3, <2>4 DEF x
<1>8. /\ frames' \in Seq(Frame) /\ Len(frames') = fr[m]
      /\ \A k \in 1..fr[m] : frames'[k] = frames[k]
  <2> DEFINE f == fr[m]
             x == SubSeq(frames, 1, f)
  <2>1. \A k \in 1..f : frames[k] \in Frame
    BY <1>1, <1>6, ElementOfSeq
  <2>2. 1 \in Int /\ f \in Int /\ f \in Nat
    BY <1>6
  <2>5. frames' = x
    BY <1>3
  <2> HIDE DEF f
  <2>3. /\ x \in Seq(Frame) /\ Len(x) = IF 1 <= f THEN f - 1 + 1 ELSE 0
        /\ \A k \in 1..(f - 1 + 1) : x[k] = frames[1 + k - 1]
    BY <2>1, <2>2, SubSeqProperties
  <2> HIDE DEF x
  <2>4. x \in Seq(Frame) /\ Len(x) = f /\ \A k \in 1..f : x[k] = frames[k]
    BY <2>2, <2>3
  <2> QED
    BY <2>4, <2>5 DEF f
<1>9. /\ output' \in Seq(Entry) /\ Len(output') = at[m]
      /\ \A k \in 1..at[m] : output'[k] = output[k]
  BY <1>1, <1>3, <1>6, CutFacts
<1> DEFINE at1 == [i \in 0..m |-> at[i]]
           fr1 == [i \in 0..m |-> fr[i]]
<1>10. /\ at1 \in [0..m -> Nat] /\ fr1 \in [0..m -> Nat]
       /\ \A i \in 0..m : at1[i] = at[i] /\ fr1[i] = fr[i]
  BY <1>1, <1>4, <1>5
<1> HIDE DEF at1, fr1
<1>11. SameLevels(element, frames, output, at, fr, element', frames', output', at1, fr1, m)
  BY <1>7, <1>8, <1>9, <1>10 DEF SameLevels
<1>12. /\ \A i \in 1..m : LevelOf(element', frames', output', at1, fr1, i)
       /\ \A i \in 0..m :
             StyleIn(element', i) = IF fr1[i] = 0 THEN Plain ELSE frames'[fr1[i]].effective
  BY <1>1, <1>2, <1>4, <1>11, LevelsKept DEF n
<1>13. Layout(element', frames', output', at1, fr1)
  <2>1. at1[0] = 0 /\ fr1[0] = 0 /\ at1[m] = Len(output') /\ fr1[m] = Len(frames')
    BY <1>4, <1>5, <1>8, <1>9, <1>10
  <2> QED
    BY <1>7, <1>10, <1>12, <2>1 DEF Layout
<1> QED
  BY <1>3, <1>7, <1>8, <1>9, <1>13 DEF AttrInv

LEMMA AttrInductive == AttrInv /\ [Next]_vars => AttrInv'
<1> SUFFICES ASSUME AttrInv, [Next]_vars PROVE AttrInv'
  OBVIOUS
<1>1. CASE UNCHANGED <<element, frames, output, crossed>>
  BY <1>1 DEF AttrInv
<1>2. CASE \E tag \in Tags, own \in Styles : StartTag(tag, own)
  <2>1. CASE Omissible = {}
    BY <1>2, <2>1, LevelOpened
  <2>2. CASE Omissible # {}
    BY <2>2 DEF AttrInv
  <2> QED
    BY <2>1, <2>2
<1>3. CASE EndTag
  <2>1. CASE Omissible = {}
    BY <1>3, <2>1, LevelClosed
  <2>2. CASE Omissible # {}
    BY <2>2 DEF AttrInv
  <2> QED
    BY <2>1, <2>2
<1> QED
  BY <1>1, <1>2, <1>3
     DEF Next, Detect, Unpack, Extract, Boost, Inject, Write, vars, attrVars,
         BeginPage, StartStyle, EndStyle, EndPage
-----------------------------------------------------------------------------
(* What a reader sees.                                                     *)

\* Every place of the output belongs to one level: it is an element's own tag
\* or one of those inserted for it.
LEMMA Entries ==
    ASSUME NEW els \in Seq(Open), NEW frs, NEW out, NEW at, NEW fr,
           Layout(els, frs, out, at, fr), NEW p \in 1..Len(out)
    PROVE  \E j \in 1..Len(els) :
              \/ p = at[j - 1] + 1 /\ out[p] = Own(els[j].tag)
              \/ \E k \in 1..Len(Inside(els, j)) :
                    p = at[j - 1] + 1 + k /\ out[p] = Inside(els, j)[k]
<1> DEFINE n == Len(els)
<1>0. n \in Nat
  BY LenProperties
<1>1. /\ at \in [0..n -> Nat] /\ at[0] = 0 /\ at[n] = Len(out)
      /\ \A j \in 1..n : LevelOf(els, frs, out, at, fr, j)
  BY DEF Layout
<1>2. \A j \in 0..n : at[j] \in Nat
  BY <1>1
<1> HIDE DEF n
<1> DEFINE G == {i \in Nat : i <= n =>
                   \A q \in 1..at[i] : \E j \in 1..n : at[j - 1] + 1 <= q /\ q <= at[j]}
<1>3. 0 \in G
  <2>1. 1..at[0] = {}
    BY <1>1
  <2> QED
    BY <2>1
<1>4. ASSUME NEW i \in Nat, i \in G PROVE i + 1 \in G
  <2> SUFFICES ASSUME i + 1 <= n, NEW q \in 1..at[i + 1]
               PROVE  \E j \in 1..n : at[j - 1] + 1 <= q /\ q <= at[j]
    OBVIOUS
  <2>1. i <= n /\ i + 1 \in 1..n /\ (i + 1) - 1 = i /\ i \in 0..n /\ i + 1 \in 0..n
    BY <1>0
  <2>2. at[i] \in Nat /\ at[i + 1] \in Nat /\ q \in Nat /\ 1 <= q /\ q <= at[i + 1]
    BY <1>2, <2>1
  <2>3. CASE q <= at[i]
    <3>1. q \in 1..at[i]
      BY <2>2, <2>3
    <3> QED
      BY <1>4, <2>1, <3>1
  <2>4. CASE at[i] + 1 <= q
    BY <2>1, <2>2, <2>4
  <2> QED
    BY <2>2, <2>3, <2>4
<1>5. \A i \in Nat : i \in G
  <2> HIDE DEF G
  <2> QED
    BY <1>3, <1>4, SetInduction
<1>6. PICK j \in 1..n : at[j - 1] + 1 <= p /\ p <= at[j]
  BY <1>0, <1>1, <1>5
<1>7. j \in 1..Len(els) /\ LevelOf(els, frs, out, at, fr, j)
  BY <1>1 DEF n
<1>8. at[j - 1] \in Nat /\ at[j] \in Nat /\ p \in Nat
  <2>1. j - 1 \in 0..n /\ j \in 0..n
    BY <1>0
  <2> QED
    BY <1>0, <1>2, <2>1
<1> DEFINE l == Len(Inside(els, j))
           a == at[j - 1]
           k == p - (a + 1)
<1>9. /\ at[j] = a + 1 + l /\ out[a + 1] = Own(els[j].tag)
      /\ \A i \in 1..l : out[a + 1 + i] = Inside(els, j)[i]
  BY <1>7 DEF LevelOf
<1>10. l \in Nat
  BY <1>7, InsideFacts
<1>11. a \in Nat /\ p \in Nat /\ a + 1 <= p /\ p <= a + 1 + l
  BY <1>6, <1>8, <1>9
<1> HIDE DEF l, a
<1>12. CASE p = a + 1
  BY <1>7, <1>9, <1>12 DEF a
<1>13. CASE p # a + 1
  <2>1. k \in 1..l /\ p = a + 1 + k
    BY <1>10, <1>11, <1>13
  <2> HIDE DEF k
  <2>2. out[p] = Inside(els, j)[k]
    BY <1>9, <2>1
  <2> QED
    BY <1>7, <2>1, <2>2 DEF l, a
<1> QED
  BY <1>12, <1>13

\* The other way about.
LEMMA PlacesOf ==
    ASSUME NEW els \in Seq(Open), NEW frs, NEW out, NEW at, NEW fr,
           Layout(els, frs, out, at, fr), NEW j \in 1..Len(els)
    PROVE  /\ at[j - 1] \in Nat /\ at[j - 1] + 1 \in 1..Len(out)
           /\ out[at[j - 1] + 1] = Own(els[j].tag)
           /\ \A k \in 1..Len(Inside(els, j)) :
                 at[j - 1] + 1 + k \in 1..Len(out) /\ out[at[j - 1] + 1 + k] = Inside(els, j)[k]
           /\ \A i \in 1..Len(els) : i < j => at[i - 1] < at[j - 1]
<1> DEFINE n == Len(els)
<1>0. n \in Nat /\ j \in 1..n
  BY LenProperties
<1>1. /\ at \in [0..n -> Nat] /\ at[n] = Len(out)
      /\ \A i \in 1..n : LevelOf(els, frs, out, at, fr, i)
  BY DEF Layout
<1>2. \A i, k \in 0..n : i <= k => at[i] <= at[k]
  BY LayoutGrows
<1>3. \A i \in 1..n : Len(Inside(els, i)) \in Nat
  BY InsideFacts
<1>4. /\ \A i \in 0..n : at[i] \in Nat /\ at[i] <= Len(out)
      /\ Len(out) \in Nat
  BY <1>0, <1>1, <1>2
<1>5. \A i \in 1..n : at[i] = at[i - 1] + 1 + Len(Inside(els, i))
  BY <1>1 DEF LevelOf
<1> HIDE DEF n
<1> DEFINE l == Len(Inside(els, j))
           a == at[j - 1]
<1>6. a \in Nat /\ l \in Nat /\ a + 1 + l <= Len(out)
  <2>1. j \in 0..n /\ j - 1 \in 0..n
    BY <1>0
  <2> QED
    BY <1>0, <1>3, <1>4, <1>5, <2>1
<1>7. /\ out[a + 1] = Own(els[j].tag)
      /\ \A k \in 1..l : out[a + 1 + k] = Inside(els, j)[k]
  BY <1>0, <1>1 DEF LevelOf
<1>8. ASSUME NEW i \in 1..n, i < j PROVE at[i - 1] < a
  <2>1. i \in 0..n /\ i - 1 \in 0..n /\ j - 1 \in 0..n /\ i <= j - 1
    BY <1>0, <1>8
  <2>2. at[i] <= a /\ at[i - 1] \in Nat /\ at[i] \in Nat
    BY <1>2, <1>4, <2>1
  <2>3. at[i] = at[i - 1] + 1 + Len(Inside(els, i)) /\ Len(Inside(els, i)) \in Nat
    BY <1>3, <1>5
  <2> QED
    BY <1>6, <2>2, <2>3
<1> HIDE DEF l, a
<1>9. a + 1 \in 1..Len(out) /\ \A k \in 1..l : a + 1 + k \in 1..Len(out)
  BY <1>4, <1>6
<1> QED
  BY <1>6, <1>7, <1>8, <1>9 DEF l, a, n

LEMMA AttrKeepsStructure == AttrInv => StructureIsKept
<1> SUFFICES ASSUME AttrInv, Omissible = {} PROVE StructureIsKept
  BY DEF StructureIsKept
<1> DEFINE n == Len(element)
           kept == {i \in DOMAIN output : ~output[i].inserted}
<1>1. PICK at, fr : Layout(element, frames, output, at, fr)
  BY DEF AttrInv
<1>2. /\ element \in Seq(Open) /\ output \in Seq(Entry) /\ crossed = FALSE
      /\ n \in Nat /\ DOMAIN element = 1..n /\ DOMAIN output = 1..Len(output)
  BY LenProperties DEF AttrInv
<1> DEFINE f == [i \in 1..n |-> at[i - 1] + 1]
<1>3. ASSUME NEW i \in 1..n
      PROVE  f[i] \in kept /\ output[f[i]].tag = element[i].tag
  <2>1. at[i - 1] + 1 \in 1..Len(output) /\ output[at[i - 1] + 1] = Own(element[i].tag)
    BY <1>1, <1>2, PlacesOf
  <2> QED
    BY <1>2, <2>1 DEF Own
<1>4. ASSUME NEW p \in kept PROVE \E k \in 1..n : f[k] = p
  <2>1. p \in 1..Len(output) /\ ~output[p].inserted
    BY <1>2
  <2>2. PICK j \in 1..n :
            \/ p = at[j - 1] + 1 /\ output[p] = Own(element[j].tag)
            \/ \E k \in 1..Len(Inside(element, j)) :
                  p = at[j - 1] + 1 + k /\ output[p] = Inside(element, j)[k]
    BY <1>1, <1>2, <2>1, Entries
  <2>3. \A k \in 1..Len(Inside(element, j)) : Inside(element, j)[k].inserted
    BY <1>2, InsideFacts
  <2>4. p = at[j - 1] + 1
    BY <2>1, <2>2, <2>3
  <2> QED
    BY <2>4
<1>5. ASSUME NEW j \in 1..n, NEW k \in 1..n, j < k PROVE f[j] < f[k]
  <2>1. at[j - 1] \in Nat /\ at[k - 1] \in Nat /\ at[j - 1] < at[k - 1]
    BY <1>1, <1>2, <1>5, PlacesOf
  <2> QED
    BY <2>1
<1>6. f \in [1..n -> kept]
  <2>1. f = [i \in 1..n |-> f[i]]
    OBVIOUS
  <2> HIDE DEF f, kept
  <2> QED
    BY <1>3, <2>1
<1> HIDE DEF f, n
<1> QED
  BY <1>2, <1>3, <1>4, <1>5, <1>6 DEF StructureIsKept

\* The style of the last level is the cascade's.
LEMMA CascadeIs ==
    ASSUME element \in Seq(Open)
    PROVE  CascadedStyle = StyleIn(element, Len(element))
<1> DEFINE n == Len(element)
<1>1. ASSUME NEW property PROVE Nearest(property) = NearestIn(element, n, property)
  <2> DEFINE S == {i \in DOMAIN element : /\ element[i].tag \in Containers
                                          /\ element[i].own[property] # Nothing}
  <2>1. S = Setters(element, n, property)
    BY LenProperties DEF Setters
  <2>2. CASE S = {}
    BY <2>1, <2>2 DEF NearestIn, Nearest
  <2>3. CASE S # {}
    <3> DEFINE c == CHOOSE k \in S : \A j \in S : k >= j
    <3>1. Nearest(property) = element[c].own[property]
      BY <2>3 DEF Nearest, c
    <3>2. NearestIn(element, n, property) = element[c].own[property]
      BY <2>1, <2>3 DEF NearestIn, c
    <3> QED
      BY <3>1, <3>2
  <2> QED
    BY <2>2, <2>3
<1> QED
  BY <1>1 DEF CascadedStyle, StyleIn

LEMMA AttrShowsCascade == AttrInv => TextKeepsItsStyle
<1> SUFFICES ASSUME AttrInv, Omissible = {}, InnermostContainer \in Decorated
             PROVE  /\ FontColor = CascadedStyle.color
                    /\ CascadedStyle.weight = "bold" =>
                          \E i \in DOMAIN output : output[i].tag = "b" /\ output[i].inserted
  BY DEF TextKeepsItsStyle, ShowsCascade
<1> DEFINE n == Len(element)
           style == StyleIn(element, n)
           C == {i \in 1..n : element[i].tag \in Containers}
           m == CHOOSE i \in C : \A k \in C : i >= k
<1>1. PICK at, fr : Layout(element, frames, output, at, fr)
  BY DEF AttrInv
<1>2. /\ element \in Seq(Open) /\ output \in Seq(Entry)
      /\ n \in Nat /\ DOMAIN element = 1..n /\ DOMAIN output = 1..Len(output)
  BY LenProperties DEF AttrInv
<1>3. CascadedStyle = style
  BY <1>2, CascadeIs
<1>4. C # {} /\ InnermostContainer = element[m].tag
  <2>1. C = {} => InnermostContainer = Nothing
    BY <1>2 DEF InnermostContainer
  <2>2. C # {} => InnermostContainer = element[m].tag
    BY <1>2 DEF InnermostContainer
  <2>3. Nothing \notin Decorated
    BY DEF Nothing, Decorated
  <2> QED
    BY <2>1, <2>2, <2>3
<1>5. m \in C /\ \A k \in C : m >= k
  <2>1. C \in SUBSET (1..n)
    OBVIOUS
  <2> HIDE DEF C
  <2> QED
    BY <1>2, <1>4, <2>1, Extremes
<1>6. m \in 1..n /\ element[m].tag \in Decorated
  BY <1>4, <1>5
<1>7. StyleIn(element, m) = style
  <2>1. \A k \in (m + 1)..n : element[k].tag \notin Containers
    <3> SUFFICES ASSUME NEW k \in (m + 1)..n, element[k].tag \in Containers PROVE FALSE
      OBVIOUS
    <3> HIDE DEF m
    <3>1. k \in C
      BY <1>2, <1>6
    <3>2. m >= k /\ m \in Nat /\ k \in Nat /\ k >= m + 1
      BY <1>2, <1>5, <1>6, <3>1
    <3> QED
      BY <3>2
  <2> HIDE DEF m, C
  <2>2. /\ m \in Nat /\ n \in Nat /\ m <= n
        /\ \A k \in 1..m : element[k] = element[k]
    BY <1>2, <1>6
  <2> QED
    BY ONLY <2>1, <2>2, StyleSame
<1> HIDE DEF m, n, style
<1> DEFINE w == Inside(element, m)
           a == at[m - 1]
<1>8. /\ Len(w) \in Nat
      /\ style.color # Nothing => Len(w) >= 1 /\ w[1] = Inserted("font", style.color)
      /\ style.weight = "bold" => \E k \in 1..Len(w) : w[k] = Inserted("b", Nothing)
  BY <1>2, <1>6, <1>7, InsideFacts DEF n
<1>9. /\ a \in Nat
      /\ \A k \in 1..Len(w) : a + 1 + k \in 1..Len(output) /\ output[a + 1 + k] = w[k]
  BY <1>1, <1>2, <1>6, PlacesOf DEF n
<1> DEFINE F == {i \in 1..Len(output) : output[i].tag = "font" /\ output[i].color # Nothing}
<1>10. ASSUME NEW q \in F
       PROVE  \E j \in 1..n : /\ q = at[j - 1] + 1 + 1
                              /\ element[j].tag \in Decorated
                              /\ StyleIn(element, j).color # Nothing
  <2>1. q \in 1..Len(output) /\ output[q].color # Nothing
    OBVIOUS
  <2>2. PICK j \in 1..n :
            \/ q = at[j - 1] + 1 /\ output[q] = Own(element[j].tag)
            \/ \E k \in 1..Len(Inside(element, j)) :
                  q = at[j - 1] + 1 + k /\ output[q] = Inside(element, j)[k]
    BY <1>1, <1>2, <2>1, Entries DEF n
  <2>3. \A k \in 1..Len(Inside(element, j)) : Inside(element, j)[k].color # Nothing =>
            k = 1 /\ element[j].tag \in Decorated /\ StyleIn(element, j).color # Nothing
    BY <1>2, InsideFacts DEF n
  <2>4. Own(element[j].tag).color = Nothing
    BY DEF Own
  <2> QED
    BY <2>1, <2>2, <2>3, <2>4
<1>11. FontColor = style.color
  <2>1. CASE style.color # Nothing
    <3> DEFINE p == a + 1 + 1
               c == CHOOSE i \in F : \A k \in F : i >= k
    <3>1. p \in F /\ output[p].color = style.color
      <4>1. 1 \in 1..Len(w)
        BY <1>8, <2>1
      <4>2. p \in 1..Len(output) /\ output[p] = Inserted("font", style.color)
        BY <1>8, <1>9, <2>1, <4>1
      <4> QED
        BY <2>1, <4>2 DEF Inserted
    <3>2. ASSUME NEW q \in F PROVE p >= q /\ q \in Nat
      <4>1. PICK j \in 1..n : q = at[j - 1] + 1 + 1 /\ element[j].tag \in Decorated
        BY <1>10
      <4>2. j \in C
        BY <4>1 DEF Decorated, Containers
      <4>3. j <= m
        BY <1>5, <1>6, <4>2
      <4>4. j # m => at[j - 1] < a
        <5>1. \A i \in 1..n : i < m => at[i - 1] < a
          BY <1>1, <1>2, <1>6, PlacesOf DEF n
        <5>2. j # m => j < m
          BY <1>2, <1>6, <4>3
        <5> QED
          BY <5>1, <5>2
      <4>5. at[j - 1] \in Nat
        BY <1>1, <1>2, PlacesOf DEF n
      <4> QED
        BY <1>9, <4>1, <4>4, <4>5
    <3>3. F # {} /\ FontColor = output[c].color
      BY <1>2, <3>1 DEF FontColor
    <3> HIDE DEF F, p
    <3>4. c \in F /\ \A k \in F : c >= k
      BY <3>1, <3>2
    <3>5. c = p
      <4> HIDE DEF c
      <4>1. c >= p /\ p >= c /\ c \in Nat /\ p \in Nat
        BY <3>1, <3>2, <3>4
      <4> QED
        BY <4>1
    <3> QED
      BY <3>1, <3>3, <3>5
  <2>2. CASE style.color = Nothing
    <3>1. ASSUME NEW q \in F PROVE FALSE
      <4>1. PICK j \in 1..n : StyleIn(element, j).color # Nothing
        BY <1>10, <3>1
      <4>2. j \in Nat /\ n \in Nat /\ j <= n
        BY <1>2
      <4>3. StyleIn(element, n).color # Nothing
        BY <4>1, <4>2, StyleSets
      <4> QED
        BY <2>2, <4>3 DEF style
    <3>2. F = {}
      BY <3>1
    <3>3. FontColor = Nothing
      BY <1>2, <3>2 DEF FontColor
    <3> QED
      BY <2>2, <3>3
  <2> QED
    BY <2>1, <2>2
<1>12. style.weight = "bold" =>
          \E i \in DOMAIN output : output[i].tag = "b" /\ output[i].inserted
  <2> SUFFICES ASSUME style.weight = "bold"
               PROVE  \E i \in 1..Len(output) : output[i].tag = "b" /\ output[i].inserted
    BY <1>2
  <2>1. PICK k \in 1..Len(w) : w[k] = Inserted("b", Nothing)
    BY <1>8
  <2>2. a + 1 + k \in 1..Len(output) /\ output[a + 1 + k] = Inserted("b", Nothing)
    BY <1>9, <2>1
  <2> HIDE DEF a
  <2> QED
    BY <2>2 DEF Inserted
<1> QED
  BY <1>3, <1>11, <1>12

\* Text in a cell, paragraph, block or span shows the color and the boldness
\* the cascade gives it, on every page that leaves out no end tag, of whatever
\* depth: the injector's stack is the cascade.
THEOREM TextStyled == Spec => []TextKeepsItsStyle
<1>1. Init => AttrInv
  BY AttrInitInv DEF Init
<1>2. AttrInv /\ [Next]_vars => AttrInv'
  BY AttrInductive
<1>3. AttrInv => TextKeepsItsStyle
  BY AttrShowsCascade
<1> QED
  BY <1>1, <1>2, <1>3, PTL DEF Spec

\* On such a page the injector inserts tags and does nothing else: no end tag
\* of its output crosses another element, and without the inserted elements the
\* open elements are the page's.
THEOREM StructureStays == Spec => []StructureIsKept
<1>1. Init => AttrInv
  BY AttrInitInv DEF Init
<1>2. AttrInv /\ [Next]_vars => AttrInv'
  BY AttrInductive
<1>3. AttrInv => StructureIsKept
  BY AttrKeepsStructure
<1> QED
  BY <1>1, <1>2, <1>3, PTL DEF Spec
=============================================================================
