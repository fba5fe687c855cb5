-------------------------- MODULE BucketName_proof --------------------------
(***************************************************************************)
(* Proof that the names that pass validateBucketName are those of labels   *)
(* as the rules have them, or with a hyphen at an end, for all lengths of  *)
(* names, labels and addresses.                                            *)
(***************************************************************************)
EXTENDS BucketName, FiniteSetTheorems, SequenceTheorems, TLAPS

-----------------------------------------------------------------------------
(* The inductive invariant: what the positions of the periods in the name  *)
(* have to do with its labels.                                             *)

Periods == {i \in DOMAIN name : name[i] = "period"}

(* A label begins behind each of these.                                    *)
Marks == Periods \cup {0}

Neighbours(i, j, S) == i < j /\ \A k \in S : ~(i < k /\ k < j)

NameType ==
  /\ name \in Seq(Classes)
  /\ labels \in Seq(Seq(Classes \ {"period"})) \ {<< >>}

(* The labels have all the characters of the name but its periods.         *)
SameCharacters ==
  ToSet(name) \ {"period"} = UNION {ToSet(labels[m]) : m \in DOMAIN labels}

(* Each period begins a label.                                             *)
OneMore == IsFiniteSet(Periods) /\ Cardinality(Periods) = Len(labels) - 1

(* Two neighbouring periods enclose a label, and each label but the last   *)
(* is enclosed by two, or by the beginning and a period.                   *)
GapsAreLabels ==
  \A i, j \in Marks :
    Neighbours(i, j, Marks) =>
      \E m \in 1..(Len(labels) - 1) : Len(labels[m]) = j - i - 1

LabelsAreGaps ==
  \A m \in 1..(Len(labels) - 1) :
    \E i, j \in Marks : Neighbours(i, j, Marks) /\ Len(labels[m]) = j - i - 1

(* The last label is what follows the last period.                         *)
EndsAt(s) ==
  /\ \A k \in Marks : k <= s
  /\ Len(labels[Len(labels)]) = Len(name) - s

LastIsRest == \E s \in Marks : EndsAt(s)

IInv ==
  /\ NameType /\ SameCharacters /\ OneMore
  /\ GapsAreLabels /\ LabelsAreGaps /\ LastIsRest

-----------------------------------------------------------------------------
LEMMA InitInv == Init => IInv
<1> SUFFICES ASSUME Init PROVE IInv
  OBVIOUS
<1>1. name = << >> /\ labels = << << >> >>
  BY DEF Init
<1>2. /\ Len(name) = 0 /\ DOMAIN name = {}
      /\ Len(labels) = 1 /\ DOMAIN labels = {1} /\ labels[1] = << >>
  BY <1>1
<1>3. Periods = {} /\ Marks = {0}
  BY <1>2 DEF Periods, Marks
<1>4. NameType
  BY <1>1 DEF NameType
<1>5. SameCharacters
  BY <1>1, <1>2 DEF SameCharacters, ToSet
<1>6. OneMore
  BY <1>2, <1>3, FS_EmptySet DEF OneMore
<1>7. GapsAreLabels /\ LabelsAreGaps /\ LastIsRest
  BY <1>1, <1>2, <1>3 DEF GapsAreLabels, LabelsAreGaps, LastIsRest, EndsAt, Neighbours
<1> QED BY <1>4, <1>5, <1>6, <1>7 DEF IInv

-----------------------------------------------------------------------------
(* A character more.                                                       *)

LEMMA NameFacts ==
  ASSUME NameType
  PROVE  /\ Len(name) \in Nat /\ DOMAIN name = 1..Len(name)
         /\ \A i \in 1..Len(name) : name[i] \in Classes
         /\ Len(labels) \in Nat \ {0} /\ DOMAIN labels = 1..Len(labels)
         /\ \A m \in 1..Len(labels) :
              /\ labels[m] \in Seq(Classes \ {"period"})
              /\ Len(labels[m]) \in Nat /\ DOMAIN labels[m] = 1..Len(labels[m])
         /\ Periods \subseteq 1..Len(name) /\ Marks \subseteq 0..Len(name)
         /\ 0 \in Marks
<1>1. Len(name) \in Nat /\ DOMAIN name = 1..Len(name)
  BY DEF NameType
<1>2. Len(labels) \in Nat /\ labels # << >> /\ DOMAIN labels = 1..Len(labels)
  BY DEF NameType
<1>3. Len(labels) # 0
  BY DEF NameType
<1>4. ASSUME NEW m \in 1..Len(labels)
      PROVE  /\ labels[m] \in Seq(Classes \ {"period"})
             /\ Len(labels[m]) \in Nat /\ DOMAIN labels[m] = 1..Len(labels[m])
  <2>1. labels[m] \in Seq(Classes \ {"period"})
    BY DEF NameType
  <2> QED BY <2>1
<1>5. \A i \in 1..Len(name) : name[i] \in Classes
  BY DEF NameType
<1>6. Periods \subseteq 1..Len(name) /\ Marks \subseteq 0..Len(name) /\ 0 \in Marks
  BY <1>1 DEF Periods, Marks
<1> QED BY <1>1, <1>2, <1>3, <1>4, <1>5, <1>6

LEMMA NameGrows ==
  ASSUME NameType, NEW class \in Classes, Write(class)
  PROVE  /\ Len(name') = Len(name) + 1 /\ DOMAIN name' = 1..(Len(name) + 1)
         /\ \A i \in 1..Len(name) : name'[i] = name[i]
         /\ name'[Len(name) + 1] = class
         /\ name' \in Seq(Classes)
         /\ ToSet(name') = ToSet(name) \cup {class}
         /\ class = "period" => /\ Periods' = Periods \cup {Len(name) + 1}
                                /\ Marks' = Marks \cup {Len(name) + 1}
         /\ class # "period" => Periods' = Periods /\ Marks' = Marks
<1> DEFINE n == Len(name)
<1>1. name \in Seq(Classes) /\ name' = Append(name, class) /\ n \in Nat
  BY DEF NameType, Write
<1>2. /\ Len(name') = n + 1 /\ DOMAIN name' = 1..(n + 1) /\ name' \in Seq(Classes)
      /\ DOMAIN name = 1..n
      /\ \A i \in 1..n : name'[i] = name[i]
      /\ name'[n + 1] = class
  BY <1>1
<1> HIDE DEF n
<1>3. ToSet(name') = ToSet(name) \cup {class}
  <2>1. 1..(n + 1) = 1..n \cup {n + 1}
    BY <1>1
  <2> QED BY <1>2, <2>1 DEF ToSet
<1>4. Periods' = {i \in 1..(n + 1) : name'[i] = "period"}
  BY <1>2 DEF Periods
<1>5. class = "period" => Periods' = Periods \cup {n + 1}
  BY <1>1, <1>2, <1>4 DEF Periods
<1>6. class # "period" => Periods' = Periods
  BY <1>1, <1>2, <1>4 DEF Periods
<1>7. Marks' = Periods' \cup {0}
  BY DEF Marks
<1> QED BY <1>2, <1>3, <1>5, <1>6, <1>7 DEF Marks, n

(* A period begins a label.                                                *)
LEMMA LabelBegins ==
  ASSUME NameType, Write("period")
  PROVE  /\ Len(labels') = Len(labels) + 1
         /\ DOMAIN labels' = 1..(Len(labels) + 1)
         /\ \A m \in 1..Len(labels) : labels'[m] = labels[m]
         /\ labels'[Len(labels) + 1] = << >>
         /\ labels' \in Seq(Seq(Classes \ {"period"})) \ {<< >>}
<1>1. labels \in Seq(Seq(Classes \ {"period"})) /\ labels' = Append(labels, << >>)
  BY DEF NameType, Write
<1>2. << >> \in Seq(Classes \ {"period"})
  OBVIOUS
<1>3. labels' \in Seq(Seq(Classes \ {"period"})) /\ Len(labels') = Len(labels) + 1
  BY <1>1, <1>2, AppendProperties
<1>4. labels' # << >>
  BY <1>1, <1>2, AppendProperties
<1> QED BY <1>1, <1>2, <1>3, <1>4, AppendProperties

(* Any other character belongs to the last label.                          *)
LEMMA LabelGrows ==
  ASSUME NameType, NEW class \in Classes \ {"period"}, Write(class)
  PROVE  /\ Len(labels') = Len(labels) /\ DOMAIN labels' = DOMAIN labels
         /\ \A m \in 1..(Len(labels) - 1) : labels'[m] = labels[m]
         /\ Len(labels'[Len(labels)]) = Len(labels[Len(labels)]) + 1
         /\ ToSet(labels'[Len(labels)]) = ToSet(labels[Len(labels)]) \cup {class}
         /\ labels' \in Seq(Seq(Classes \ {"period"})) \ {<< >>}
<1> DEFINE L == Len(labels)
           last == labels[L]
<1>1. /\ labels \in Seq(Seq(Classes \ {"period"})) /\ labels # << >>
      /\ L \in Nat \ {0} /\ DOMAIN labels = 1..L /\ L \in 1..L
      /\ last \in Seq(Classes \ {"period"})
  BY NameFacts DEF NameType
<1>2. labels' = [labels EXCEPT ![L] = Append(last, class)]
  BY DEF Write
<1> HIDE DEF L, last
<1>3. /\ Append(last, class) \in Seq(Classes \ {"period"})
      /\ Len(Append(last, class)) = Len(last) + 1
      /\ ToSet(Append(last, class)) = ToSet(last) \cup {class}
  <2>1. /\ Len(last) \in Nat /\ DOMAIN last = 1..Len(last)
        /\ DOMAIN Append(last, class) = 1..(Len(last) + 1)
        /\ \A i \in 1..Len(last) : Append(last, class)[i] = last[i]
        /\ Append(last, class)[Len(last) + 1] = class
    BY <1>1
  <2>2. 1..(Len(last) + 1) = 1..Len(last) \cup {Len(last) + 1}
    BY <2>1
  <2>3. ToSet(Append(last, class)) = ToSet(last) \cup {class}
    BY <2>1, <2>2 DEF ToSet
  <2> QED BY <1>1, <2>3
<1>4. DOMAIN labels' = 1..L /\ labels'[L] = Append(last, class)
  BY <1>1, <1>2
<1>5. \A m \in 1..(L - 1) : labels'[m] = labels[m]
  BY <1>1, <1>2
<1>6. /\ labels' \in Seq(Seq(Classes \ {"period"})) /\ Len(labels') = L
      /\ labels' # << >>
  BY <1>1, <1>2, <1>3, ExceptSeq
<1> QED BY <1>1, <1>3, <1>4, <1>5, <1>6 DEF L, last

-----------------------------------------------------------------------------
(* The invariant is preserved.                                             *)

LEMMA PeriodWritten == IInv /\ Write("period") => IInv'
<1> SUFFICES ASSUME IInv, Write("period") PROVE IInv'
  OBVIOUS
<1> DEFINE n == Len(name)
           L == Len(labels)
<1>1. NameType /\ "period" \in Classes
  BY DEF IInv, Classes
<1>2. /\ n \in Nat /\ L \in Nat \ {0} /\ DOMAIN labels = 1..L
      /\ Periods \subseteq 1..n /\ Marks \subseteq 0..n /\ 0 \in Marks
  BY <1>1, NameFacts
<1>3. /\ Len(name') = n + 1 /\ name' \in Seq(Classes)
      /\ ToSet(name') = ToSet(name) \cup {"period"}
      /\ Periods' = Periods \cup {n + 1} /\ Marks' = Marks \cup {n + 1}
  BY <1>1, NameGrows
<1>4. /\ Len(labels') = L + 1 /\ DOMAIN labels' = 1..(L + 1)
      /\ \A m \in 1..L : labels'[m] = labels[m]
      /\ labels'[L + 1] = << >>
      /\ labels' \in Seq(Seq(Classes \ {"period"})) \ {<< >>}
  BY <1>1, LabelBegins
<1> HIDE DEF n, L
<1>5. NameType'
  BY <1>3, <1>4 DEF NameType
<1>6. SameCharacters'
  <2>1. ToSet(<< >>) = {}
    BY DEF ToSet
  <2>2. 1..(L + 1) = 1..L \cup {L + 1}
    BY <1>2
  <2>3. UNION {ToSet(labels'[m]) : m \in 1..(L + 1)}
          = UNION {ToSet(labels[m]) : m \in 1..L}
    BY <1>4, <2>1, <2>2
  <2>4. ToSet(name') \ {"period"} = ToSet(name) \ {"period"}
    BY <1>3
  <2> QED BY <1>2, <1>4, <2>3, <2>4 DEF IInv, SameCharacters
<1>7. OneMore'
  <2>1. IsFiniteSet(Periods) /\ Cardinality(Periods) = L - 1 /\ n + 1 \notin Periods
    BY <1>2 DEF IInv, OneMore, L
  <2>2. IsFiniteSet(Periods') /\ Cardinality(Periods') = (L - 1) + 1
    BY <1>3, <2>1, FS_AddElement
  <2> QED BY <1>2, <1>4, <2>2 DEF OneMore
<1>8. PICK s \in Marks : EndsAt(s)
  BY DEF IInv, LastIsRest
<1>9. (\A k \in Marks : k <= s) /\ Len(labels[L]) = n - s /\ s \in 0..n
  BY <1>2, <1>8 DEF EndsAt, L, n
<1>10. Len(labels'[L]) = n - s
  <2>1. L \in 1..L
    BY <1>2
  <2> QED BY <1>4, <1>9, <2>1
<1>11. GapsAreLabels'
  <2> SUFFICES ASSUME NEW i \in Marks', NEW j \in Marks', Neighbours(i, j, Marks')
               PROVE  \E m \in 1..L : Len(labels'[m]) = j - i - 1
    BY <1>2, <1>4 DEF GapsAreLabels
  <2>1. i < j /\ i \in Marks /\ i \in 0..n /\ j \in 0..(n + 1)
    BY <1>2, <1>3 DEF Neighbours
  <2>2. CASE j \in Marks
    <3>1. Neighbours(i, j, Marks)
      BY <1>3 DEF Neighbours
    <3>2. PICK m \in 1..(L - 1) : Len(labels[m]) = j - i - 1
      BY <2>1, <2>2, <3>1 DEF IInv, GapsAreLabels, L
    <3> QED BY <1>2, <1>4, <3>2
  <2>3. CASE j = n + 1
    <3>1. s <= i
      BY <1>2, <1>3, <1>8, <1>9, <2>1, <2>3 DEF Neighbours
    <3>2. i = s
      BY <1>9, <2>1, <3>1
    <3>3. Len(labels'[L]) = j - i - 1
      BY <1>2, <1>9, <1>10, <2>3, <3>2
    <3> QED BY <1>2, <3>3
  <2> QED BY <1>3, <2>2, <2>3
<1>12. LabelsAreGaps'
  <2> SUFFICES ASSUME NEW m \in 1..L
               PROVE  \E i, j \in Marks' : /\ Neighbours(i, j, Marks')
                                           /\ Len(labels'[m]) = j - i - 1
    BY <1>2, <1>4 DEF LabelsAreGaps
  <2>1. CASE m # L
    <3>1. m \in 1..(L - 1)
      BY <1>2, <2>1
    <3>2. PICK i \in Marks, j \in Marks :
            Neighbours(i, j, Marks) /\ Len(labels[m]) = j - i - 1
      BY <3>1 DEF IInv, LabelsAreGaps, L
    <3>3. Neighbours(i, j, Marks')
      BY <1>2, <1>3, <3>2 DEF Neighbours
    <3> QED BY <1>3, <1>4, <3>2, <3>3
  <2>2. CASE m = L
    <3>1. s \in Marks' /\ n + 1 \in Marks'
      BY <1>3
    <3>2. Neighbours(s, n + 1, Marks')
      BY <1>2, <1>3, <1>9 DEF Neighbours
    <3>3. Len(labels'[m]) = (n + 1) - s - 1
      BY <1>2, <1>9, <1>10, <2>2
    <3> QED BY <3>1, <3>2, <3>3
  <2> QED BY <2>1, <2>2
<1>13. LastIsRest'
  <2>1. \A k \in Marks' : k <= n + 1
    BY <1>2, <1>3
  <2>2. Len(labels'[L + 1]) = Len(name') - (n + 1)
    BY <1>2, <1>3, <1>4
  <2> QED BY <1>3, <1>4, <2>1, <2>2 DEF LastIsRest, EndsAt
<1> QED BY <1>5, <1>6, <1>7, <1>11, <1>12, <1>13 DEF IInv

LEMMA OtherWritten ==
  ASSUME IInv, NEW class \in Classes \ {"period"}, Write(class)
  PROVE  IInv'
<1> DEFINE n == Len(name)
           L == Len(labels)
<1>1. NameType
  BY DEF IInv
<1>2. /\ n \in Nat /\ L \in Nat \ {0} /\ DOMAIN labels = 1..L /\ L \in 1..L
      /\ Marks \subseteq 0..n
  BY <1>1, NameFacts
<1>3. /\ Len(name') = n + 1 /\ name' \in Seq(Classes)
      /\ ToSet(name') = ToSet(name) \cup {class}
      /\ Periods' = Periods /\ Marks' = Marks
  BY <1>1, NameGrows
<1>4. /\ Len(labels') = L /\ DOMAIN labels' = 1..L
      /\ \A m \in 1..(L - 1) : labels'[m] = labels[m]
      /\ Len(labels'[L]) = Len(labels[L]) + 1
      /\ ToSet(labels'[L]) = ToSet(labels[L]) \cup {class}
      /\ labels' \in Seq(Seq(Classes \ {"period"})) \ {<< >>}
  BY <1>1, <1>2, LabelGrows
<1> HIDE DEF n, L
<1>5. NameType'
  BY <1>3, <1>4 DEF NameType
<1>6. SameCharacters'
  <2>1. 1..L = 1..(L - 1) \cup {L}
    BY <1>2
  <2>2. UNION {ToSet(labels'[m]) : m \in 1..L}
          = (UNION {ToSet(labels[m]) : m \in 1..L}) \cup {class}
    <3> DEFINE Before == UNION {ToSet(labels[m]) : m \in 1..(L - 1)}
    <3>1. UNION {ToSet(labels[m]) : m \in 1..L} = Before \cup ToSet(labels[L])
      BY <2>1
    <3>2. UNION {ToSet(labels'[m]) : m \in 1..(L - 1)} = Before
      BY <1>4
    <3>3. UNION {ToSet(labels'[m]) : m \in 1..L}
            = (UNION {ToSet(labels'[m]) : m \in 1..(L - 1)}) \cup ToSet(labels'[L])
      BY <2>1
    <3> QED BY <1>4, <3>1, <3>2, <3>3
  <2>3. ToSet(name') \ {"period"} = (ToSet(name) \ {"period"}) \cup {class}
    BY <1>3
  <2> QED BY <1>2, <1>4, <2>2, <2>3 DEF IInv, SameCharacters
<1>7. OneMore'
  BY <1>3, <1>4 DEF IInv, OneMore, L
<1>8. GapsAreLabels'
  <2> SUFFICES ASSUME NEW i \in Marks, NEW j \in Marks, Neighbours(i, j, Marks)
               PROVE  \E m \in 1..(L - 1) : Len(labels'[m]) = j - i - 1
    BY <1>3, <1>4 DEF GapsAreLabels
  <2>1. PICK m \in 1..(L - 1) : Len(labels[m]) = j - i - 1
    BY DEF IInv, GapsAreLabels, L
  <2> QED BY <1>4, <2>1
<1>9. LabelsAreGaps'
  <2> SUFFICES ASSUME NEW m \in 1..(L - 1)
               PROVE  \E i, j \in Marks : /\ Neighbours(i, j, Marks)
                                          /\ Len(labels'[m]) = j - i - 1
    BY <1>3, <1>4 DEF LabelsAreGaps
  <2>1. PICK i \in Marks, j \in Marks :
          Neighbours(i, j, Marks) /\ Len(labels[m]) = j - i - 1
    BY DEF IInv, LabelsAreGaps, L
  <2> QED BY <1>4, <2>1
<1>10. LastIsRest'
  <2>1. PICK s \in Marks : EndsAt(s)
    BY DEF IInv, LastIsRest
  <2>2. EndsAt(s)'
    <3>1. Len(labels[L]) = n - s /\ \A k \in Marks : k <= s
      BY <2>1 DEF EndsAt, L, n
    <3>2. Len(labels'[L]) = Len(name') - s
      BY <1>2, <1>3, <1>4, <3>1
    <3> QED BY <1>3, <1>4, <3>1, <3>2 DEF EndsAt
  <2> QED BY <1>3, <2>2 DEF LastIsRest
<1> QED BY <1>5, <1>6, <1>7, <1>8, <1>9, <1>10 DEF IInv

LEMMA NextInv == IInv /\ [Next]_vars => IInv'
<1> SUFFICES ASSUME IInv, [Next]_vars PROVE IInv'
  OBVIOUS
<1>1. ASSUME NEW class \in Classes, Write(class)
      PROVE  IInv'
  BY <1>1, PeriodWritten, OtherWritten
<1>2. CASE UNCHANGED vars
  <2>1. name' = name /\ labels' = labels
    BY <1>2 DEF vars
  <2>2. Periods' = Periods /\ Marks' = Marks
    BY <2>1 DEF Periods, Marks
  <2>3. NameType' /\ SameCharacters' /\ OneMore'
    BY <2>1, <2>2 DEF IInv, NameType, SameCharacters, OneMore
  <2>4. GapsAreLabels' /\ LabelsAreGaps'
    BY <2>1, <2>2 DEF IInv, GapsAreLabels, LabelsAreGaps
  <2>5. LastIsRest'
    BY <2>1, <2>2 DEF IInv, LastIsRest, EndsAt
  <2> QED BY <2>3, <2>4, <2>5 DEF IInv
<1> QED BY <1>1, <1>2 DEF Next

-----------------------------------------------------------------------------
(* What each test of the code says of the labels.                          *)

LEMMA CharactersOfLabels ==
  ASSUME IInv, NEW S, "period" \in S
  PROVE  OnlyOf(S) <=> \A m \in 1..Len(labels) : ToSet(labels[m]) \subseteq S \ {"period"}
<1> DEFINE C == UNION {ToSet(labels[m]) : m \in 1..Len(labels)}
<1>1. ToSet(name) \ {"period"} = C
  BY NameFacts DEF IInv, SameCharacters
<1>2. C \subseteq S \ {"period"} <=>
        \A m \in 1..Len(labels) : ToSet(labels[m]) \subseteq S \ {"period"}
  OBVIOUS
<1>3. ToSet(name) \subseteq S <=> ToSet(name) \ {"period"} \subseteq S \ {"period"}
  OBVIOUS
<1> HIDE DEF C
<1> QED BY <1>1, <1>2, <1>3 DEF OnlyOf

LEMMA PeriodsOfLabels ==
  ASSUME IInv, name # << >>
  PROVE  (/\ name[1] # "period" /\ name[Len(name)] # "period"
          /\ ~EmptyLabelInside)
         <=> \A m \in 1..Len(labels) : labels[m] # << >>
<1> DEFINE n == Len(name)
           L == Len(labels)
<1>1. /\ n \in Nat /\ DOMAIN name = 1..n /\ L \in Nat \ {0}
      /\ Marks \subseteq 0..n /\ 0 \in Marks
      /\ \A m \in 1..L : Len(labels[m]) \in Nat /\ (labels[m] = << >> <=> Len(labels[m]) = 0)
  BY NameFacts DEF IInv
<1>2. n >= 1
  BY DEF IInv, NameType
<1>3. \A i \in 1..n : i \in Marks <=> name[i] = "period"
  BY <1>1 DEF Marks, Periods
<1>4. EmptyLabelInside <=> \E i \in 1..(n - 1) : i \in Marks /\ i + 1 \in Marks
  BY <1>1, <1>3 DEF EmptyLabelInside
<1>5. PICK s \in Marks : EndsAt(s)
  BY DEF IInv, LastIsRest
<1>6. s \in 0..n /\ (\A k \in Marks : k <= s) /\ Len(labels[L]) = n - s
  BY <1>1, <1>5 DEF EndsAt
<1>7. /\ \A i, j \in Marks :
           Neighbours(i, j, Marks) => \E m \in 1..(L - 1) : Len(labels[m]) = j - i - 1
      /\ \A m \in 1..(L - 1) :
           \E i, j \in Marks : Neighbours(i, j, Marks) /\ Len(labels[m]) = j - i - 1
  BY DEF IInv, GapsAreLabels, LabelsAreGaps
<1> HIDE DEF n, L
<1>8. ASSUME NEW i \in Marks, i + 1 \in Marks
      PROVE  \E m \in 1..L : labels[m] = << >>
  <2>1. Neighbours(i, i + 1, Marks)
    BY <1>1 DEF Neighbours
  <2>2. PICK m \in 1..(L - 1) : Len(labels[m]) = (i + 1) - i - 1
    BY <1>7, <1>8, <2>1
  <2> QED BY <1>1, <2>2
<1>9. ASSUME n \in Marks
      PROVE  \E m \in 1..L : labels[m] = << >>
  <2>1. n = s
    BY <1>1, <1>6, <1>9
  <2>2. L \in 1..L /\ Len(labels[L]) = 0
    BY <1>1, <1>6, <2>1
  <2> QED BY <1>1, <2>2
<1>10. ASSUME NEW m \in 1..L, labels[m] = << >>
       PROVE  \/ n \in Marks
              \/ \E i \in 0..(n - 1) : i \in Marks /\ i + 1 \in Marks
  <2>1. CASE m = L
    <3>1. Len(labels[L]) = 0
      BY <1>1, <1>10, <2>1
    <3>2. s = n
      BY <1>1, <1>6, <3>1
    <3> QED BY <1>5, <3>2
  <2>2. CASE m # L
    <3>1. m \in 1..(L - 1)
      BY <1>1, <2>2
    <3>2. PICK i \in Marks, j \in Marks :
            Neighbours(i, j, Marks) /\ Len(labels[m]) = j - i - 1
      BY <1>7, <3>1
    <3>3. j = i + 1 /\ i \in 0..(n - 1)
      BY <1>1, <1>10, <3>2 DEF Neighbours
    <3> QED BY <3>3
  <2> QED BY <2>1, <2>2
<1>11. /\ name[1] = "period" <=> 1 \in Marks
       /\ name[n] = "period" <=> n \in Marks
  BY <1>1, <1>2, <1>3
<1>12. (\E m \in 1..L : labels[m] = << >>)
         <=> \/ n \in Marks
             \/ \E i \in 0..(n - 1) : i \in Marks /\ i + 1 \in Marks
  BY <1>8, <1>9, <1>10
<1>13. (\E i \in 0..(n - 1) : i \in Marks /\ i + 1 \in Marks)
         <=> 1 \in Marks \/ EmptyLabelInside
  <2>1. 0..(n - 1) = {0} \cup 1..(n - 1)
    BY <1>1, <1>2
  <2> QED BY <1>1, <1>4, <2>1
<1> QED BY <1>11, <1>12, <1>13 DEF n, L

LEMMA AddressOfLabels ==
  ASSUME IInv
  PROVE  AddressLike <=>
           Len(labels) = Octets /\ \A m \in 1..Len(labels) : IsOctet(labels[m])
<1> DEFINE n == Len(name)
           L == Len(labels)
<1>1. /\ n \in Nat /\ L \in Nat \ {0} /\ DOMAIN name = 1..n
      /\ Periods \subseteq 1..n /\ Marks \subseteq 0..n /\ 0 \in Marks
      /\ \A m \in 1..L : Len(labels[m]) \in Nat /\ DOMAIN labels[m] = 1..Len(labels[m])
  BY NameFacts DEF IInv
<1>2. Octets \in Nat /\ OctetDigits \in Nat
  BY LengthsAssumption DEF LengthsAssumption
<1>3. PICK s \in Marks : EndsAt(s)
  BY DEF IInv, LastIsRest
<1>4. s \in 0..n /\ (\A k \in Marks : k <= s) /\ Len(labels[L]) = n - s
  BY <1>1, <1>3 DEF EndsAt
<1>5. Cuts = Marks \cup {n + 1}
  BY <1>1 DEF Cuts, Marks, Periods
<1>6. Cardinality(Cuts) = Octets + 1 <=> L = Octets
  <2>1. /\ IsFiniteSet(Periods) /\ Cardinality(Periods) = L - 1
        /\ 0 \notin Periods
    BY <1>1 DEF IInv, OneMore
  <2>2. IsFiniteSet(Marks) /\ Cardinality(Marks) = (L - 1) + 1
    BY <2>1, FS_AddElement DEF Marks
  <2>3. n + 1 \notin Marks
    BY <1>1
  <2>4. Cardinality(Cuts) = ((L - 1) + 1) + 1
    BY <1>5, <2>2, <2>3, FS_AddElement
  <2> QED BY <1>1, <1>2, <2>4
<1>7. OnlyOf({"digit", "period"}) <=> \A m \in 1..L : ToSet(labels[m]) \subseteq {"digit"}
  <2>1. {"digit", "period"} \ {"period"} = {"digit"}
    OBVIOUS
  <2> QED BY <2>1, CharactersOfLabels
<1> HIDE DEF n, L
<1>8. ASSUME \A i, j \in Cuts : Neighbours(i, j, Cuts) => j - i \in 2..(OctetDigits + 1),
             NEW m \in 1..L
      PROVE  Len(labels[m]) \in 1..OctetDigits
  <2>1. PICK i \in Cuts, j \in Cuts :
          /\ Neighbours(i, j, Cuts) /\ i \in Nat /\ j \in Nat
          /\ Len(labels[m]) = j - i - 1
    <3>1. CASE m = L
      <4>1. Neighbours(s, n + 1, Cuts)
        BY <1>1, <1>4, <1>5 DEF Neighbours
      <4>2. Len(labels[m]) = (n + 1) - s - 1 /\ s \in Nat /\ n + 1 \in Nat
        BY <1>1, <1>4, <3>1
      <4> QED BY <1>5, <4>1, <4>2
    <3>2. CASE m # L
      <4>1. m \in 1..(L - 1)
        BY <1>1, <3>2
      <4>2. PICK i \in Marks, j \in Marks :
              Neighbours(i, j, Marks) /\ Len(labels[m]) = j - i - 1
        BY <4>1 DEF IInv, LabelsAreGaps, L
      <4>3. Neighbours(i, j, Cuts) /\ i \in Nat /\ j \in Nat
        BY <1>1, <1>5, <4>2 DEF Neighbours
      <4> QED BY <1>5, <4>2, <4>3
    <3> QED BY <3>1, <3>2
  <2>2. j - i \in 2..(OctetDigits + 1)
    BY <1>8, <2>1
  <2> QED BY <1>2, <2>1, <2>2
<1>9. ASSUME \A m \in 1..L : Len(labels[m]) \in 1..OctetDigits,
             NEW i \in Cuts, NEW j \in Cuts, Neighbours(i, j, Cuts)
      PROVE  j - i \in 2..(OctetDigits + 1)
  <2>1. i \in Marks /\ i \in 0..n /\ j \in 0..(n + 1) /\ i < j
    BY <1>1, <1>5, <1>9 DEF Neighbours
  <2>2. \E m \in 1..L : Len(labels[m]) = j - i - 1
    <3>1. CASE j \in Marks
      <4>1. Neighbours(i, j, Marks)
        BY <1>5, <1>9 DEF Neighbours
      <4>2. \E m \in 1..(L - 1) : Len(labels[m]) = j - i - 1
        BY <2>1, <3>1, <4>1 DEF IInv, GapsAreLabels, L
      <4> QED BY <1>1, <4>2
    <3>2. CASE j = n + 1
      <4>1. s <= i
        BY <1>1, <1>4, <1>5, <1>9, <2>1, <3>2 DEF Neighbours
      <4>2. i = s
        BY <1>4, <2>1, <4>1
      <4> QED BY <1>1, <1>4, <3>2, <4>2
    <3> QED BY <1>5, <3>1, <3>2
  <2> QED BY <1>2, <1>9, <2>1, <2>2
<1>10. \A m \in 1..L :
         IsOctet(labels[m]) <=>
           Len(labels[m]) \in 1..OctetDigits /\ ToSet(labels[m]) \subseteq {"digit"}
  <2> SUFFICES ASSUME NEW m \in 1..L, Len(labels[m]) \in 1..OctetDigits,
                      ToSet(labels[m]) \subseteq {"digit"}
               PROVE  ToSet(labels[m]) = {"digit"}
    BY DEF IsOctet
  <2>1. 1 \in DOMAIN labels[m]
    BY <1>1, <1>2
  <2> QED BY <2>1 DEF ToSet
<1>11. (\A i, j \in Cuts : Neighbours(i, j, Cuts) => j - i \in 2..(OctetDigits + 1))
         <=> \A m \in 1..L : Len(labels[m]) \in 1..OctetDigits
  BY <1>8, <1>9
<1>12. AddressLike <=>
         /\ OnlyOf({"digit", "period"}) /\ Cardinality(Cuts) = Octets + 1
         /\ \A i, j \in Cuts : Neighbours(i, j, Cuts) => j - i \in 2..(OctetDigits + 1)
  BY DEF AddressLike, Neighbours
<1> QED BY <1>6, <1>7, <1>10, <1>11, <1>12 DEF L

-----------------------------------------------------------------------------
(* The invariant of the names.                                             *)
THEOREM NameInvariance == Spec => []IInv
<1> QED BY InitInv, NextInv, PTL DEF Spec

(* The six tests of validateBucketName for the other regions pass exactly  *)
(* the names of labels that are not the octets of an address, whatever the *)
(* limits of the lengths are; of the rules for a label they leave out one, *)
(* that it neither begins nor ends with a hyphen.                          *)
THEOREM NamesProper == Spec => []NamesAreLabels
<1>1. IInv => NamesAreLabels
  <2> SUFFICES ASSUME IInv, Len(name) \in MinLength..MaxLength
               PROVE  NamesAreLabels
    BY DEF NamesAreLabels, ValidElsewhere
  <2>1. DOMAIN labels = 1..Len(labels)
    BY NameFacts DEF IInv
  <2>2. name # << >>
    <3>1. MinLength \in Nat \ {0}
      BY LengthsAssumption DEF LengthsAssumption
    <3> QED BY <3>1
  <2> DEFINE Chars == {"lower", "digit", "hyphen"}
  <2>3. OnlyOf(DnsClasses) <=>
          \A m \in 1..Len(labels) : ToSet(labels[m]) \subseteq Chars
    <3>1. "period" \in DnsClasses /\ DnsClasses \ {"period"} = Chars
      BY DEF DnsClasses
    <3> QED BY <3>1, CharactersOfLabels
  <2>4. ASSUME NEW label
        PROVE  IsLabel(label) \/ HyphenAtEnd(label)
                 <=> label # << >> /\ ToSet(label) \subseteq Chars
    BY Zenon DEF IsLabel, HyphenAtEnd
  <2> HIDE DEF Chars
  <2> QED BY <2>1, <2>2, <2>3, <2>4, PeriodsOfLabels, AddressOfLabels
          DEF NamesAreLabels, ValidElsewhere
<1> QED BY NameInvariance, <1>1, PTL

(* A name that passes in another region passes in us-east-1.               *)
THEOREM NamesPortable == Spec => []PortableToEast
<1>1. IInv => PortableToEast
  <2> SUFFICES ASSUME IInv, ValidElsewhere PROVE ValidInEast
    BY DEF PortableToEast
  <2>1. /\ {MinLength, MaxLength, MaxLengthEast} \subseteq Nat \ {0}
        /\ MaxLength <= MaxLengthEast
    BY LengthsAssumption DEF LengthsAssumption
  <2>2. Len(name) \in MinLength..MaxLength /\ OnlyOf(DnsClasses)
    BY DEF ValidElsewhere
  <2>3. Len(name) <= MaxLengthEast /\ name # << >>
    BY <2>1, <2>2
  <2> QED BY <2>2, <2>3 DEF ValidInEast, OnlyOf, DnsClasses, EastClasses
<1> QED BY NameInvariance, <1>1, PTL
=============================================================================
