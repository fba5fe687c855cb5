----------------------------- MODULE BucketName -----------------------------
(***************************************************************************)
(* Which bucket names the controller takes to S3 (validateBucketName). A   *)
(* user writes a name character by character, and every name written is    *)
(* looked at; a character stands for its class, all of whose members the   *)
(* patterns of the code treat alike. What the tests of the code, each on   *)
(* the whole name, come to is asked against a reference that is read off   *)
(* as the name is written: the labels that its periods separate.           *)
(***************************************************************************)
EXTENDS Naturals, SequencesExt

CONSTANTS
  MinLength, MaxLength, \* 3 and 63
  MaxLengthEast,        \* 255: the names of us-east-1
  Octets, OctetDigits,  \* 4 and 3: what looks like an IP address
  MaxWritten            \* bound: the longest name a user writes

ASSUME LengthsAssumption ==
  /\ {MinLength, MaxLength, MaxLengthEast, Octets, OctetDigits} \subseteq Nat \ {0}
  /\ MinLength <= MaxLength /\ MaxLength <= MaxLengthEast
  /\ MaxWritten \in Nat

(* Lowercase letters; digits; the hyphen; the period; capital letters and  *)
(* the underscore; all others.                                             *)
Classes == {"lower", "digit", "hyphen", "period", "upper", "other"}
DnsClasses == {"lower", "digit", "hyphen", "period"}
EastClasses == {"lower", "digit", "hyphen", "period", "upper"}

VARIABLES
  name,  \* a sequence of classes
  labels \* history: the name as the labels that its periods separate

vars == <<name, labels>>

-----------------------------------------------------------------------------
(* validateBucketName.                                                     *)

OnlyOf(classes) == ToSet(name) \subseteq classes

(* ^(?:[0-9]{1,3}\.){3}[0-9]{1,3}$: where the name would be cut.           *)
Cuts == {i \in DOMAIN name : name[i] = "period"} \cup {0, Len(name) + 1}
AddressLike ==
  /\ OnlyOf({"digit", "period"})
  /\ Cardinality(Cuts) = Octets + 1
  /\ \A i, j \in Cuts :
       (i < j /\ \A k \in Cuts : ~(i < k /\ k < j)) => j - i \in 2..(OctetDigits + 1)

(* Two periods in a row, and what a test for the first place misses.       *)
EmptyLabelInsideFirstOnly == Len(name) > 2 /\ name[1] = "period" /\ name[2] = "period"
EmptyLabelInside ==
  \E i \in 1..(Len(name) - 1) : name[i] = "period" /\ name[i + 1] = "period"

ValidElsewhere ==
  /\ Len(name) \in MinLength..MaxLength
  /\ OnlyOf(DnsClasses)
  /\ ~AddressLike
  /\ name[1] # "period"
  /\ name[Len(name)] # "period"
  /\ ~EmptyLabelInside

(* Of the length the other regions allow, and as it is.                    *)
ValidInEastAsElsewhere ==
  Len(name) <= MaxLength - 1 /\ name # << >> /\ OnlyOf(EastClasses)
ValidInEast ==
  Len(name) <= MaxLengthEast /\ name # << >> /\ OnlyOf(EastClasses)

-----------------------------------------------------------------------------
Init == name = << >> /\ labels = << << >> >>

Write(class) ==
  /\ Len(name) < MaxWritten
  /\ name' = Append(name, class)
  /\ labels' = IF class = "period" THEN Append(labels, << >>)
               ELSE [labels EXCEPT ![Len(labels)] = Append(@, class)]

Next == \E class \in Classes : Write(class)

Spec == Init /\ [][Next]_vars

-----------------------------------------------------------------------------
(* The reference, and the properties.                                      *)

(* A label of the rules the code refers to ("BucketRestrictions").         *)
IsLabel(label) ==
  /\ label # << >>
  /\ ToSet(label) \subseteq {"lower", "digit", "hyphen"}
  /\ label[1] # "hyphen" /\ label[Len(label)] # "hyphen"

(* No label of these rules, for the place of its hyphens only.             *)
HyphenAtEnd(label) ==
  /\ label # << >>
  /\ ToSet(label) \subseteq {"lower", "digit", "hyphen"}
  /\ "hyphen" \in {label[1], label[Len(label)]}

IsOctet(label) == Len(label) \in 1..OctetDigits /\ ToSet(label) = {"digit"}

(* Outside us-east-1 the names that pass are those of labels that are not  *)
(* the octets of an address, and what the rules refuse and validateBucket- *)
(* Name lets through is one thing only: a label that begins or ends with a *)
(* hyphen, as in "-abc" or "a-.b". The six tests of the code, each of      *)
(* which looks at the whole name, leave no other gap between them.         *)
NamesAreLabels ==
  ValidElsewhere <=>
    /\ Len(name) \in MinLength..MaxLength
    /\ \A i \in DOMAIN labels : IsLabel(labels[i]) \/ HyphenAtEnd(labels[i])
    /\ ~(Len(labels) = Octets /\ \A i \in DOMAIN labels : IsOctet(labels[i]))

(* A name that passes in another region passes in us-east-1: correcting    *)
(* the region of a specification to where its bucket was found to be never *)
(* makes the name invalid.                                                 *)
PortableToEast == ValidElsewhere => ValidInEast
=============================================================================
