--------------------------- MODULE AwsClient_proof ---------------------------
(***************************************************************************)
(* Proofs about AwsClient, for every set of accounts, every choice of the  *)
(* flags and every number of changes and faults.                           *)
(***************************************************************************)
EXTENDS AwsClient, TLAPS

-----------------------------------------------------------------------------
(* The inductive invariant.                                                *)

(* With these flags the account is never asked for, and no process knows   *)
(* it; with all others every process that gets so far does.                *)
Ignorant == flags.skipCreds /\ flags.skipAccount /\ flags.role = NONE

Lookups == {"lookup", "lookupSTS", "lookupRoles"}
Validated == {"start", "running"}
WithSession == {"validateCredentials", "validateAccount"} \cup Lookups \cup Validated

(* The partition that a process uses which knows its account.              *)
PartitionUsed(account) ==
  IF Identity(account).partition = NONE THEN RegionPartition
  ELSE Identity(account).partition

(* The credentials of the instance belong to the host's account, those of  *)
(* an assumed role to the role's, until they are fetched again.            *)
CredsInv ==
  /\ sources["ec2"] \in {HostAccount, NONE}
  /\ (pc \in WithSession \cup {"newSession"} /\ creds.provider = "ec2") =>
       creds.account = HostAccount
  /\ pc = "getCredentials" => flags.role = NONE
  /\ pc = "assumeRole" => flags.role # NONE
  /\ (pc \in WithSession \cup {"newSession"} /\ ~renewed /\ flags.role # NONE) =>
       creds.account = flags.role

(* What the process knows of its account at each step.                     *)
ClientInv ==
  /\ pc = "validateCredentials" => client = Identity(flags.role)
  /\ pc \in Lookups => client = Identity(NONE) /\ ~Ignorant /\ flags.role = NONE
  /\ pc = "validateAccount" => client = Identity(client.account)
  /\ pc \in Validated =>
       /\ Permitted(client.account)
       /\ client.partition = PartitionUsed(client.account)
  /\ pc \in {"validateAccount"} \cup Validated =>
       /\ client.account = NONE <=> Ignorant
       /\ ~renewed => client.account \in {NONE, creds.account}

(* What the process has done, and all before it.                           *)
HistoryInv ==
  /\ pc \notin {"running", "exited"} => acted = {} /\ ~renewed
  /\ OnlyPermittedAccounts
  /\ \A p \in stored :
       IF Ignorant THEN p = RegionPartition
       ELSE \E a \in Accounts : p = PartitionUsed(a)

IInv == TypeOK /\ CredsInv /\ ClientInv /\ HistoryInv

-----------------------------------------------------------------------------
(* The model's operators.                                                  *)

LEMMA ChainSet == ToSet(Chain) = {"static", "env", "file", "ecs", "ec2"}
<1>1. DOMAIN Chain = 1..5 /\ 1..5 = {1, 2, 3, 4, 5} BY DEF Chain
<1>2. ToSet(Chain) = {Chain[i] : i \in {1, 2, 3, 4, 5}} BY <1>1 DEF ToSet
<1>3. ToSet(Chain) = {Chain[1], Chain[2], Chain[3], Chain[4], Chain[5]}
  BY <1>2
<1> QED BY <1>3 DEF Chain

Accs == Accounts \cup {NONE}
Records == [provider : Providers \cup {"role", NONE}, account : Accs, expired : BOOLEAN]
Clients == [account : Accs, partition : Partitions]

LEMMA FromFields ==
  ASSUME NEW p, NEW a
  PROVE  /\ From(p, a).provider = p /\ From(p, a).account = a
         /\ (p \in Providers \cup {"role", NONE} /\ a \in Accs) => From(p, a) \in Records
  BY DEF From, Records

LEMMA IdentityFields ==
  ASSUME NEW a \in Accs
  PROVE  /\ Identity(a).account = a /\ Identity(a) \in Clients
         /\ a = NONE => Identity(a).partition = NONE
         /\ a # NONE => Identity(a).partition = PartitionOf[a]
  BY DEF Identity, Accs, Clients, Partitions

LEMMA FaultType ==
  ASSUME TypeOK, Fault
  PROVE  spent' \in [changes : 0..MaxChanges, faults : 0..MaxFaults]
<1>1. spent.faults + 1 \in 0..MaxFaults
  BY ConstantsAssumption DEF Fault, TypeOK, ConstantsAssumption
<1> QED BY <1>1 DEF Fault, TypeOK

LEMMA Types ==
  ASSUME TypeOK
  PROVE  /\ flags \in Flags /\ flags.role \in Accs
         /\ creds \in Records /\ creds.account \in Accs
         /\ client \in Clients /\ client.account \in Accs
         /\ \A p \in Providers : sources[p] \in Accs
         /\ NONE \notin Accounts /\ HostAccount \in Accounts
  BY ConstantsAssumption
  DEF TypeOK, ConstantsAssumption, Flags, Accs, Records, Clients

-----------------------------------------------------------------------------
(* Steps.                                                                  *)

LEMMA InitInv == Init => IInv
<1> SUFFICES ASSUME Init PROVE IInv OBVIOUS
<1>1. NONE \notin Accounts /\ MaxChanges \in Nat /\ MaxFaults \in Nat
  BY ConstantsAssumption DEF ConstantsAssumption
<1>2. \A p \in Providers : sources[p] = NONE BY DEF Init
<1>3. sources["ec2"] = NONE BY <1>2, ChainSet DEF Providers
<1>4. creds.provider = NONE /\ creds.account = NONE /\ creds \in Records
  BY DEF Init, NoCreds, Records, Accs
<1>5. client \in Clients BY DEF Init, NoClient, Clients, Accs, Partitions
<1>6. TypeOK
  <2>1. sources \in [Providers -> Accounts \cup {NONE}] BY DEF Init
  <2>2. spent \in [changes : 0..MaxChanges, faults : 0..MaxFaults] BY <1>1 DEF Init
  <2> QED BY <1>4, <1>5, <2>1, <2>2 DEF Init, TypeOK, PCs, Records, Clients, Accs
<1>7. CredsInv
  BY <1>3, <1>4 DEF Init, CredsInv, WithSession, Lookups, Validated, Accs, NoCreds
<1>8. ClientInv BY DEF Init, ClientInv, Lookups, Validated
<1>9. HistoryInv BY DEF Init, HistoryInv, OnlyPermittedAccounts
<1> QED BY <1>6, <1>7, <1>8, <1>9 DEF IInv

(* The steps before there are credentials, and those that end the process  *)
(* or go on with nothing but the program counter changed.                  *)
LEMMA MovesInv ==
  ASSUME IInv, pc' \in PCs, UNCHANGED <<flags, sources, creds, client, acted, renewed, stored>>,
         chain' \subseteq ToSet(Chain),
         spent' \in [changes : 0..MaxChanges, faults : 0..MaxFaults],
         pc \in {"setup", "region"} => pc' \in {"region", "chain", "exited"},
         pc = "chain" => pc' = IF flags.role # NONE THEN "assumeRole" ELSE "getCredentials",
         pc \in {"assumeRole", "getCredentials", "newSession", "validateCredentials"} \cup Lookups
           => pc' = "exited" \/ (pc \in Lookups /\ pc' \in Lookups),
         pc \in {"validateAccount", "running"} => pc' = "exited",
         pc = "exited" => pc' = "exited",
         pc = "start" => pc' \in {"running", "exited"}
  PROVE  IInv'
<1> USE DEF IInv
<1>1. pc \in PCs BY DEF TypeOK
<1>2. TypeOK' BY DEF TypeOK
<1>3. CredsInv'
  BY <1>1 DEF CredsInv, PCs, WithSession, Lookups, Validated
<1>4. ClientInv'
  <2>1. pc' \in Validated => pc = "start" BY <1>1 DEF PCs, Lookups, Validated
  <2>2. pc' \in Lookups => pc \in Lookups BY <1>1 DEF PCs, Lookups, Validated
  <2>3. pc' \notin {"validateCredentials", "validateAccount"}
    BY <1>1 DEF PCs, Lookups, Validated
  <2>4. Ignorant' = Ignorant /\ Permitted(client.account)' = Permitted(client.account)
    BY DEF Ignorant, Permitted
  <2>5. "start" \in Validated /\ "validateAccount" \notin Validated BY DEF Validated
  <2>6. PartitionUsed(client.account)' = PartitionUsed(client.account)
    BY DEF PartitionUsed, Identity
  <2> QED BY <2>1, <2>2, <2>3, <2>4, <2>5, <2>6, Zenon DEF ClientInv
<1>5. HistoryInv'
  <2>1. pc' \notin {"running", "exited"} => pc \notin {"running", "exited"}
    BY <1>1 DEF PCs, Lookups
  <2>2. OnlyPermittedAccounts' = OnlyPermittedAccounts /\ Ignorant' = Ignorant
    BY DEF Ignorant, OnlyPermittedAccounts
  <2> QED BY <2>1, <2>2 DEF HistoryInv, PartitionUsed, Identity
<1> QED BY <1>2, <1>3, <1>4, <1>5

LEMMA Unchanged ==
  ASSUME IInv
  PROVE  /\ pc \in PCs /\ chain \subseteq ToSet(Chain)
         /\ spent \in [changes : 0..MaxChanges, faults : 0..MaxFaults]
         /\ {"exited", "region", "chain", "running", "lookupSTS", "lookupRoles"} \subseteq PCs
         /\ {"assumeRole", "getCredentials", "newSession", "validateAccount"} \subseteq PCs
  BY DEF IInv, TypeOK, PCs

(* The program counter moves and nothing else, or there is a fault.        *)
LEMMA PlainInv ==
  ASSUME IInv, Setup \/ ValidateRegion \/ BuildChain \/ Start \/ Crash
  PROVE  IInv'
<1>1. spent' \in [changes : 0..MaxChanges, faults : 0..MaxFaults]
  <2>1. UNCHANGED spent \/ Fault
    BY DEF Setup, ValidateRegion, BuildChain, Start, Crash, MayFail, Fault
  <2> QED BY <2>1, FaultType, Unchanged DEF IInv
<1>2. chain' \subseteq ToSet(Chain)
  BY Unchanged DEF Setup, ValidateRegion, BuildChain, Start, Crash
<1>3. UNCHANGED <<flags, sources, creds, client, acted, renewed, stored>>
  BY DEF Setup, ValidateRegion, BuildChain, Start, Crash, hist
<1>4. CASE Setup
  BY <1>1, <1>2, <1>3, <1>4, Unchanged, MovesInv DEF Setup, GoTo, MayFail, Exit, Lookups
<1>5. CASE ValidateRegion
  BY <1>1, <1>2, <1>3, <1>5, Unchanged, MovesInv DEF ValidateRegion, GoTo, Exit, Lookups
<1>6. CASE BuildChain
  BY <1>1, <1>2, <1>3, <1>6, Unchanged, MovesInv DEF BuildChain, GoTo, Lookups
<1>7. CASE Start
  BY <1>1, <1>2, <1>3, <1>7, Unchanged, MovesInv DEF Start, GoTo, MayFail, Exit, Lookups
<1>8. CASE Crash
  BY <1>1, <1>2, <1>3, <1>8, Unchanged, MovesInv DEF Crash, GoTo, Exit, Lookups
<1> QED BY <1>4, <1>5, <1>6, <1>7, <1>8

(* A call or a check of the start that ends it.                            *)
LEMMA ExitInv ==
  ASSUME IInv, Exit, UNCHANGED <<flags, sources, chain, creds, client, hist>>,
         spent' \in [changes : 0..MaxChanges, faults : 0..MaxFaults]
  PROVE  IInv'
<1>1. pc' = "exited" BY DEF Exit, GoTo
<1>3. pc' \in PCs /\ chain' \subseteq ToSet(Chain) BY <1>1, Unchanged
<1>4. TypeOK' BY <1>3 DEF IInv, TypeOK, hist
<1>5. CredsInv' BY <1>1 DEF IInv, CredsInv, WithSession, Lookups, Validated
<1>6. ClientInv' BY <1>1 DEF ClientInv, Lookups, Validated
<1>7. HistoryInv'
  BY <1>1 DEF IInv, HistoryInv, hist, OnlyPermittedAccounts, Ignorant, PartitionUsed, Identity
<1> QED BY <1>4, <1>5, <1>6, <1>7 DEF IInv

(* The start finds credentials.                                            *)
LEMMA FoundInv ==
  ASSUME IInv, pc \in {"assumeRole", "getCredentials"}, GoTo("newSession"),
         NEW p \in Providers \cup {"role"}, NEW a \in Accs, creds' = From(p, a),
         p = "ec2" => a = HostAccount,
         flags.role # NONE => a = flags.role,
         UNCHANGED <<flags, sources, chain, client, hist, spent>>
  PROVE  IInv'
<1>1. pc' = "newSession" /\ pc' \in PCs BY Unchanged DEF GoTo
<1>2. creds'.provider = p /\ creds'.account = a /\ creds' \in Records BY FromFields
<1>3. TypeOK' BY <1>1, <1>2 DEF IInv, TypeOK, hist, Records, Accs
<1>4. CredsInv' BY <1>1, <1>2 DEF IInv, CredsInv, WithSession, Lookups, Validated
<1>5. ClientInv' BY <1>1 DEF ClientInv, Lookups, Validated
<1>6. HistoryInv'
  BY <1>1 DEF IInv, HistoryInv, hist, OnlyPermittedAccounts, Ignorant, PartitionUsed, Identity
<1> QED BY <1>3, <1>4, <1>5, <1>6 DEF IInv

LEMMA AssumeRoleInv ==
  ASSUME IInv, AssumeRole
  PROVE  IInv'
<1>1. pc = "assumeRole" /\ UNCHANGED <<flags, sources, chain, client, hist>>
  BY DEF AssumeRole
<1>2. CASE Exit /\ UNCHANGED <<creds, spent>> BY <1>1, <1>2, Unchanged, ExitInv
<1>3. CASE MayFail /\ UNCHANGED creds
  <2>1. Fault /\ Exit BY <1>3 DEF MayFail
  <2>2. spent' \in [changes : 0..MaxChanges, faults : 0..MaxFaults]
    BY <2>1, FaultType DEF IInv
  <2> QED BY <1>1, <1>3, <2>1, <2>2, ExitInv
<1>4. CASE creds' = From("role", flags.role) /\ GoTo("newSession") /\ UNCHANGED spent
  <2>1. flags.role \in Accs BY Types DEF IInv
  <2>2. "role" # "ec2" OBVIOUS
  <2> QED BY <1>1, <1>4, <2>1, <2>2, FoundInv
<1> QED BY <1>2, <1>3, <1>4 DEF AssumeRole

LEMMA GetCredentialsInv ==
  ASSUME IInv, GetCredentials
  PROVE  IInv'
<1>1. pc = "getCredentials" /\ UNCHANGED <<flags, sources, chain, client, hist, spent>>
  BY DEF GetCredentials
<1>2. flags.role = NONE BY <1>1 DEF IInv, CredsInv
<1>3. CASE Exit /\ UNCHANGED creds BY <1>1, <1>3, Unchanged, ExitInv
<1>4. CASE \E p \in chain \cup {"profile", "session"} :
             /\ p # "profile" => sources[p] # NONE
             /\ creds' = From(p, sources[p]) /\ GoTo("newSession")
  <2>1. PICK p \in chain \cup {"profile", "session"} :
             /\ p # "profile" => sources[p] # NONE
             /\ creds' = From(p, sources[p]) /\ GoTo("newSession")
    BY <1>4
  <2>2. p \in Providers BY ChainSet, Unchanged DEF Providers
  <2>3. p \in Providers \cup {"role"} /\ sources[p] \in Accs BY <2>2, Types DEF IInv
  <2>4. p = "ec2" => sources[p] = HostAccount
    BY <2>1 DEF IInv, CredsInv
  <2> QED BY <1>1, <1>2, <2>1, <2>3, <2>4, Unchanged, FoundInv
<1> QED BY <1>3, <1>4 DEF GetCredentials, First

LEMMA NewSessionInv ==
  ASSUME IInv, NewSession
  PROVE  IInv'
<1>1. /\ pc = "newSession" /\ client' = Identity(flags.role)
      /\ UNCHANGED <<flags, sources, chain, creds, hist>>
  BY DEF NewSession
<1>2. pc' \in {"validateCredentials", "exited"} /\ pc' \in PCs
  BY DEF NewSession, GoTo, MayFail, Exit, PCs
<1>3. spent' \in [changes : 0..MaxChanges, faults : 0..MaxFaults]
  BY FaultType, Unchanged DEF NewSession, MayFail, IInv
<1>4. client' \in Clients BY <1>1, Types, IdentityFields DEF IInv
<1>5. TypeOK' BY <1>1, <1>2, <1>3, <1>4 DEF IInv, TypeOK, hist, Clients, Accs
<1>6. CredsInv'
  BY <1>1, <1>2 DEF IInv, CredsInv, WithSession, Lookups, Validated, hist
<1>7. ClientInv' BY <1>1, <1>2 DEF ClientInv, Lookups, Validated, Identity
<1>8. HistoryInv'
  BY <1>1, <1>2 DEF IInv, HistoryInv, hist, OnlyPermittedAccounts, Ignorant, PartitionUsed, Identity
<1> QED BY <1>5, <1>6, <1>7, <1>8 DEF IInv

(* The account is found, or given, and goes to its validation; or it has   *)
(* to be looked up.                                                        *)
LEMMA NextLookupInv ==
  ASSUME IInv, pc \in {"validateCredentials"} \cup Lookups,
         NEW a \in Accs, client' = Identity(a), a \in {NONE, creds.account},
         flags.role # NONE => a = flags.role,
         pc' \in {"validateAccount"} \cup Lookups,
         pc' = "validateAccount" => (a = NONE <=> Ignorant),
         pc' \in Lookups => a = NONE /\ ~Ignorant /\ flags.role = NONE,
         UNCHANGED <<flags, sources, chain, creds, hist>>,
         spent' \in [changes : 0..MaxChanges, faults : 0..MaxFaults]
  PROVE  IInv'
<1>1. /\ client'.account = a /\ client' \in Clients
      /\ client' = Identity(client'.account)
  BY IdentityFields
<1>2. pc' \in PCs BY DEF Lookups, PCs
<1>3. TypeOK' BY <1>1, <1>2 DEF IInv, TypeOK, hist, Clients, Accs
<1>4. CredsInv' BY DEF IInv, CredsInv, WithSession, Lookups, Validated, hist
<1>5. ClientInv'
  <2>1. pc' \notin Validated /\ pc' # "validateCredentials" BY DEF Lookups, Validated
  <2>2. Identity(client.account)' = Identity(client'.account) /\ Identity(NONE)' = Identity(NONE)
    BY DEF Identity
  <2>3. Ignorant' = Ignorant BY DEF Ignorant
  <2>4. "validateAccount" \notin Lookups BY DEF Lookups
  <2> QED BY <1>1, <2>1, <2>2, <2>3, <2>4 DEF ClientInv
<1>6. HistoryInv'
  BY DEF IInv, HistoryInv, hist, OnlyPermittedAccounts, Ignorant, PartitionUsed, Identity, Lookups
<1> QED BY <1>3, <1>4, <1>5, <1>6 DEF IInv

(* What is known at the lookups.                                           *)
LEMMA AtLookups ==
  ASSUME IInv, pc \in {"validateCredentials"} \cup Lookups
  PROVE  /\ flags.role # NONE => creds.account = flags.role
         /\ creds.provider = "ec2" => creds.account = HostAccount
         /\ pc \in Lookups => ~Ignorant /\ flags.role = NONE /\ client = Identity(NONE)
         /\ pc = "validateCredentials" => client = Identity(flags.role)
         /\ sources["ec2"] \in {HostAccount, NONE}
  BY DEF IInv, HistoryInv, CredsInv, ClientInv, WithSession, Lookups

(* Credentials that answer are those of an account.                        *)
LEMMA AnsweredInv ==
  ASSUME IInv, pc \in {"validateCredentials"} \cup Lookups, Answered,
         GoTo("validateAccount"),
         Ignorant => FALSE,
         UNCHANGED <<flags, sources, chain, creds, hist, spent>>
  PROVE  IInv'
<1>1. creds.account \in Accs BY Types DEF IInv
<1>2. creds.account # NONE /\ client' = Identity(creds.account) BY DEF Answered
<1>3. pc' = "validateAccount" BY DEF GoTo
<1>4. "validateAccount" \notin Lookups BY DEF Lookups
<1> QED BY <1>1, <1>2, <1>3, <1>4, AtLookups, Unchanged, NextLookupInv

LEMMA ValidateCredentialsInv ==
  ASSUME IInv, ValidateCredentials
  PROVE  IInv'
<1>1. pc = "validateCredentials" /\ UNCHANGED <<flags, sources, chain, creds, hist>>
  BY DEF ValidateCredentials
<1>2. flags.role \in Accs /\ creds.account \in Accs BY Types DEF IInv
<1>3. client = Identity(flags.role) /\ client.account = flags.role
  BY <1>1, <1>2, AtLookups, IdentityFields
<1>4. "lookup" \in Lookups /\ "validateAccount" \notin Lookups BY DEF Lookups
<1>5. CASE flags.skipCreds /\ UNCHANGED <<client, spent>> /\ GoTo(AfterCredentials(client))
  <2>1. pc' = IF flags.role = NONE /\ ~flags.skipAccount THEN "lookup" ELSE "validateAccount"
    BY <1>3, <1>5 DEF GoTo, AfterCredentials
  <2>2. flags.role \in {NONE, creds.account} BY <1>1, AtLookups
  <2>3. client' = Identity(flags.role) BY <1>3, <1>5
  <2>4. pc' = "validateAccount" => (flags.role = NONE <=> Ignorant)
    BY <1>5, <2>1 DEF Ignorant
  <2>5. pc' \in Lookups => flags.role = NONE /\ ~Ignorant
    BY <1>4, <2>1 DEF Ignorant
  <2>6. pc' \in {"validateAccount"} \cup Lookups BY <1>4, <2>1
  <2> QED BY <1>1, <1>2, <1>5, <2>2, <2>3, <2>4, <2>5, <2>6, Unchanged, NextLookupInv
<1>6. CASE ~flags.skipCreds /\ Answered /\ GoTo(AfterCredentials(client')) /\ UNCHANGED spent
  <2>1. client'.account # NONE BY <1>2, <1>6, IdentityFields DEF Answered
  <2>2. GoTo("validateAccount") BY <1>6, <2>1 DEF GoTo, AfterCredentials
  <2>3. Ignorant => FALSE BY <1>6 DEF Ignorant
  <2> QED BY <1>1, <1>6, <2>2, <2>3, AnsweredInv
<1>7. CASE UNCHANGED client /\ Exit /\ UNCHANGED spent
  BY <1>1, <1>7, Unchanged, ExitInv
<1>8. CASE UNCHANGED client /\ MayFail
  <2>1. spent' \in [changes : 0..MaxChanges, faults : 0..MaxFaults]
    BY <1>8, FaultType DEF IInv, MayFail
  <2> QED BY <1>1, <1>8, <2>1, ExitInv DEF MayFail
<1> QED BY <1>5, <1>6, <1>7, <1>8 DEF ValidateCredentials

(* A way to find the account does not work, and the next one is tried.     *)
LEMMA StillUnknownInv ==
  ASSUME IInv, pc \in Lookups, pc' \in Lookups, UNCHANGED client,
         UNCHANGED <<flags, sources, chain, creds, hist>>,
         spent' \in [changes : 0..MaxChanges, faults : 0..MaxFaults]
  PROVE  IInv'
<1>1. "validateAccount" \notin Lookups BY DEF Lookups
<1>2. NONE \in Accs BY DEF Accs
<1> QED BY <1>1, <1>2, AtLookups, NextLookupInv

LEMMA LookupsInv ==
  ASSUME IInv, Lookup \/ LookupSTS \/ LookupRoles
  PROVE  IInv'
<1>1. /\ pc \in Lookups /\ pc \in {"validateCredentials"} \cup Lookups
      /\ UNCHANGED <<flags, sources, chain, creds, hist>>
  BY DEF Lookup, LookupSTS, LookupRoles, Lookups
<1>2. spent' \in [changes : 0..MaxChanges, faults : 0..MaxFaults]
  BY Unchanged, FaultType DEF IInv, Lookup, LookupSTS, LookupRoles
<1>3. "lookupSTS" \in Lookups /\ "lookupRoles" \in Lookups /\ "validateAccount" \notin Lookups
  BY DEF Lookups
<1>4. Ignorant => FALSE BY <1>1, AtLookups
<1>5. CASE Answered /\ GoTo("validateAccount") /\ UNCHANGED spent
  BY <1>1, <1>4, <1>5, AnsweredInv
<1>6. CASE creds.provider = "ec2" /\ sources["ec2"] # NONE
           /\ client' = Identity(sources["ec2"]) /\ GoTo("validateAccount")
  <2>1. sources["ec2"] = HostAccount /\ creds.account = HostAccount
    BY <1>1, <1>6, AtLookups
  <2>2. HostAccount \in Accs /\ HostAccount # NONE BY Types DEF IInv, Accs
  <2>3. pc' = "validateAccount" BY <1>6 DEF GoTo
  <2>4. flags.role # NONE => HostAccount = flags.role BY <1>1, AtLookups
  <2> QED
    BY <1>1, <1>2, <1>3, <1>4, <1>6, <2>1, <2>2, <2>3, <2>4, NextLookupInv
<1>7. CASE UNCHANGED client /\ (GoTo("lookupSTS") \/ GoTo("lookupRoles"))
  BY <1>1, <1>2, <1>3, <1>7, StillUnknownInv DEF GoTo
<1>8. CASE UNCHANGED client /\ Exit
  BY <1>1, <1>2, <1>8, ExitInv
<1>9. CASE Lookup BY <1>5, <1>6, <1>7, <1>9 DEF Lookup
<1>10. CASE LookupSTS BY <1>5, <1>7, <1>10 DEF LookupSTS
<1>11. CASE LookupRoles BY <1>5, <1>8, <1>11 DEF LookupRoles
<1> QED BY <1>9, <1>10, <1>11

(* The account is permitted, and the partition is the account's own or, by *)
(* default, the region's.                                                  *)
LEMMA ValidateAccountInv ==
  ASSUME IInv, ValidateAccount
  PROVE  IInv'
<1>1. pc = "validateAccount" /\ UNCHANGED <<flags, sources, chain, creds, hist, spent>>
  BY DEF ValidateAccount
<1>2. CASE Exit /\ UNCHANGED client BY <1>1, <1>2, Unchanged, ExitInv
<1>3. CASE Permitted(client.account) /\ GoTo("start")
           /\ client' = [client EXCEPT !.partition = IF @ = NONE THEN RegionPartition ELSE @]
  <2>1. /\ client \in Clients /\ client.account \in Accs /\ client = Identity(client.account)
    BY <1>1, Types DEF IInv, ClientInv
  <2>2. /\ client' \in Clients /\ client'.account = client.account
        /\ client'.partition = IF client.partition = NONE THEN RegionPartition ELSE client.partition
    BY <1>3, <2>1 DEF Clients, Partitions
  <2>3. client'.partition = PartitionUsed(client.account)
    BY <2>1, <2>2 DEF PartitionUsed
  <2>4. pc' = "start" /\ pc' \in PCs BY <1>3 DEF GoTo, PCs
  <2>5. TypeOK' BY <1>1, <2>2, <2>4 DEF IInv, TypeOK, hist, Clients, Accs
  <2>6. CredsInv' BY <1>1, <2>4 DEF IInv, CredsInv, WithSession, Lookups, Validated, hist
  <2>7. ClientInv'
    <3>1. /\ Permitted(client.account)' = Permitted(client.account)
          /\ PartitionUsed(client.account)' = PartitionUsed(client.account)
      BY <1>1, <2>2 DEF Permitted, PartitionUsed, Identity
    <3>2. pc' \notin Lookups BY <2>4 DEF Lookups
    <3>3. Ignorant' = Ignorant BY <1>1 DEF Ignorant
    <3>4. /\ client.account = NONE <=> Ignorant
          /\ ~renewed => client.account \in {NONE, creds.account}
      BY <1>1 DEF IInv, ClientInv
    <3> QED
      BY <1>1, <1>3, <2>2, <2>3, <2>4, <3>1, <3>2, <3>3, <3>4 DEF ClientInv, hist
  <2>8. HistoryInv'
    BY <1>1, <2>4 DEF IInv, HistoryInv, hist, OnlyPermittedAccounts, Ignorant, PartitionUsed, Identity
  <2> QED BY <2>5, <2>6, <2>7, <2>8 DEF IInv
<1> QED BY <1>2, <1>3 DEF ValidateAccount

-----------------------------------------------------------------------------
(* While the process runs.                                                 *)

(* Fetched again or not, the credentials come from a source they may come  *)
(* from.                                                                   *)
LEMMA CallCreds ==
  ASSUME IInv, CallS3
  PROVE  /\ creds' \in Records /\ creds'.account \in Accounts
         /\ creds'.provider = "ec2" => creds'.account = HostAccount
         /\ renewed' \in BOOLEAN
         /\ ~renewed' => ~renewed /\ creds' = creds
<1>1. pc = "running" /\ creds.account # NONE BY DEF CallS3
<1>2. CASE Renew
  <2>1. PICK p \in Providers \cup {"role"}, a \in Accounts :
          Renewable(From(p, a)) /\ creds' = From(p, a)
    BY <1>2 DEF Renew
  <2>2. a \in Accs BY DEF Accs
  <2>3. /\ creds' \in Records /\ creds'.account = a /\ creds'.provider = p
        /\ From(p, a).account = a /\ From(p, a).provider = p
    BY <2>1, <2>2, FromFields
  <2>4. p = "ec2" => a = HostAccount
    <3>1. SUFFICES ASSUME p = "ec2" PROVE a = sources["ec2"] /\ sources["ec2"] # NONE
      BY DEF IInv, CredsInv
    <3>2. CASE creds.provider = "role"
      BY <2>1, <2>3, <3>1, <3>2, FromFields DEF Renewable
    <3>3. CASE creds.provider \in {"session", "profile"}
      BY <2>1, <2>3, <3>1, <3>3, FromFields DEF Renewable
    <3>4. CASE creds.provider \notin {"role", "session", "profile"}
      <4>1. First(p) /\ From(p, a) = From(p, sources[p])
        BY <2>1, <2>3, <3>4 DEF Renewable
      <4> QED BY <2>3, <3>1, <4>1, FromFields DEF First
    <3> QED BY <3>2, <3>3, <3>4
  <2>5. renewed' = TRUE BY <1>2 DEF Renew
  <2> QED BY <2>3, <2>4, <2>5
<1>3. CASE UNCHANGED <<creds, renewed>>
  <2>1. creds \in Records /\ creds.account \in Accs BY Types DEF IInv
  <2>2. renewed \in BOOLEAN BY DEF IInv, TypeOK
  <2>3. creds.provider = "ec2" => creds.account = HostAccount
    BY <1>1 DEF IInv, CredsInv, WithSession, Validated
  <2> QED BY <1>1, <1>3, <2>1, <2>2, <2>3 DEF Accs
<1> QED BY <1>2, <1>3 DEF CallS3

LEMMA CallInv ==
  ASSUME IInv, CallS3
  PROVE  IInv'
<1>1. /\ pc = "running" /\ pc' = "running" /\ UNCHANGED <<flags, sources, pc, chain, client, spent>>
      /\ acted' = acted \cup {creds'.account} /\ stored' = stored \cup {client.partition}
  BY DEF CallS3
<1>2. client \in Clients /\ client.account \in Accs BY Types DEF IInv
<1>3. Ignorant' = Ignorant BY <1>1 DEF Ignorant
<1>4. /\ Permitted(client.account) /\ client.partition = PartitionUsed(client.account)
      /\ client.account = NONE <=> Ignorant
      /\ ~renewed => client.account \in {NONE, creds.account}
  BY <1>1 DEF IInv, ClientInv, Validated
<1>5. TypeOK'
  BY <1>1, <1>2, CallCreds DEF IInv, TypeOK, Clients, Records, Accs
<1>6. CredsInv'
  <2>1. (~renewed /\ flags.role # NONE) => creds.account = flags.role
    BY <1>1 DEF IInv, CredsInv, WithSession, Validated
  <2> QED BY <1>1, <2>1, CallCreds DEF IInv, CredsInv
<1>7. ClientInv'
  BY <1>1, <1>3, <1>4, CallCreds
  DEF ClientInv, Lookups, Permitted, PartitionUsed, Identity
<1>8. HistoryInv'
  <2>1. OnlyPermittedAccounts'
    <3>1. SUFFICES ASSUME ~renewed', ~(flags.skipCreds /\ flags.skipAccount)
                   PROVE \A a \in acted' : /\ a \notin flags.forbidden
                                           /\ flags.allowed = {} \/ a \in flags.allowed
      BY <1>1 DEF OnlyPermittedAccounts
    <3>2. ~renewed /\ creds' = creds BY <3>1, CallCreds
    <3>3. client.account = creds.account BY <1>4, <3>1, <3>2 DEF Ignorant
    <3> QED BY <1>1, <1>4, <3>1, <3>2, <3>3 DEF Permitted, IInv, HistoryInv, OnlyPermittedAccounts
  <2>2. ASSUME NEW p \in stored'
        PROVE  IF Ignorant THEN p = RegionPartition
               ELSE \E a \in Accounts : p = PartitionUsed(a)
    <3>1. CASE p \in stored BY <3>1 DEF IInv, HistoryInv
    <3>2. CASE p = client.partition
      <4>1. CASE Ignorant BY <1>2, <1>4, <3>2, <4>1, IdentityFields DEF PartitionUsed
      <4>2. CASE ~Ignorant BY <1>2, <1>4, <3>2, <4>2 DEF Accs
      <4> QED BY <4>1, <4>2
    <3> QED BY <1>1, <3>1, <3>2
  <2> QED BY <1>1, <1>3, <2>1, <2>2 DEF HistoryInv, PartitionUsed, Identity
<1> QED BY <1>5, <1>6, <1>7, <1>8 DEF IInv

-----------------------------------------------------------------------------
(* The environment.                                                        *)

LEMMA ExpireInv ==
  ASSUME IInv, Expire
  PROVE  IInv'
<1>1. /\ pc = "running" /\ creds' = [creds EXCEPT !.expired = TRUE]
      /\ UNCHANGED <<flags, sources, pc, chain, client, hist, spent>>
  BY DEF Expire
<1>2. creds \in Records BY Types DEF IInv
<1>3. creds' \in Records /\ creds'.provider = creds.provider /\ creds'.account = creds.account
  BY <1>1, <1>2 DEF Records
<1>4. TypeOK' BY <1>1, <1>3 DEF IInv, TypeOK, hist, Records, Accs
<1>5. CredsInv' BY <1>1, <1>3 DEF IInv, CredsInv, hist
<1>6. ClientInv'
  BY <1>1, <1>3 DEF IInv, ClientInv, hist, Ignorant, Permitted, PartitionUsed, Identity
<1>7. HistoryInv'
  BY <1>1 DEF IInv, HistoryInv, hist, OnlyPermittedAccounts, Ignorant, PartitionUsed, Identity
<1> QED BY <1>4, <1>5, <1>6, <1>7 DEF IInv

LEMMA SourceInv ==
  ASSUME IInv, NEW p \in Providers, NEW a \in Accs, SourceChanges(p, a)
  PROVE  IInv'
<1>1. /\ sources' = [sources EXCEPT ![p] = a]
      /\ p \in Host => a \in {HostAccount, NONE}
      /\ UNCHANGED <<flags, pc, chain, creds, client, hist>>
  BY DEF SourceChanges
<1>2. sources' \in [Providers -> Accs] /\ sources'["ec2"] \in {HostAccount, NONE}
  <2>1. "ec2" \in Providers BY ChainSet DEF Providers
  <2>2. sources \in [Providers -> Accs] BY DEF IInv, TypeOK, Accs
  <2>3. sources'["ec2"] = IF p = "ec2" THEN a ELSE sources["ec2"] BY <1>1, <2>1, <2>2
  <2>4. p = "ec2" => a \in {HostAccount, NONE} BY <1>1 DEF Host
  <2> QED BY <1>1, <2>2, <2>3, <2>4 DEF IInv, CredsInv
<1>3. spent' \in [changes : 0..MaxChanges, faults : 0..MaxFaults]
  <2>1. spent.changes + 1 \in 0..MaxChanges
    BY ConstantsAssumption DEF SourceChanges, IInv, TypeOK, ConstantsAssumption
  <2> QED BY <2>1 DEF SourceChanges, IInv, TypeOK
<1>4. TypeOK' BY <1>1, <1>2, <1>3 DEF IInv, TypeOK, hist, Accs
<1>5. CredsInv' BY <1>1, <1>2 DEF IInv, CredsInv, hist
<1>6. ClientInv'
  BY <1>1 DEF IInv, ClientInv, hist, Ignorant, Permitted, PartitionUsed, Identity
<1>7. HistoryInv'
  BY <1>1 DEF IInv, HistoryInv, hist, OnlyPermittedAccounts, Ignorant, PartitionUsed, Identity
<1> QED BY <1>4, <1>5, <1>6, <1>7 DEF IInv

LEMMA RestartInv ==
  ASSUME IInv, Restart
  PROVE  IInv'
<1>1. /\ pc' = "setup" /\ chain' = {} /\ creds' = NoCreds /\ client' = NoClient
      /\ acted' = {} /\ renewed' = FALSE
      /\ UNCHANGED <<flags, sources, stored, spent>>
  BY DEF Restart, GoTo
<1>2. NoCreds \in Records /\ NoClient \in Clients
  BY DEF NoCreds, NoClient, Records, Clients, Accs, Partitions
<1>3. pc' \in PCs BY <1>1 DEF PCs
<1>4. TypeOK' BY <1>1, <1>2, <1>3 DEF IInv, TypeOK, Records, Clients, Accs
<1>5. CredsInv' BY <1>1 DEF IInv, CredsInv, WithSession, Lookups, Validated
<1>6. ClientInv' BY <1>1 DEF ClientInv, Lookups, Validated
<1>7. HistoryInv'
  BY <1>1 DEF IInv, HistoryInv, OnlyPermittedAccounts, Ignorant, PartitionUsed, Identity
<1> QED BY <1>4, <1>5, <1>6, <1>7 DEF IInv

LEMMA StutterInv ==
  ASSUME IInv, UNCHANGED vars
  PROVE  IInv'
  BY DEF vars, hist, IInv, TypeOK, CredsInv, ClientInv, HistoryInv, OnlyPermittedAccounts,
         Ignorant, Permitted, PartitionUsed, Identity

LEMMA NextInv == IInv /\ [Next]_vars => IInv'
<1> SUFFICES ASSUME IInv, [Next]_vars PROVE IInv' OBVIOUS
<1>1. CASE Process
  BY <1>1, PlainInv, AssumeRoleInv, GetCredentialsInv, NewSessionInv,
     ValidateCredentialsInv, LookupsInv, ValidateAccountInv, Zenon DEF Process
<1>2. CASE CallS3 BY <1>2, CallInv
<1>3. CASE CallFails \/ UNCHANGED vars BY <1>3, StutterInv DEF CallFails
<1>4. CASE Environment
  BY <1>4, ExpireInv, PlainInv, RestartInv, SourceInv DEF Environment, Accs
<1> QED BY <1>1, <1>2, <1>3, <1>4 DEF Next

-----------------------------------------------------------------------------
LEMMA Consequences ==
  ASSUME IInv
  PROVE  AccountKnown /\ OnlyPermittedAccounts /\ ArnsStayValid
<1>1. AccountKnown BY DEF IInv, ClientInv, Validated, Ignorant, AccountKnown
<1>2. OnlyPermittedAccounts BY DEF IInv, HistoryInv
<1>3. ArnsStayValid
  <2>1. SUFFICES ASSUME \A a, b \in Accounts : PartitionOf[a] = PartitionOf[b],
                        NEW p \in stored, NEW q \in stored
                 PROVE  p = q
    BY DEF ArnsStayValid
  <2>2. CASE Ignorant BY <2>2 DEF IInv, HistoryInv
  <2>3. CASE ~Ignorant
    <3>1. PICK a \in Accounts, b \in Accounts : p = PartitionUsed(a) /\ q = PartitionUsed(b)
      BY <2>3 DEF IInv, HistoryInv
    <3>2. a \in Accs /\ b \in Accs /\ a # NONE /\ b # NONE
      BY ConstantsAssumption DEF ConstantsAssumption, Accs
    <3>3. Identity(a).partition = Identity(b).partition BY <2>1, <3>2, IdentityFields
    <3> QED BY <3>1, <3>3 DEF PartitionUsed
  <2> QED BY <2>2, <2>3
<1> QED BY <1>1, <1>2, <1>3

(* IInv holds in every state of the process, and of those after it.        *)
THEOREM ClientInvariance == Spec => []IInv
  BY InitInv, NextInv, PTL DEF Spec

(* The flags, the cached accounts and the client keep their types.         *)
THEOREM ClientTypeCorrect == Spec => []TypeOK
<1>1. IInv => TypeOK BY DEF IInv
<1> QED BY <1>1, ClientInvariance, PTL

(* A process that runs knows the account it acts for however it was       *)
(* found and whatever failed before, until credentials are fetched again.  *)
THEOREM KnowsAccount == Spec => []AccountKnown
  BY ClientInvariance, Consequences, PTL

(* No S3 call works in an excluded account while the validated credentials *)
(* last, unless nothing was to be validated.                               *)
THEOREM OnlyPermitted == Spec => []OnlyPermittedAccounts
  BY ClientInvariance, Consequences, PTL

(* Successive processes store ARNs of one partition when there is one.     *)
THEOREM ArnsAgree == Spec => []ArnsStayValid
  BY ClientInvariance, Consequences, PTL
=============================================================================
