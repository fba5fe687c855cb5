----------------------------- MODULE AwsClient -----------------------------
(***************************************************************************)
(* The operator's process from main to its S3 calls: flags, the chain of   *)
(* credential providers, the AWS client with its validation of region,     *)
(* credentials and account (pkg/aws: config.go, auth_helpers.go,           *)
(* provider.go), and the start of the manager (cmd/manager/main.go).       *)
(*                                                                         *)
(* Every error of the start ends the process, and Kubernetes starts it     *)
(* anew with the same flags. Credentials change behind the process: the    *)
(* credentials file and the host's roles at any time, the rest between two *)
(* processes; credentials that expire are fetched again by the same chain. *)
(***************************************************************************)
EXTENDS Naturals, SequencesExt

CONSTANTS
  Accounts,        \* AWS account IDs; credentials stand for their account
  PartitionOf,     \* [Accounts -> partitions], as ARNs of the account say
  HostAccount,     \* the account of the roles of the EC2 instance and ECS task
  RegionIsValid,   \* aws-region is a region the SDK knows
  RegionPartition, \* the partition the SDK infers from it, or NONE
  FlagChoices,     \* the flags the process may be started with
  NONE,
  MaxChanges, MaxFaults \* bounds of the environment

Flags == [skipRegion : BOOLEAN, skipCreds : BOOLEAN, skipAccount : BOOLEAN,
          skipMetadata : BOOLEAN,
          profile : BOOLEAN,           \* aws-profile is set
          role : Accounts \cup {NONE}, \* the account of aws-assume-role-arn
          allowed : SUBSET Accounts,   \* empty: any
          forbidden : SUBSET Accounts]

ASSUME ConstantsAssumption ==
  /\ NONE \notin Accounts /\ HostAccount \in Accounts
  /\ RegionIsValid \in BOOLEAN
  /\ FlagChoices # {} /\ FlagChoices \subseteq Flags
  /\ MaxChanges \in Nat /\ MaxFaults \in Nat

(* The providers of GetCredentials, in the order of the chain, and the     *)
(* sources the session falls back to.                                      *)
Chain == <<"static", "env", "file", "ecs", "ec2">>
Providers == ToSet(Chain) \cup {"session", "profile"}

(* Their configuration is read once, so it can change between processes    *)
(* only; those of the host's roles come and go, in one account.            *)
Fixed == {"static", "env", "session", "profile"}
Host == {"ecs", "ec2"}
(* Their credentials expire, as those of an assumed role do.               *)
Expiring == {"ecs", "ec2", "session", "profile", "role"}

VARIABLES
  flags,   \* the flags, the same for every process
  sources, \* [Providers -> Accounts \cup {NONE}]: whose credentials each has
  pc,      \* the next step of the process
  chain,   \* the providers in the credentials chain of this process
  creds,   \* the credentials in use: their provider, account, and expiry
  client,  \* AWSClient: accountid and partition
  acted,   \* history: accounts that S3 calls of this process worked in
  renewed, \* history: credentials were fetched again since the validation
  stored,  \* history: partitions of the ARNs stored in objects
  spent    \* what the environment has used of its bounds

hist == <<acted, renewed, stored>>
vars == <<flags, sources, pc, chain, creds, client, hist, spent>>

NoCreds == [provider |-> NONE, account |-> NONE, expired |-> FALSE]
NoClient == [account |-> NONE, partition |-> NONE]

-----------------------------------------------------------------------------
(* Steps of the start: they go on, or end the process with os.Exit(1).     *)

Fault == spent.faults < MaxFaults /\ spent' = [spent EXCEPT !.faults = @ + 1]

GoTo(next) == pc' = next
Exit == GoTo("exited")

(* Any call to a service may fail, and then the start ends.                *)
MayFail == Fault /\ Exit

(* config.GetConfig, manager.New and AddToScheme.                          *)
Setup ==
  /\ pc = "setup"
  /\ \/ GoTo("region") /\ UNCHANGED spent
     \/ MayFail
  /\ UNCHANGED <<flags, sources, chain, creds, client, hist>>

ValidateRegion ==
  /\ pc = "region"
  /\ IF flags.skipRegion \/ RegionIsValid THEN GoTo("chain") ELSE Exit
  /\ UNCHANGED <<flags, sources, chain, creds, client, hist, spent>>

(* GetCredentials: the ECS provider when its variable is set, the EC2      *)
(* provider when the metadata service answers within its short timeout.    *)
BuildChain ==
  /\ pc = "chain"
  /\ \E ecs, ec2 \in BOOLEAN :
       /\ ecs = (sources["ecs"] # NONE)
       /\ \/ ec2 = (~flags.skipMetadata /\ sources["ec2"] # NONE) /\ UNCHANGED spent
          \/ ~ec2 /\ ~flags.skipMetadata /\ sources["ec2"] # NONE /\ Fault
       /\ chain' = {p \in ToSet(Chain) : (p = "ecs" => ecs) /\ (p = "ec2" => ec2)}
  /\ GoTo(IF flags.role # NONE THEN "assumeRole" ELSE "getCredentials")
  /\ UNCHANGED <<flags, sources, creds, client, hist>>

(* ChainProvider.Retrieve: the first provider that has credentials.        *)
First(p) ==
  /\ p \in chain /\ sources[p] # NONE
  /\ \A i, j \in 1..Len(Chain) :
       i < j /\ Chain[j] = p /\ Chain[i] \in chain => sources[Chain[i]] = NONE

ChainIsEmpty == \A p \in chain : sources[p] = NONE

From(p, account) == [provider |-> p, account |-> account, expired |-> FALSE]

(* AssumeRoleProvider with the chain's credentials. Nothing found, nothing *)
(* assumed: the start ends.                                                *)
AssumeRole ==
  /\ pc = "assumeRole"
  /\ \/ /\ ChainIsEmpty /\ Exit
        /\ UNCHANGED <<creds, spent>>
     \/ /\ ~ChainIsEmpty
        /\ \/ /\ creds' = From("role", flags.role)
              /\ GoTo("newSession") /\ UNCHANGED spent
           \/ MayFail /\ UNCHANGED creds
  /\ UNCHANGED <<flags, sources, chain, client, hist>>

(* creds.Get in Client: without credentials in the chain the session's own *)
(* sources are tried, or those of the profile, which are not looked at.    *)
GetCredentials ==
  /\ pc = "getCredentials"
  /\ \/ /\ \E p \in chain : First(p) /\ creds' = From(p, sources[p])
        /\ GoTo("newSession")
     \/ /\ ChainIsEmpty /\ flags.profile
        /\ creds' = From("profile", sources["profile"])
        /\ GoTo("newSession")
     \/ /\ ChainIsEmpty /\ ~flags.profile /\ sources["session"] # NONE
        /\ creds' = From("session", sources["session"])
        /\ GoTo("newSession")
     \/ /\ ChainIsEmpty /\ ~flags.profile /\ sources["session"] = NONE
        /\ Exit /\ UNCHANGED creds
  /\ UNCHANGED <<flags, sources, chain, client, hist, spent>>

(* The fields of the client, swapped and as they are.                      *)
IdentitySwapped(account) ==
  [account |-> IF account = NONE THEN NONE ELSE PartitionOf[account],
   partition |-> account]

Identity(account) ==
  [account |-> account,
   partition |-> IF account = NONE THEN NONE ELSE PartitionOf[account]]

(* The session; the account of the role's ARN is taken on trust.           *)
NewSession ==
  /\ pc = "newSession"
  /\ \/ GoTo("validateCredentials") /\ UNCHANGED spent
     \/ MayFail
  /\ client' = Identity(flags.role)
  /\ UNCHANGED <<flags, sources, chain, creds, hist>>

(* Calls with credentials find out the account they belong to.             *)
Answered == creds.account # NONE /\ client' = Identity(creds.account)

(* What follows the validation of the credentials: with the account found, *)
(* or not asked for, its validation.                                       *)
AfterCredentials(c) ==
  IF c.account = NONE /\ ~flags.skipAccount THEN "lookup" ELSE "validateAccount"

ValidateCredentials ==
  /\ pc = "validateCredentials"
  /\ \/ /\ flags.skipCreds /\ UNCHANGED <<client, spent>>
        /\ GoTo(AfterCredentials(client))
     \/ /\ ~flags.skipCreds
        /\ \/ Answered /\ GoTo(AfterCredentials(client')) /\ UNCHANGED spent
           \/ /\ UNCHANGED client
              /\ \/ creds.account = NONE /\ Exit /\ UNCHANGED spent
                 \/ MayFail
  /\ UNCHANGED <<flags, sources, chain, creds, hist>>

(* GetAccountIDAndPartition: the instance's metadata or iam:GetUser, then  *)
(* sts:GetCallerIdentity, then iam:ListRoles. Each may be denied to these  *)
(* credentials; only the last makes the start fail.                        *)
Lookup ==
  /\ pc = "lookup"
  /\ \/ /\ creds.provider = "ec2" /\ sources["ec2"] # NONE
        /\ client' = Identity(sources["ec2"]) /\ GoTo("validateAccount")
     \/ creds.provider # "ec2" /\ Answered /\ GoTo("validateAccount")
     \/ GoTo("lookupSTS") /\ UNCHANGED client
  /\ UNCHANGED <<flags, sources, chain, creds, hist, spent>>

LookupSTS ==
  /\ pc = "lookupSTS"
  /\ \/ Answered /\ GoTo("validateAccount") /\ UNCHANGED spent
     \/ /\ UNCHANGED client /\ GoTo("lookupRoles")
        /\ (creds.account = NONE /\ UNCHANGED spent) \/ Fault
  /\ UNCHANGED <<flags, sources, chain, creds, hist>>

(* Going on without the account when no way to find it works.              *)
LookupRolesLenient ==
  /\ pc = "lookupRoles"
  /\ GoTo("validateAccount")
  /\ UNCHANGED <<flags, sources, chain, creds, client, hist, spent>>

LookupRoles ==
  /\ pc = "lookupRoles"
  /\ \/ Answered /\ GoTo("validateAccount")
     \/ UNCHANGED client /\ Exit
  /\ UNCHANGED <<flags, sources, chain, creds, hist, spent>>

(* ValidateAccountId that only looks at the forbidden accounts.            *)
PermittedUnlessForbidden(account) == account \notin flags.forbidden

(* ValidateAccountId that takes an empty list for one that allows nobody.  *)
PermittedIfListed(account) ==
  account \notin flags.forbidden /\ account \in flags.allowed

(* ValidateAccountId: an account that is not known is not forbidden, but   *)
(* it is not one of the allowed either.                                    *)
Permitted(account) ==
  /\ account \notin flags.forbidden
  /\ flags.allowed # {} => account \in flags.allowed

ValidateAccount ==
  /\ pc = "validateAccount"
  /\ \/ ~Permitted(client.account) /\ Exit /\ UNCHANGED client
     \/ /\ Permitted(client.account) /\ GoTo("start")
        /\ client' = [client EXCEPT !.partition =
                        IF @ = NONE THEN RegionPartition ELSE @]
  /\ UNCHANGED <<flags, sources, chain, creds, hist, spent>>

(* GetAWSClient is done: controllers are added and the manager started.    *)
Start ==
  /\ pc = "start"
  /\ \/ GoTo("running") /\ UNCHANGED spent
     \/ MayFail
  /\ UNCHANGED <<flags, sources, chain, creds, client, hist>>

-----------------------------------------------------------------------------
(* The controllers run.                                                    *)

(* Credentials.Get: expired credentials are fetched from where they came   *)
(* from, and for the chain that is its first provider by now.              *)
Renewable(c) ==
  CASE creds.provider = "role" -> c = From("role", flags.role)
    [] creds.provider \in {"session", "profile"} ->
         sources[creds.provider] # NONE
         /\ c = From(creds.provider, sources[creds.provider])
    [] OTHER -> c.provider # "role" /\ First(c.provider)
                /\ c = From(c.provider, sources[c.provider])

Renew ==
  /\ creds.expired
  /\ \E p \in Providers \cup {"role"}, a \in Accounts :
       Renewable(From(p, a)) /\ creds' = From(p, a)
  /\ renewed' = TRUE

(* A call of a reconcile; the credentials have nothing to do with the      *)
(* account that was validated.                                             *)
CallS3 ==
  /\ pc = "running" /\ creds.account # NONE
  /\ Renew \/ (~creds.expired /\ UNCHANGED <<creds, renewed>>)
  /\ acted' = acted \cup {creds'.account}
  /\ stored' = stored \cup {client.partition}
  /\ UNCHANGED <<flags, sources, pc, chain, client, spent>>

(* The call fails, or there are no credentials for it; the reconcile is    *)
(* tried again.                                                            *)
CallFails == pc = "running" /\ UNCHANGED vars

Process ==
  \/ Setup \/ ValidateRegion \/ BuildChain \/ AssumeRole \/ GetCredentials
  \/ NewSession \/ ValidateCredentials \/ Lookup \/ LookupSTS \/ LookupRoles
  \/ ValidateAccount \/ Start

-----------------------------------------------------------------------------
(* The environment.                                                        *)

Expire ==
  /\ creds.provider \in Expiring /\ ~creds.expired
  /\ pc = "running"
  /\ creds' = [creds EXCEPT !.expired = TRUE]
  /\ UNCHANGED <<flags, sources, pc, chain, client, hist, spent>>

SourceChanges(p, account) ==
  /\ p \in Fixed => pc = "exited"
  /\ p \in Host => account \in {HostAccount, NONE}
  /\ spent.changes < MaxChanges /\ sources[p] # account
  /\ spent' = [spent EXCEPT !.changes = @ + 1]
  /\ sources' = [sources EXCEPT ![p] = account]
  /\ UNCHANGED <<flags, pc, chain, creds, client, hist>>

Crash ==
  /\ pc = "running" /\ Fault /\ Exit
  /\ UNCHANGED <<flags, sources, chain, creds, client, hist>>

(* Kubernetes restarts the container.                                      *)
Restart ==
  /\ pc = "exited" /\ GoTo("setup")
  /\ chain' = {} /\ creds' = NoCreds /\ client' = NoClient
  /\ acted' = {} /\ renewed' = FALSE
  /\ UNCHANGED <<flags, sources, stored, spent>>

Environment ==
  \/ Expire \/ Crash \/ Restart
  \/ \E p \in Providers, a \in Accounts \cup {NONE} : SourceChanges(p, a)

-----------------------------------------------------------------------------
Init ==
  /\ flags \in FlagChoices
  /\ sources \in [Providers -> {NONE}]
  /\ pc = "exited"
  /\ chain = {} /\ creds = NoCreds /\ client = NoClient
  /\ acted = {} /\ renewed = FALSE /\ stored = {}
  /\ spent = [changes |-> 0, faults |-> 0]

Next == Process \/ CallS3 \/ CallFails \/ Environment

Spec == Init /\ [][Next]_vars

(* The process runs, and Kubernetes restarts it; credentials need not be   *)
(* found, and nobody has to change them.                                   *)
FairSpec == Spec /\ WF_vars(Process) /\ WF_vars(Restart)

-----------------------------------------------------------------------------
(* Properties.                                                             *)

PCs == {"setup", "region", "chain", "assumeRole", "getCredentials", "newSession",
        "validateCredentials", "lookup", "lookupSTS", "lookupRoles",
        "validateAccount", "start", "running", "exited"}

Partitions == {PartitionOf[a] : a \in Accounts} \cup {RegionPartition, NONE}

(* Every variable has its type.                                            *)
TypeOK ==
  /\ flags \in FlagChoices
  /\ sources \in [Providers -> Accounts \cup {NONE}]
  /\ pc \in PCs
  /\ chain \subseteq ToSet(Chain)
  /\ creds \in [provider : Providers \cup {"role", NONE},
                account : Accounts \cup {NONE}, expired : BOOLEAN]
  /\ client \in [account : Accounts \cup {NONE}, partition : Partitions]
  /\ acted \subseteq Accounts
  /\ renewed \in BOOLEAN /\ stored \subseteq Partitions
  /\ spent \in [changes : 0..MaxChanges, faults : 0..MaxFaults]

(* Whatever way the account was found and whatever failed before, a        *)
(* process that came to run knows the account its calls work in, until its *)
(* credentials are fetched again; it is ignorant only if both the check of *)
(* credentials and the request for the account were switched off.          *)
AccountKnown ==
  (pc = "running" /\ ~renewed) =>
    \/ client.account = creds.account
    \/ client.account = NONE /\ flags.skipCreds /\ flags.skipAccount

(* No S3 call works in an account that the flags exclude, unless both      *)
(* checks were switched off or the credentials were fetched again.         *)
OnlyPermittedAccounts ==
  (~renewed /\ ~(flags.skipCreds /\ flags.skipAccount)) =>
    \A a \in acted : /\ a \notin flags.forbidden
                     /\ flags.allowed = {} \/ a \in flags.allowed

(* The ARNs that successive processes store in objects have one partition, *)
(* when all accounts have one, whatever fails at each start: a restart     *)
(* with the same flags does not take the operator's own objects for        *)
(* renamed ones (validateInstance's BucketNameChanged).                    *)
ArnsStayValid ==
  (\A a, b \in Accounts : PartitionOf[a] = PartitionOf[b]) =>
    \A p, q \in stored : p = q

(* With credentials in the file, a region that is valid or not looked at,  *)
(* and no account excluded, the restarts end with a process that runs,     *)
(* through failed calls, slow metadata and credentials of others, unless   *)
(* the file goes.                                                          *)
StartCompletes ==
  (/\ flags.allowed = {} /\ flags.forbidden = {}
   /\ RegionIsValid \/ flags.skipRegion
   /\ sources["file"] # NONE)
  ~> (pc = "running" \/ sources["file"] = NONE)

=============================================================================
