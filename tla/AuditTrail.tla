------------------------------ MODULE AuditTrail ------------------------------
(***************************************************************************)
(* The audit sink (src/pkg/audit): one object per recorded run in a        *)
(* bucket, under a key made of the organization and of the second in which *)
(* the record was made.  Organizations are numbered in the order of their  *)
(* names, and a record is its organization and its second.                 *)
(***************************************************************************)
EXTENDS Naturals, Sequences, FiniteSets

CONSTANTS
    Orgs,           \* organizations, numbers in the order of their names
    PrefixPerOrg,   \* audit.prefixPerOrg: keys begin with the organization
    AllOrgs         \* the organization of a request that names none

ASSUME OrgsAreNumbers == Orgs \subseteq Nat /\ AllOrgs \notin Orgs
ASSUME PrefixIsFlag == PrefixPerOrg \in BOOLEAN

\* S3.key and NewID: the suffix of an identifier is again the second, so the
\* second is all that tells the records of one organization apart.
Key(record) == <<IF PrefixPerOrg THEN record.org ELSE 0, record.at>>

\* PutObject replaces the object of the same key.
Put(bucket, record) == {r \in bucket : Key(r) # Key(record)} \union {record}

\* Keys compare as strings: by organization first where they begin with it.
Later(k, l) == k[1] > l[1] \/ (k[1] = l[1] /\ k[2] > l[2])

Newer(r, q) == Later(Key(r), Key(q))

\* Faulty variant: the organization is not part of the prefix.
Everything(bucket, org) == bucket

\* S3.List: the objects under the prefix, in descending order of their keys.
\* An organization is a prefix only if keys begin with it.
Under(bucket, org) ==
    IF PrefixPerOrg /\ org # AllOrgs THEN {r \in bucket : r.org = org}
                                     ELSE bucket

\* The place of a record is the number of those before it.
List(bucket, org, limit) ==
    LET found == Under(bucket, org)
        shown == IF Cardinality(found) <= limit THEN Cardinality(found) ELSE limit
    IN  [i \in 1 .. shown |-> CHOOSE r \in found :
            Cardinality({q \in found : Newer(q, r)}) = i - 1]
===============================================================================
