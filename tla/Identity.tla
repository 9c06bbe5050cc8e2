------------------------------ MODULE Identity ------------------------------
(***************************************************************************)
(* Who a package is.  The ingestion creates its row as a shell, resolvers  *)
(* establish its mappings from conda-forge's index and PyPI and earn it a  *)
(* confidence, and people correct its name and verify it                   *)
(* (identity/services.py, collectors/resolve_identity.py).                 *)
(*                                                                         *)
(* A resolver works from three reads: the identity it caches before it     *)
(* asks, the feedstock rows it finds after, and the package row it reads,  *)
(* without a lock, in the transaction that then saves only the columns     *)
(* that differ from that read.  An override holds the row's lock from its  *)
(* read to its commit, so it is one step.                                  *)
(***************************************************************************)
EXTENDS Naturals, Sequences

CONSTANTS
    Packages,       \* pairs of an identity source and an associator key
    Names,          \* names a package may have
    Listed,         \* package |-> the name the inventory gives it
    Builds,         \* feedstocks conda-forge may list
    Repositories,   \* repositories a PyPI project may name
    Resolvers,      \* workers that resolve identities
    None,
    MaxOverrides    \* bound: corrections of one package

ASSUME ListedAssumption    == Listed \in [Packages -> Names]
ASSUME OverridesAssumption == MaxOverrides \in Nat

VARIABLES
    packages,   \* the package rows, None before the shell is created
    outcomes,   \* package |-> kind |-> what was last recorded of the mapping
    feedstocks, \* package |-> its feedstock rows
    trail,      \* package |-> its identity overrides
    resolvers   \* what each resolver is in the middle of

vars == <<packages, outcomes, feedstocks, trail, resolvers>>

Kinds == {"source_repository", "release_ecosystem", "conda_artifact", "feedstock", "cross_ecosystem"}

Confidences == {"unmapped", "inventory-derived", "verified"}

\* A package row: the name, the confidence, and the values of the mappings.
Package == [name : Names, confidence : Confidences, source_repository_url : Repositories \cup {""},
            primary_purl : Names \cup {""}, conda_purl : Names \cup {""}]

ASSUME NothingAssumption ==
    "" \notin Names \cup Repositories /\ None \notin Packages \cup Package

\* The mapping each column is of.
MappedField == [source_repository_url |-> "source_repository", primary_purl |-> "release_ecosystem",
                conda_purl |-> "conda_artifact"]

Exists(p) == packages[p] # None

\* _another_package_holds: canonical_name is unique.
Claimed(name, p) == \E q \in Packages \ {p} : Exists(q) /\ packages[q].name = name

Idle == [phase |-> "idle", package |-> None, identity |-> None, resolution |-> None, read |-> None]

Init ==
    /\ packages = [p \in Packages |-> None]
    /\ outcomes = [p \in Packages |-> [k \in Kinds |-> "none"]]
    /\ feedstocks = [p \in Packages |-> {}]
    /\ trail = [p \in Packages |-> <<>>]
    /\ resolvers = [r \in Resolvers |-> Idle]

\* resolve_package_shell: a row nobody has resolved, unless its name is taken,
\* which the unique column refuses.
ResolveShell(p) ==
    /\ ~Exists(p)
    /\ ~Claimed(Listed[p], p)
    /\ packages' = [packages EXCEPT ![p] = [name |-> Listed[p], confidence |-> "unmapped",
                                            source_repository_url |-> "", primary_purl |-> "", conda_purl |-> ""]]
    /\ UNCHANGED <<outcomes, feedstocks, trail, resolvers>>

-----------------------------------------------------------------------------
(* A resolution *)

\* source_for: the identity the whole collection works from.  A sweep offers
\* packages nobody verified; a person may have any collected.
Cache(r) ==
    /\ resolvers[r].phase = "idle"
    /\ \E p \in Packages :
           /\ Exists(p)
           /\ resolvers' = [resolvers EXCEPT ![r] =
                  [Idle EXCEPT !.phase = "asking", !.package = p,
                               !.identity = [name |-> packages[p].name,
                                             repository |-> packages[p].source_repository_url,
                                             purl |-> packages[p].primary_purl,
                                             source |-> outcomes[p]["source_repository"],
                                             release |-> outcomes[p]["release_ecosystem"]]]]
    /\ UNCHANGED <<packages, outcomes, feedstocks, trail>>

\* What PyPI may come to: asked, the project is there, the repository it names.
ProjectAnswers ==
    [asked : {TRUE}, found : {TRUE}, repository : Repositories \cup {""}]
        \cup {[asked |-> TRUE, found |-> FALSE, repository |-> ""],
              [asked |-> FALSE, found |-> FALSE, repository |-> ""]}

\* An outcome and a value are recorded together.
Settled(value) == IF value = "" THEN "not_found" ELSE "established"

\* Mutant of Carried: what could not be asked is an error.
NotCarried(outcome, value) == [outcome |-> "error", value |-> ""]

\* When PyPI could not be asked, what an earlier run established is asserted
\* again.
Carried(outcome, value) ==
    IF outcome = "established" /\ value # "" THEN [outcome |-> outcome, value |-> value]
    ELSE [outcome |-> "error", value |-> ""]

\* resolution_for.  prior says the package holds feedstock rows already, which
\* the index's silence does not remove.
ResolutionFor(identity, listed, project, prior) ==
    LET source  == IF project.asked
                   THEN [outcome |-> Settled(project.repository), value |-> project.repository]
                   ELSE Carried(identity.source, identity.repository)
        purl    == IF project.found THEN identity.name ELSE ""
        release == IF project.asked THEN [outcome |-> Settled(purl), value |-> purl]
                   ELSE Carried(identity.release, identity.purl)
        conda   == IF listed # {} \/ prior THEN identity.name ELSE ""
    IN  [outcomes   |-> [source_repository |-> source.outcome, release_ecosystem |-> release.outcome,
                         conda_artifact |-> Settled(conda), feedstock |-> Settled(conda),
                         cross_ecosystem |-> "not_found"],
         values     |-> [source_repository_url |-> source.value, primary_purl |-> release.value,
                         conda_purl |-> conda],
         feedstocks |-> listed,
         asked      |-> project.asked,
         confidence |-> IF source.value # "" \/ project.found \/ conda # ""
                        THEN "inventory-derived" ELSE "unmapped"]

\* The index lists the package's feedstocks, PyPI answers or does not, and the
\* resolution is put together.
Resolve(r) ==
    /\ resolvers[r].phase = "asking"
    /\ \E listed \in SUBSET Builds, project \in ProjectAnswers :
           resolvers' = [resolvers EXCEPT
               ![r].phase = "resolved",
               ![r].resolution = ResolutionFor(resolvers[r].identity, listed, project,
                                               feedstocks[resolvers[r].package] # {})]
    /\ UNCHANGED <<packages, outcomes, feedstocks, trail>>

\* _package_at: read, not locked.
ReadRow(r) ==
    /\ resolvers[r].phase = "resolved"
    /\ resolvers' = [resolvers EXCEPT ![r].phase = "recording", ![r].read = packages[resolvers[r].package]]
    /\ UNCHANGED <<packages, outcomes, feedstocks, trail>>

\* Mutant of Held: any claim is written.
NeverHeld(read, resolution) == FALSE

\* Mutant of Held: no confidence that was earned is lowered.
NeverLowered(read, resolution) == read.confidence # "unmapped" /\ resolution.confidence = "unmapped"

\* A verified identity meets a lower claim.
Held(read, resolution) == read.confidence = "verified" /\ resolution.confidence # "verified"

\* The row as the resolution means it to be.
Intended(read, resolution) ==
    [column \in DOMAIN read |->
        IF column = "confidence" THEN IF Held(read, resolution) THEN read.confidence ELSE resolution.confidence
        ELSE IF column \in DOMAIN MappedField /\ resolution.outcomes[MappedField[column]] = "established"
             THEN resolution.values[column]
             ELSE read[column]]

\* Mutant of Written: save() without update_fields.
EveryColumn(read, intended) == DOMAIN read

\* _write_identity saves the columns it changes.
Written(read, intended) == {column \in DOMAIN read : intended[column] # read[column]}

\* record_resolution: the changed columns, the feedstock rows, which are only
\* ever added to, and an outcome for every kind of mapping, in one transaction.
RecordResolution(r) ==
    LET p          == resolvers[r].package
        read       == resolvers[r].read
        resolution == resolvers[r].resolution
        intended   == Intended(read, resolution)
        written    == Written(read, intended)
    IN  /\ resolvers[r].phase = "recording"
        /\ packages' = [packages EXCEPT ![p] =
               [column \in DOMAIN @ |-> IF column \in written THEN intended[column] ELSE @[column]]]
        /\ feedstocks' = [feedstocks EXCEPT ![p] = @ \cup resolution.feedstocks]
        /\ outcomes' = [outcomes EXCEPT ![p] = resolution.outcomes]
        /\ resolvers' = [resolvers EXCEPT ![r] = Idle]
        /\ UNCHANGED trail

\* The index cannot be read, a write is refused, or the process dies: the
\* package is as it was.
GiveUp(r) ==
    /\ resolvers[r].phase # "idle"
    /\ resolvers' = [resolvers EXCEPT ![r] = Idle]
    /\ UNCHANGED <<packages, outcomes, feedstocks, trail>>

-----------------------------------------------------------------------------
(* A correction *)

\* override_identity: a person vouches for the identity, under a name nobody
\* else has, and the audit row says what it replaced.
OverrideIdentity(p) ==
    /\ Exists(p)
    /\ Len(trail[p]) < MaxOverrides
    /\ \E name \in Names :
           /\ name # packages[p].name => ~Claimed(name, p)
           /\ packages' = [packages EXCEPT ![p].name = name, ![p].confidence = "verified"]
           /\ trail' = [trail EXCEPT ![p] = Append(@, [prior_name |-> packages[p].name, new_name |-> name,
                                                       prior_confidence |-> packages[p].confidence])]
    /\ UNCHANGED <<outcomes, feedstocks, resolvers>>

Next ==
    \/ \E p \in Packages : ResolveShell(p) \/ OverrideIdentity(p)
    \/ \E r \in Resolvers : Cache(r) \/ Resolve(r) \/ ReadRow(r) \/ RecordResolution(r) \/ GiveUp(r)

Spec == Init /\ [][Next]_vars

-----------------------------------------------------------------------------
(* Properties *)

\* What a resolver knows of a package before it asks, and what it comes to.
Cached == [name : Names, repository : Repositories \cup {""}, purl : Names \cup {""},
           source : {"none", "established", "not_found", "error"},
           release : {"none", "established", "not_found", "error"}]

Resolution == [outcomes : [Kinds -> {"established", "not_found", "error"}],
               values : [source_repository_url : Repositories \cup {""}, primary_purl : Names \cup {""},
                         conda_purl : Names \cup {""}],
               feedstocks : SUBSET Builds, asked : BOOLEAN, confidence : {"unmapped", "inventory-derived"}]

Resolver == [phase : {"idle", "asking", "resolved", "recording"}, package : Packages \cup {None},
             identity : Cached \cup {None}, resolution : Resolution \cup {None}, read : Package \cup {None}]

TypeOK ==
    /\ packages \in [Packages -> Package \cup {None}]
    /\ outcomes \in [Packages -> [Kinds -> {"none", "established", "not_found", "error"}]]
    /\ feedstocks \in [Packages -> SUBSET Builds]
    /\ trail \in [Packages -> Seq([prior_name : Names, new_name : Names, prior_confidence : Confidences])]
    /\ resolvers \in [Resolvers -> Resolver]
    /\ \A r \in Resolvers :
           /\ resolvers[r].phase # "idle" =>
                  /\ resolvers[r].package \in Packages /\ Exists(resolvers[r].package)
                  /\ resolvers[r].identity \in Cached
           /\ resolvers[r].phase \in {"resolved", "recording"} => resolvers[r].resolution \in Resolution
           /\ resolvers[r].phase = "recording" => resolvers[r].read \in Package

\* The name the inventory listed, and the names overrides gave a package.
NamesOf(p) == [i \in 0..Len(trail[p]) |-> IF i = 0 THEN Listed[p] ELSE trail[p][i].new_name]

\* The name of a package is the one its newest override gave it, or the one
\* the inventory listed: no resolution that started from an older name puts it
\* back.  And every override recorded the name it really replaced.
NameIsTheNewestOverrides ==
    \A p \in Packages : Exists(p) =>
        /\ packages[p].name = NamesOf(p)[Len(trail[p])]
        /\ \A i \in 1..Len(trail[p]) : trail[p][i].prior_name = NamesOf(p)[i - 1]

\* A verified identity is lowered only by a resolver that read the row before
\* the verdict and saves after it: services.py promises that a resolution
\* never overwrites verified, and between an unlocked read and the save of
\* what differs from it there is room for one.
VerifiedFallsOnlyToAStaleRead ==
    [][\A p \in Packages :
          (Exists(p) /\ packages[p].confidence = "verified" /\ packages'[p].confidence # "verified") =>
              \E r \in Resolvers : /\ resolvers[r].phase = "recording" /\ resolvers[r].package = p
                                   /\ resolvers[r].read.confidence # "verified"]_vars

\* A failure to ask PyPI never lowers a mapping an earlier run established
\* (resolve_identity.py): what was established when the resolver looked is
\* established after it recorded, and every established mapping has its value.
FailureToAskLowersNoMapping ==
    [][\A r \in Resolvers :
          (resolvers[r].phase = "recording" /\ resolvers'[r].phase = "idle" /\ outcomes' # outcomes) =>
              LET now == outcomes'[resolvers[r].package]
                  row == packages'[resolvers[r].package]
              IN  /\ ~resolvers[r].resolution.asked =>
                         /\ resolvers[r].identity.source = "established" => now["source_repository"] = "established"
                         /\ resolvers[r].identity.release = "established" => now["release_ecosystem"] = "established"
                  /\ \A column \in DOMAIN MappedField :
                         now[MappedField[column]] = "established" => row[column] # ""]_vars

\* A package is inventory-derived only while some mapping is established, and
\* unmapped never with feedstocks to its name (record_resolution,
\* resolution_for), as long as one resolver at a time has the package.
ConfidenceIsEarned ==
    \A p \in Packages : Exists(p) =>
        /\ packages[p].confidence = "inventory-derived" => \E k \in Kinds : outcomes[p][k] = "established"
        /\ packages[p].confidence = "unmapped" => feedstocks[p] = {}
=============================================================================
