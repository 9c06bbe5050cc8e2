--------------------------- MODULE Identity_proofs ---------------------------
(***************************************************************************)
(* Proofs about Identity, for any packages, names, resolvers and           *)
(* overrides, and about Inventory, for any keys, names and number of       *)
(* decisions.                                                              *)
(*                                                                         *)
(* The argument of the first: no resolution writes a name; what is         *)
(* recorded as established has its value from the moment a resolver caches *)
(* it to the moment the resolution is saved, because no resolution takes a *)
(* value away; and a confidence rests on what the resolution that gave it  *)
(* came to, unless two of one package overlap. Of the second: while an     *)
(* import retires, what is left to retire are entries the file does not    *)
(* name, whoever changes them; and while an ingestion goes on, every       *)
(* package it is done with reads what its document says, or has no row to  *)
(* read.                                                                   *)
(***************************************************************************)
EXTENDS Identity, Inventory, TLAPS

Columns == {"source_repository_url", "primary_purl", "conda_purl"}

\* What is recorded as established has a value, and nothing is recorded of a
\* package that does not exist.
Valued ==
    \A p \in Packages :
        IF Exists(p) THEN \A column \in Columns :
                              outcomes[p][MappedField[column]] = "established" => packages[p][column] # ""
        ELSE \A k \in Kinds : outcomes[p][k] = "none"

\* What a resolution says of what was known when it was asked.
Sound(identity, resolution) ==
    /\ \A column \in Columns :
           resolution.outcomes[MappedField[column]] = "established" => resolution.values[column] # ""
    /\ ~resolution.asked =>
           /\ identity.source = "established" => resolution.outcomes["source_repository"] = "established"
           /\ identity.release = "established" => resolution.outcomes["release_ecosystem"] = "established"

\* A resolver remembers what was established with its value, and no value it
\* read has been taken away since.
Remembered ==
    \A r \in Resolvers :
        /\ resolvers[r].phase # "idle" =>
               /\ resolvers[r].identity.source = "established" => resolvers[r].identity.repository # ""
               /\ resolvers[r].identity.release = "established" => resolvers[r].identity.purl # ""
        /\ resolvers[r].phase \in {"resolved", "recording"} =>
               Sound(resolvers[r].identity, resolvers[r].resolution)
        /\ resolvers[r].phase = "recording" =>
               \A column \in Columns :
                   resolvers[r].read[column] # "" => packages[resolvers[r].package][column] # ""

\* A package is called what its trail says, and one that does not exist was
\* never corrected.
Named == NameIsTheNewestOverrides /\ \A p \in Packages : ~Exists(p) => trail[p] = <<>>

IInv == TypeOK /\ Valued /\ Remembered /\ Named

\* The columns that are of a mapping.
LEMMA MappedColumns ==
    /\ DOMAIN MappedField = Columns
    /\ MappedField["source_repository_url"] = "source_repository"
    /\ MappedField["primary_purl"] = "release_ecosystem"
    /\ MappedField["conda_purl"] = "conda_artifact"
    /\ \A column \in Columns : MappedField[column] \in Kinds
<1>1. DOMAIN MappedField = Columns
  BY DEF MappedField, Columns
<1>2. MappedField["source_repository_url"] = "source_repository"
  BY DEF MappedField
<1>3. MappedField["primary_purl"] = "release_ecosystem"
  BY DEF MappedField
<1>4. MappedField["conda_purl"] = "conda_artifact"
  BY DEF MappedField
<1> QED
  BY <1>1, <1>2, <1>3, <1>4 DEF Columns, Kinds

\* What a resolution puts together from the outcome and value of each mapping.
OutcomeRow(a, b, c) ==
    [source_repository |-> a, release_ecosystem |-> b, conda_artifact |-> c, feedstock |-> c,
     cross_ecosystem |-> "not_found"]

ValueRow(a, b, c) == [source_repository_url |-> a, primary_purl |-> b, conda_purl |-> c]

Assembled(source, release, conda, listed, asked, confidence) ==
    [outcomes   |-> OutcomeRow(source.outcome, release.outcome, conda.outcome),
     values     |-> ValueRow(source.value, release.value, conda.value),
     feedstocks |-> listed,
     asked      |-> asked,
     confidence |-> confidence]

Outcome(Values) == [outcome : {"established", "not_found", "error"}, value : Values \cup {""}]

States == {"established", "not_found", "error"}

Claims == {"unmapped", "inventory-derived"}

\* The row of outcomes is of its type, and says of each mapping what it was given.
LEMMA OutcomeRows ==
    ASSUME NEW a \in States, NEW b \in States,
           NEW c \in States
    PROVE  /\ OutcomeRow(a, b, c) \in [Kinds -> States]
           /\ OutcomeRow(a, b, c)["source_repository"] = a
           /\ OutcomeRow(a, b, c)["release_ecosystem"] = b
           /\ OutcomeRow(a, b, c)["conda_artifact"] = c
<1>1. DOMAIN OutcomeRow(a, b, c) = Kinds
  BY DEF OutcomeRow, Kinds
<1>2. OutcomeRow(a, b, c) = [k \in DOMAIN OutcomeRow(a, b, c) |-> OutcomeRow(a, b, c)[k]]
  BY DEF OutcomeRow
<1>3. \A k \in Kinds : OutcomeRow(a, b, c)[k] \in States
  BY DEF OutcomeRow, Kinds, States
<1>4. /\ OutcomeRow(a, b, c)["source_repository"] = a
      /\ OutcomeRow(a, b, c)["release_ecosystem"] = b
      /\ OutcomeRow(a, b, c)["conda_artifact"] = c
  BY DEF OutcomeRow
<1> QED
  BY <1>1, <1>2, <1>3, <1>4

\* A resolution says of each mapping what it was given.
Says(resolution, source, release, conda, asked) ==
    /\ resolution.asked = asked
    /\ resolution.outcomes["source_repository"] = source.outcome
    /\ resolution.outcomes["release_ecosystem"] = release.outcome
    /\ resolution.outcomes["conda_artifact"] = conda.outcome
    /\ resolution.values["source_repository_url"] = source.value
    /\ resolution.values["primary_purl"] = release.value
    /\ resolution.values["conda_purl"] = conda.value

\* What is put together is of its type, and each of its mappings has the
\* outcome and the value it was given.
LEMMA PutTogether ==
    ASSUME NEW source \in Outcome(Repositories), NEW release \in Outcome(Names), NEW conda \in Outcome(Names),
           NEW listed \in SUBSET Builds, NEW asked \in BOOLEAN, NEW confidence \in Claims,
           NEW resolution, resolution = Assembled(source, release, conda, listed, asked, confidence)
    PROVE  resolution \in Resolution /\ Says(resolution, source, release, conda, asked)
<1>1. /\ source.outcome \in States /\ source.value \in Repositories \cup {""}
      /\ release.outcome \in States /\ release.value \in Names \cup {""}
      /\ conda.outcome \in States /\ conda.value \in Names \cup {""}
  BY DEF Outcome, States
<1>2. PICK row : row = OutcomeRow(source.outcome, release.outcome, conda.outcome)
  OBVIOUS
<1>3. /\ row \in [Kinds -> States]
      /\ row["source_repository"] = source.outcome
      /\ row["release_ecosystem"] = release.outcome
      /\ row["conda_artifact"] = conda.outcome
  <2>1. PICK a, b, c : a = source.outcome /\ b = release.outcome /\ c = conda.outcome
    OBVIOUS
  <2>2. a \in States /\ b \in States /\ c \in States
    BY <1>1, <2>1
  <2>3. OutcomeRow(a, b, c) \in [Kinds -> States]
    BY <2>2, OutcomeRows
  <2>4. /\ OutcomeRow(a, b, c)["source_repository"] = a
        /\ OutcomeRow(a, b, c)["release_ecosystem"] = b
        /\ OutcomeRow(a, b, c)["conda_artifact"] = c
    BY <2>2, OutcomeRows
  <2>5. row = OutcomeRow(a, b, c)
    BY <1>2, <2>1
  <2> QED
    BY <2>1, <2>3, <2>4, <2>5
<1>4. PICK values : values = ValueRow(source.value, release.value, conda.value)
  OBVIOUS
<1>5. /\ values \in [source_repository_url : Repositories \cup {""}, primary_purl : Names \cup {""},
                     conda_purl : Names \cup {""}]
      /\ values["source_repository_url"] = source.value
      /\ values["primary_purl"] = release.value
      /\ values["conda_purl"] = conda.value
  BY <1>1, <1>4 DEF ValueRow
<1>6. resolution = [outcomes |-> row, values |-> values, feedstocks |-> listed, asked |-> asked,
                    confidence |-> confidence]
  BY <1>2, <1>4 DEF Assembled
<1>7. resolution \in Resolution
  <2>1. PICK Rows, Values :
            /\ Rows = [Kinds -> States]
            /\ Values = [source_repository_url : Repositories \cup {""}, primary_purl : Names \cup {""},
                         conda_purl : Names \cup {""}]
    OBVIOUS
  <2>2. row \in Rows /\ values \in Values /\ confidence \in Claims
    BY <1>3, <1>5, <2>1, Zenon
  <2>3. resolution \in [outcomes : Rows, values : Values, feedstocks : SUBSET Builds, asked : BOOLEAN,
                        confidence : Claims]
    BY <1>6, <2>2
  <2>4. Resolution = [outcomes : Rows, values : Values, feedstocks : SUBSET Builds, asked : BOOLEAN,
                      confidence : Claims]
    BY <2>1, Zenon DEF Resolution, States, Claims
  <2> QED
    BY <2>3, <2>4
<1>8. resolution.outcomes = row /\ resolution.values = values /\ resolution.asked = asked
  BY <1>6
<1> QED
  BY <1>3, <1>5, <1>7, <1>8, Zenon DEF Says

\* PyPI was asked or it was not, and a project names a repository or none.
LEMMA Answered ==
    ASSUME NEW project \in ProjectAnswers
    PROVE  project.repository \in Repositories \cup {""} /\ project.asked \in BOOLEAN
<1>1. CASE project \in [asked : {TRUE}, found : {TRUE}, repository : Repositories \cup {""}]
  BY <1>1
<1>2. CASE project = [asked |-> TRUE, found |-> FALSE, repository |-> ""]
  BY <1>2
<1>3. CASE project = [asked |-> FALSE, found |-> FALSE, repository |-> ""]
  BY <1>3
<1> QED
  BY <1>1, <1>2, <1>3 DEF ProjectAnswers

\* A resolution is of its type, gives every mapping it establishes a value, and
\* asserts again what could not be asked.
LEMMA Resolved ==
    ASSUME NEW identity \in Cached, NEW listed \in SUBSET Builds, NEW project \in ProjectAnswers, NEW prior \in BOOLEAN,
           identity.source = "established" => identity.repository # "",
           identity.release = "established" => identity.purl # ""
    PROVE  /\ ResolutionFor(identity, listed, project, prior) \in Resolution
           /\ Sound(identity, ResolutionFor(identity, listed, project, prior))
<1> DEFINE purl    == IF project.found THEN identity.name ELSE ""
           conda   == IF listed # {} \/ prior THEN identity.name ELSE ""
<1>1. PICK source : source = IF project.asked
                             THEN [outcome |-> Settled(project.repository), value |-> project.repository]
                             ELSE Carried(identity.source, identity.repository)
  OBVIOUS
<1>2. PICK release : release = IF project.asked THEN [outcome |-> Settled(purl), value |-> purl]
                               ELSE Carried(identity.release, identity.purl)
  OBVIOUS
<1>3. PICK builds : builds = [outcome |-> Settled(conda), value |-> conda]
  OBVIOUS
<1>4. PICK confidence : confidence = IF source.value # "" \/ project.found \/ conda # ""
                                     THEN "inventory-derived" ELSE "unmapped"
  OBVIOUS
<1>5. PICK resolution : resolution = Assembled(source, release, builds, listed, project.asked, confidence)
  OBVIOUS
<1>6. ResolutionFor(identity, listed, project, prior) = resolution
  BY <1>1, <1>2, <1>3, <1>4, <1>5 DEF ResolutionFor, Assembled, OutcomeRow, ValueRow
<1>7. project.repository \in Repositories \cup {""} /\ project.asked \in BOOLEAN
  BY Answered
<1>8. /\ source \in Outcome(Repositories)
      /\ source.outcome = "established" => source.value # ""
      /\ (~project.asked /\ identity.source = "established") => source.outcome = "established"
  BY <1>1, <1>7 DEF Settled, Carried, Cached, Outcome
<1>9. purl \in Names \cup {""} /\ conda \in Names \cup {""}
  BY DEF Cached
<1>10. /\ release \in Outcome(Names)
       /\ release.outcome = "established" => release.value # ""
       /\ (~project.asked /\ identity.release = "established") => release.outcome = "established"
  BY <1>2, <1>9 DEF Settled, Carried, Cached, Outcome
<1>11. builds \in Outcome(Names) /\ (builds.outcome = "established" => builds.value # "")
  BY <1>3, <1>9 DEF Settled, Outcome
<1>12. confidence \in Claims
  BY <1>4 DEF Claims
<1> HIDE DEF purl, conda
<1>13. /\ resolution \in Resolution
       /\ resolution.asked = project.asked
       /\ resolution.outcomes["source_repository"] = source.outcome
       /\ resolution.outcomes["release_ecosystem"] = release.outcome
       /\ resolution.outcomes["conda_artifact"] = builds.outcome
       /\ resolution.values["source_repository_url"] = source.value
       /\ resolution.values["primary_purl"] = release.value
       /\ resolution.values["conda_purl"] = builds.value
  <2>1. PICK asked : asked = project.asked
    OBVIOUS
  <2>2. asked \in BOOLEAN /\ resolution = Assembled(source, release, builds, listed, asked, confidence)
    BY <1>5, <1>7, <2>1
  <2>3. source \in Outcome(Repositories) /\ release \in Outcome(Names) /\ builds \in Outcome(Names)
    BY <1>8, <1>10, <1>11
  <2>4. resolution \in Resolution /\ Says(resolution, source, release, builds, asked)
    BY <1>12, <2>2, <2>3, PutTogether
  <2> QED
    BY <2>1, <2>4 DEF Says
<1>14. \A column \in Columns :
           resolution.outcomes[MappedField[column]] = "established" => resolution.values[column] # ""
  BY <1>8, <1>10, <1>11, <1>13, MappedColumns DEF Columns
<1>15. Sound(identity, resolution)
  BY <1>8, <1>10, <1>13, <1>14 DEF Sound
<1> QED
  BY <1>6, <1>13, <1>15

\* A row a resolution means is a row, keeps the name and the values it had, and
\* has the value of every mapping the resolution establishes.
LEMMA Meant ==
    ASSUME NEW read \in Package, NEW resolution \in Resolution
    PROVE  /\ Intended(read, resolution) \in Package
           /\ Intended(read, resolution).name = read.name
           /\ Intended(read, resolution).confidence =
                  IF Held(read, resolution) THEN read.confidence ELSE resolution.confidence
           /\ \A column \in Columns :
                  Intended(read, resolution)[column] =
                      IF resolution.outcomes[MappedField[column]] = "established"
                      THEN resolution.values[column] ELSE read[column]
<1>1. DOMAIN read = {"name", "confidence", "source_repository_url", "primary_purl", "conda_purl"}
  BY DEF Package
<1> DEFINE meant(column) ==
               IF column = "confidence" THEN IF Held(read, resolution) THEN read.confidence ELSE resolution.confidence
               ELSE IF column \in Columns /\ resolution.outcomes[MappedField[column]] = "established"
                    THEN resolution.values[column] ELSE read[column]
<1>0. Intended(read, resolution) = [column \in DOMAIN read |-> meant(column)]
  <2>1. DOMAIN MappedField = Columns
    BY MappedColumns
  <2> QED
    BY <2>1 DEF Intended
<1> HIDE DEF meant
<1>a. \A column \in DOMAIN read : Intended(read, resolution)[column] = meant(column)
  BY <1>0
<1>2. \A column \in Columns :
          Intended(read, resolution)[column] =
              IF resolution.outcomes[MappedField[column]] = "established"
              THEN resolution.values[column] ELSE read[column]
  BY <1>a, <1>1 DEF meant, Columns
<1>3. Intended(read, resolution).name = read.name
  BY <1>a, <1>1 DEF meant, Columns
<1>4. Intended(read, resolution).confidence = IF Held(read, resolution) THEN read.confidence ELSE resolution.confidence
  BY <1>a, <1>1 DEF meant
<1>5. Intended(read, resolution) = [column \in DOMAIN read |-> Intended(read, resolution)[column]]
  BY <1>0
<1>6. /\ Intended(read, resolution).name \in Names
      /\ Intended(read, resolution).confidence \in Confidences
      /\ Intended(read, resolution).source_repository_url \in Repositories \cup {""}
      /\ Intended(read, resolution).primary_purl \in Names \cup {""}
      /\ Intended(read, resolution).conda_purl \in Names \cup {""}
  BY <1>2, <1>3, <1>4 DEF Package, Resolution, Columns, Confidences
<1>7. Intended(read, resolution) \in Package
  BY <1>1, <1>5, <1>6 DEF Package
<1> QED
  BY <1>2, <1>3, <1>4, <1>7

\* What a resolution saves: the row's name stays, no value is taken away, and
\* every mapping it establishes has one.
LEMMA Saved ==
    ASSUME IInv, NEW r \in Resolvers, RecordResolution(r)
    PROVE  LET p == resolvers[r].package IN
           /\ p \in Packages /\ Exists(p)
           /\ packages'[p] \in Package
           /\ \A q \in Packages \ {p} : packages'[q] = packages[q] /\ outcomes'[q] = outcomes[q]
           /\ outcomes'[p] = resolvers[r].resolution.outcomes
           /\ packages'[p].name = packages[p].name
           /\ packages[p].confidence = "verified" /\ packages'[p].confidence # "verified" =>
                  resolvers[r].read.confidence # "verified"
           /\ \A column \in Columns :
                  /\ packages[p][column] # "" => packages'[p][column] # ""
                  /\ outcomes'[p][MappedField[column]] = "established" => packages'[p][column] # ""
<1> DEFINE p          == resolvers[r].package
           read       == resolvers[r].read
           resolution == resolvers[r].resolution
           intended   == Intended(read, resolution)
           written    == Written(read, intended)
<1>1. /\ p \in Packages /\ packages[p] \in Package /\ Exists(p)
      /\ read \in Package /\ resolution \in Resolution
      /\ Sound(resolvers[r].identity, resolution)
      /\ \A column \in Columns : read[column] # "" => packages[p][column] # ""
  BY DEF IInv, TypeOK, Remembered, RecordResolution, Exists
<1>2. /\ intended \in Package
      /\ intended.name = read.name
      /\ intended.confidence = IF Held(read, resolution) THEN read.confidence ELSE resolution.confidence
      /\ \A column \in Columns :
             intended[column] = IF resolution.outcomes[MappedField[column]] = "established"
                                THEN resolution.values[column] ELSE read[column]
  BY <1>1, Meant
<1>3. /\ packages' = [packages EXCEPT ![p] =
             [column \in DOMAIN @ |-> IF column \in written THEN intended[column] ELSE @[column]]]
      /\ outcomes' = [outcomes EXCEPT ![p] = resolution.outcomes]
  BY DEF RecordResolution
<1>4. DOMAIN read = {"name", "confidence", "source_repository_url", "primary_purl", "conda_purl"}
  BY <1>1 DEF Package
<1>5. /\ "name" \notin written
      /\ "confidence" \in written <=> intended.confidence # read.confidence
      /\ \A column \in Columns : column \in written <=> intended[column] # read[column]
  BY <1>2, <1>4 DEF Written, Columns
<1> HIDE DEF p, read, resolution, intended, written
<1>6. packages'[p] = [column \in DOMAIN packages[p] |->
                          IF column \in written THEN intended[column] ELSE packages[p][column]]
  BY <1>1, <1>3 DEF IInv, TypeOK
<1>7. packages'[p] \in Package
  BY <1>1, <1>2, <1>6 DEF Package
<1>8. DOMAIN packages[p] = {"name", "confidence", "source_repository_url", "primary_purl", "conda_purl"}
  BY <1>1 DEF Package
<1>9. packages'[p].name = packages[p].name
  BY <1>5, <1>6, <1>8
<1>10. packages'[p].confidence = IF intended.confidence # read.confidence THEN intended.confidence
                                 ELSE packages[p].confidence
  BY <1>5, <1>6, <1>8
<1>11. (packages[p].confidence = "verified" /\ packages'[p].confidence # "verified") => read.confidence # "verified"
  BY <1>1, <1>2, <1>10 DEF Held, Resolution
<1>12. \A column \in Columns :
           packages'[p][column] = IF intended[column] # read[column] THEN intended[column] ELSE packages[p][column]
  BY <1>5, <1>6, <1>8 DEF Columns
<1>13. outcomes'[p] = resolution.outcomes
  BY <1>1, <1>3 DEF IInv, TypeOK
<1>14. ASSUME NEW column \in Columns
       PROVE  /\ packages[p][column] # "" => packages'[p][column] # ""
              /\ outcomes'[p][MappedField[column]] = "established" => packages'[p][column] # ""
  BY <1>1, <1>2, <1>12, <1>13 DEF Sound
<1>15. \A q \in Packages \ {p} : packages'[q] = packages[q] /\ outcomes'[q] = outcomes[q]
  BY <1>3 DEF IInv, TypeOK
<1> QED
  BY <1>1, <1>7, <1>9, <1>11, <1>13, <1>14, <1>15 DEF p, read, resolution

\* A resolver that is in order: of its type, in the middle of a package that
\* exists, and remembering what Remembered says.
InOrder(x) ==
    /\ x \in Resolver
    /\ x.phase # "idle" =>
           /\ x.package \in Packages /\ Exists(x.package) /\ x.identity \in Cached
           /\ x.identity.source = "established" => x.identity.repository # ""
           /\ x.identity.release = "established" => x.identity.purl # ""
    /\ x.phase \in {"resolved", "recording"} => x.resolution \in Resolution /\ Sound(x.identity, x.resolution)
    /\ x.phase = "recording" =>
           x.read \in Package /\ \A column \in Columns : x.read[column] # "" => packages[x.package][column] # ""

\* Every resolver is in order whenever the invariant holds.
LEMMA AllInOrder ==
    ASSUME IInv, NEW r \in Resolvers
    PROVE  InOrder(resolvers[r])
  BY DEF IInv, TypeOK, Remembered, InOrder

\* A step that leaves the packages alone and one resolver in order keeps the
\* invariant.
LEMMA OneResolver ==
    ASSUME IInv, NEW r \in Resolvers, NEW x, InOrder(x), resolvers' = [resolvers EXCEPT ![r] = x],
           UNCHANGED <<packages, outcomes, feedstocks, trail>>
    PROVE  IInv'
<1>1. resolvers' \in [Resolvers -> Resolver]
  BY DEF IInv, TypeOK, InOrder
<1>2. \A s \in Resolvers : resolvers'[s] = IF s = r THEN x ELSE resolvers[s]
  BY DEF IInv, TypeOK
<1>3. \A s \in Resolvers : InOrder(resolvers'[s])
  BY <1>2, AllInOrder
<1>4. TypeOK'
  BY <1>1, <1>3 DEF IInv, TypeOK, InOrder, Exists
<1>5. Valued'
  BY DEF IInv, Valued, Exists
<1>6. Remembered'
  BY <1>3 DEF Remembered, InOrder
<1>7. Named'
  BY DEF IInv, Named, NameIsTheNewestOverrides, NamesOf, Exists
<1> QED
  BY <1>4, <1>5, <1>6, <1>7 DEF IInv

\* Init establishes the invariant.
LEMMA InitIInv == Init => IInv
<1> SUFFICES ASSUME Init PROVE IInv
  OBVIOUS
<1>1. Idle \in Resolver
  BY DEF Idle, Resolver
<1>2. TypeOK
  BY <1>1 DEF Init, TypeOK, Idle
<1>3. Valued
  BY DEF Init, Valued, Exists
<1>4. Remembered
  BY DEF Init, Remembered, Idle
<1>5. Named
  BY DEF Init, Named, NameIsTheNewestOverrides, Exists
<1> QED
  BY <1>2, <1>3, <1>4, <1>5 DEF IInv

\* A resolver that starts over is in order.
LEMMA IdleInOrder == InOrder(Idle)
  BY DEF InOrder, Idle, Resolver

\* Caching an identity keeps the invariant: what is established has a value.
LEMMA CacheStep ==
    ASSUME IInv, NEW r \in Resolvers, Cache(r)
    PROVE  IInv'
<1>1. PICK p, identity :
          /\ p \in Packages
          /\ Exists(p)
          /\ identity = [name |-> packages[p].name, repository |-> packages[p].source_repository_url,
                         purl |-> packages[p].primary_purl, source |-> outcomes[p]["source_repository"],
                         release |-> outcomes[p]["release_ecosystem"]]
          /\ resolvers' = [resolvers EXCEPT ![r] =
                  [Idle EXCEPT !.phase = "asking", !.package = p, !.identity = identity]]
  BY Zenon DEF Cache
<1>2. identity = [name |-> packages[p].name, repository |-> packages[p].source_repository_url,
                  purl |-> packages[p].primary_purl, source |-> outcomes[p]["source_repository"],
                  release |-> outcomes[p]["release_ecosystem"]]
  BY <1>1
<1>3. packages[p] \in Package /\ outcomes[p] \in [Kinds -> {"none", "established", "not_found", "error"}]
  BY <1>1 DEF IInv, TypeOK, Exists
<1>4. identity \in Cached
  BY <1>2, <1>3 DEF Cached, Package, Kinds
<1>5. \A column \in Columns : outcomes[p][MappedField[column]] = "established" => packages[p][column] # ""
  BY <1>1 DEF IInv, Valued
<1>6. /\ outcomes[p]["source_repository"] = "established" => packages[p]["source_repository_url"] # ""
      /\ outcomes[p]["release_ecosystem"] = "established" => packages[p]["primary_purl"] # ""
  BY <1>5, MappedColumns DEF Columns
<1>7. /\ identity.source = "established" => identity.repository # ""
      /\ identity.release = "established" => identity.purl # ""
  BY <1>2, <1>6
<1>8. PICK old : old = Idle
  OBVIOUS
<1>9. old \in Resolver
  BY <1>8, IdleInOrder DEF InOrder
<1>10. PICK x : x = [old EXCEPT !.phase = "asking", !.package = p, !.identity = identity]
  OBVIOUS
<1>11. x \in Resolver /\ x.phase = "asking" /\ x.package = p /\ x.identity = identity
  BY <1>1, <1>4, <1>9, <1>10 DEF Resolver
<1>12. InOrder(x)
  BY <1>1, <1>4, <1>7, <1>11 DEF InOrder
<1>13. resolvers' = [resolvers EXCEPT ![r] = x]
  BY <1>1, <1>8, <1>10, Zenon
<1> QED
  BY <1>12, <1>13, OneResolver DEF Cache

\* Asking keeps the invariant: a resolution is sound.
LEMMA ResolveStep ==
    ASSUME IInv, NEW r \in Resolvers, Resolve(r)
    PROVE  IInv'
<1>1. PICK listed \in SUBSET Builds, project \in ProjectAnswers :
          resolvers' = [resolvers EXCEPT
              ![r].phase = "resolved",
              ![r].resolution = ResolutionFor(resolvers[r].identity, listed, project,
                                              feedstocks[resolvers[r].package] # {})]
  BY DEF Resolve
<1>2. PICK prior : prior = (feedstocks[resolvers[r].package] # {})
  OBVIOUS
<1>3. PICK old : old = resolvers[r]
  OBVIOUS
<1>4. InOrder(old) /\ old.phase = "asking"
  BY <1>3, AllInOrder DEF Resolve
<1>5. PICK resolution : resolution = ResolutionFor(old.identity, listed, project, prior)
  OBVIOUS
<1>6. prior \in BOOLEAN
  BY <1>2
<1>7. /\ old.identity \in Cached
      /\ old.identity.source = "established" => old.identity.repository # ""
      /\ old.identity.release = "established" => old.identity.purl # ""
  BY <1>4 DEF InOrder
<1>8. resolution \in Resolution /\ Sound(old.identity, resolution)
  BY <1>5, <1>6, <1>7, Resolved
<1>9. PICK x : x = [old EXCEPT !.phase = "resolved", !.resolution = resolution]
  OBVIOUS
<1>10. /\ x \in Resolver /\ x.phase = "resolved" /\ x.package = old.package /\ x.identity = old.identity
       /\ x.resolution = resolution
  BY <1>4, <1>8, <1>9 DEF InOrder, Resolver
<1>11. InOrder(x)
  BY <1>4, <1>8, <1>10 DEF InOrder
<1>12. resolvers' = [resolvers EXCEPT ![r] = x]
  BY <1>1, <1>2, <1>3, <1>5, <1>9 DEF IInv, TypeOK
<1> QED
  BY <1>11, <1>12, OneResolver DEF Resolve

\* Reading the row keeps the invariant.
LEMMA ReadRowStep ==
    ASSUME IInv, NEW r \in Resolvers, ReadRow(r)
    PROVE  IInv'
<1>1. PICK old : old = resolvers[r]
  OBVIOUS
<1>2. InOrder(old) /\ old.phase = "resolved"
  BY <1>1, AllInOrder DEF ReadRow
<1>3. PICK row : row = packages[old.package]
  OBVIOUS
<1>4. row \in Package
  BY <1>2, <1>3 DEF InOrder, IInv, TypeOK, Exists
<1>5. PICK x : x = [old EXCEPT !.phase = "recording", !.read = row]
  OBVIOUS
<1>6. /\ x \in Resolver /\ x.phase = "recording" /\ x.package = old.package /\ x.identity = old.identity
      /\ x.resolution = old.resolution /\ x.read = row
  BY <1>2, <1>4, <1>5 DEF InOrder, Resolver
<1>7. InOrder(x)
  BY <1>2, <1>3, <1>4, <1>6 DEF InOrder
<1>8. resolvers' = [resolvers EXCEPT ![r] = x]
  BY <1>1, <1>3, <1>5 DEF ReadRow, IInv, TypeOK
<1> QED
  BY <1>7, <1>8, OneResolver DEF ReadRow

\* Giving up keeps the invariant.
LEMMA GiveUpStep ==
    ASSUME IInv, NEW r \in Resolvers, GiveUp(r)
    PROVE  IInv'
  BY IdleInOrder, OneResolver DEF GiveUp

\* A shell keeps the invariant: it has the listed name and nothing else.
LEMMA ShellStep ==
    ASSUME IInv, NEW p \in Packages, ResolveShell(p)
    PROVE  IInv'
<1>1. PICK shell : shell = [name |-> Listed[p], confidence |-> "unmapped",
                            source_repository_url |-> "", primary_purl |-> "", conda_purl |-> ""]
  OBVIOUS
<1>2. shell \in Package /\ shell.name = Listed[p]
  BY <1>1, ListedAssumption DEF Package, Confidences
<1>3. packages' = [packages EXCEPT ![p] = shell] /\ ~Exists(p)
  BY <1>1 DEF ResolveShell
<1>4. UNCHANGED <<outcomes, feedstocks, trail, resolvers>>
  BY DEF ResolveShell
<1>5. packages' \in [Packages -> Package \cup {None}]
  BY <1>2, <1>3 DEF IInv, TypeOK
<1>6. packages'[p] = shell /\ packages'[p] # None /\ \A q \in Packages \ {p} : packages'[q] = packages[q]
  BY <1>2, <1>3, NothingAssumption DEF IInv, TypeOK
<1>7. \A r \in Resolvers : resolvers[r].phase # "idle" => resolvers[r].package \in Packages \ {p}
  BY <1>3 DEF IInv, TypeOK
<1>8. TypeOK'
  <2>1. \A r \in Resolvers : resolvers'[r].phase # "idle" => packages'[resolvers'[r].package] # None
    BY <1>4, <1>6, <1>7 DEF IInv, TypeOK, Exists
  <2> QED
    BY <1>4, <1>5, <2>1 DEF IInv, TypeOK, Exists
<1>9. Valued'
  <2>1. \A column \in Columns : outcomes[p][MappedField[column]] # "established"
    BY <1>3, MappedColumns DEF IInv, Valued
  <2>2. \A q \in Packages \ {p} : Exists(q)' <=> Exists(q)
    BY <1>6 DEF Exists
  <2>3. Exists(p)'
    BY <1>6 DEF Exists
  <2>4. ASSUME NEW q \in Packages, q # p
        PROVE  IF Exists(q) THEN \A column \in Columns :
                                     outcomes[q][MappedField[column]] = "established" => packages'[q][column] # ""
               ELSE \A k \in Kinds : outcomes[q][k] = "none"
    BY <1>6, <2>4 DEF IInv, Valued
  <2> QED
    BY <1>4, <2>1, <2>2, <2>3, <2>4 DEF Valued
<1>10. Remembered'
  BY <1>4, <1>6, <1>7 DEF IInv, Remembered
<1>11. Named'
  <2>1. trail[p] = <<>>
    BY <1>3 DEF IInv, Named
  <2>2. Len(trail[p]) = 0 /\ NamesOf(p)[0] = Listed[p]
    BY <2>1 DEF NamesOf
  <2>3. ASSUME NEW q \in Packages, Exists(q)'
        PROVE  /\ packages'[q].name = NamesOf(q)[Len(trail[q])]
               /\ \A i \in 1..Len(trail[q]) : trail[q][i].prior_name = NamesOf(q)[i - 1]
    <3>1. CASE q = p
      BY <1>2, <1>6, <2>2, <3>1
    <3>2. CASE q # p
      BY <1>6, <2>3, <3>2 DEF IInv, Named, NameIsTheNewestOverrides, Exists
    <3> QED
      BY <3>1, <3>2
  <2>4. \A q \in Packages : ~Exists(q)' => trail[q] = <<>>
    BY <1>6 DEF IInv, Named, Exists
  <2>5. \A q \in Packages : NamesOf(q)' = NamesOf(q)
    BY <1>4 DEF NamesOf
  <2> QED
    BY <1>4, <2>3, <2>4, <2>5 DEF Named, NameIsTheNewestOverrides
<1> QED
  BY <1>8, <1>9, <1>10, <1>11 DEF IInv

\* A correction keeps the invariant: the new name is the newest of the trail,
\* and no value changes.
LEMMA OverrideStep ==
    ASSUME IInv, NEW p \in Packages, OverrideIdentity(p)
    PROVE  IInv'
<1>1. PICK name, entry :
          /\ name \in Names
          /\ packages' = [packages EXCEPT ![p].name = name, ![p].confidence = "verified"]
          /\ entry = [prior_name |-> packages[p].name, new_name |-> name, prior_confidence |-> packages[p].confidence]
          /\ trail' = [trail EXCEPT ![p] = Append(@, entry)]
  BY Zenon DEF OverrideIdentity
<1>2. Exists(p) /\ UNCHANGED <<outcomes, feedstocks, resolvers>>
  BY DEF OverrideIdentity
<1>3. PICK old : old = packages[p]
  OBVIOUS
<1>4. old \in Package
  BY <1>2, <1>3 DEF IInv, TypeOK, Exists
<1>5. PICK row : row = [old EXCEPT !.name = name, !.confidence = "verified"]
  OBVIOUS
<1>6. /\ row \in Package /\ row.name = name
      /\ \A column \in Columns : row[column] = old[column]
  BY <1>1, <1>4, <1>5 DEF Package, Confidences, Columns
<1>7. packages' = [packages EXCEPT ![p] = row]
  BY <1>1, <1>3, <1>5 DEF IInv, TypeOK
<1>8. /\ packages'[p] = row /\ packages'[p] # None
      /\ \A q \in Packages \ {p} : packages'[q] = packages[q]
      /\ packages' \in [Packages -> Package \cup {None}]
  BY <1>6, <1>7, NothingAssumption DEF IInv, TypeOK
<1>9. \A q \in Packages : Exists(q)' <=> Exists(q)
  BY <1>2, <1>8 DEF Exists
<1>10. PICK Entries : Entries = [prior_name : Names, new_name : Names, prior_confidence : Confidences]
  OBVIOUS
<1>11. entry \in Entries /\ entry.prior_name = old.name /\ entry.new_name = name
  BY <1>1, <1>3, <1>4, <1>10 DEF Package
<1>12. trail \in [Packages -> Seq(Entries)]
  BY <1>10 DEF IInv, TypeOK
<1>13. /\ trail' \in [Packages -> Seq(Entries)]
       /\ trail'[p] = Append(trail[p], entry)
       /\ \A q \in Packages \ {p} : trail'[q] = trail[q]
  BY <1>1, <1>11, <1>12
<1>14. TypeOK'
  <2>1. trail' \in [Packages -> Seq([prior_name : Names, new_name : Names, prior_confidence : Confidences])]
    BY <1>10, <1>13, Zenon
  <2>2. ASSUME NEW r \in Resolvers, resolvers[r].phase # "idle"
        PROVE  packages'[resolvers[r].package] # None
    <3>1. resolvers[r].package \in Packages /\ Exists(resolvers[r].package)
      BY <2>2, AllInOrder DEF InOrder
    <3> QED
      BY <1>9, <3>1 DEF Exists
  <2> QED
    BY <1>2, <1>8, <2>1, <2>2 DEF IInv, TypeOK, Exists
<1>15. \A q \in Packages, column \in Columns :
           Exists(q) => (packages[q][column] # "" => packages'[q][column] # "")
  BY <1>3, <1>6, <1>8
<1>16. Valued'
  BY <1>2, <1>9, <1>15 DEF IInv, Valued
<1>17. Remembered'
  BY <1>2, <1>15 DEF IInv, TypeOK, Remembered
<1>18. Named'
  <2>1. /\ Len(trail[p]) \in Nat /\ Len(trail'[p]) = Len(trail[p]) + 1
        /\ trail'[p][Len(trail'[p])] = entry
        /\ \A i \in 1..Len(trail[p]) : trail'[p][i] = trail[p][i]
    BY <1>11, <1>12, <1>13
  <2>2. \A i \in 0..Len(trail[p]) : NamesOf(p)'[i] = NamesOf(p)[i]
    BY <2>1 DEF NamesOf
  <2>3. NamesOf(p)'[Len(trail'[p])] = name
    BY <1>11, <2>1 DEF NamesOf
  <2>4. /\ old.name = NamesOf(p)[Len(trail[p])]
        /\ \A i \in 1..Len(trail[p]) : trail[p][i].prior_name = NamesOf(p)[i - 1]
    BY <1>2, <1>3 DEF IInv, Named, NameIsTheNewestOverrides
  <2>5. packages'[p].name = NamesOf(p)'[Len(trail'[p])]
    BY <1>6, <1>8, <2>3
  <2>6. ASSUME NEW i \in 1..Len(trail'[p])
        PROVE  trail'[p][i].prior_name = NamesOf(p)'[i - 1]
    <3>1. CASE i = Len(trail'[p])
      BY <1>11, <2>1, <2>2, <2>4, <3>1
    <3>2. CASE i # Len(trail'[p])
      <4>1. i \in 1..Len(trail[p]) /\ i - 1 \in 0..Len(trail[p])
        BY <2>1, <3>2
      <4> QED
        BY <2>1, <2>2, <2>4, <4>1
    <3> QED
      BY <3>1, <3>2
  <2>7. ASSUME NEW q \in Packages, q # p
        PROVE  NamesOf(q)' = NamesOf(q)
    BY <1>13, <2>7 DEF NamesOf
  <2>8. ASSUME NEW q \in Packages, q # p, Exists(q)
        PROVE  /\ packages'[q].name = NamesOf(q)'[Len(trail'[q])]
               /\ \A i \in 1..Len(trail'[q]) : trail'[q][i].prior_name = NamesOf(q)'[i - 1]
    BY <1>8, <1>13, <2>7, <2>8 DEF IInv, Named, NameIsTheNewestOverrides
  <2>9. \A q \in Packages : ~Exists(q) => q # p /\ trail'[q] = <<>>
    BY <1>2, <1>13 DEF IInv, Named
  <2> QED
    BY <1>9, <2>5, <2>6, <2>8, <2>9 DEF Named, NameIsTheNewestOverrides
<1> QED
  BY <1>14, <1>16, <1>17, <1>18 DEF IInv

\* Recording a resolution keeps the invariant.
LEMMA RecordStep ==
    ASSUME IInv, NEW r \in Resolvers, RecordResolution(r)
    PROVE  IInv'
<1>1. PICK p : p = resolvers[r].package
  OBVIOUS
<1>2. PICK resolution : resolution = resolvers[r].resolution
  OBVIOUS
<1>3. /\ p \in Packages /\ Exists(p)
      /\ packages'[p] \in Package
      /\ \A q \in Packages \ {p} : packages'[q] = packages[q] /\ outcomes'[q] = outcomes[q]
      /\ outcomes'[p] = resolution.outcomes
      /\ packages'[p].name = packages[p].name
      /\ \A column \in Columns :
             /\ packages[p][column] # "" => packages'[p][column] # ""
             /\ outcomes'[p][MappedField[column]] = "established" => packages'[p][column] # ""
  BY <1>1, <1>2, Saved
<1>4. resolution \in Resolution
  BY <1>2 DEF IInv, TypeOK, RecordResolution
<1>5. /\ resolvers' = [resolvers EXCEPT ![r] = Idle]
      /\ feedstocks' = [feedstocks EXCEPT ![p] = @ \cup resolution.feedstocks]
      /\ UNCHANGED trail
  BY <1>1, <1>2 DEF RecordResolution
<1>6. DOMAIN packages' = Packages /\ DOMAIN outcomes' = Packages
      /\ packages' = [q \in Packages |-> packages'[q]] /\ outcomes' = [q \in Packages |-> outcomes'[q]]
  BY DEF RecordResolution, IInv, TypeOK
<1>7. packages' \in [Packages -> Package \cup {None}]
  BY <1>3, <1>6 DEF IInv, TypeOK
<1>8. outcomes' \in [Packages -> [Kinds -> {"none", "established", "not_found", "error"}]]
  <2>1. resolution.outcomes \in [Kinds -> {"none", "established", "not_found", "error"}]
    BY <1>4 DEF Resolution
  <2> QED
    BY <1>3, <1>6, <2>1 DEF IInv, TypeOK
<1>9. feedstocks' \in [Packages -> SUBSET Builds]
  BY <1>4, <1>5 DEF IInv, TypeOK, Resolution
<1>10. Idle \in Resolver /\ Idle.phase = "idle"
  BY IdleInOrder DEF InOrder, Idle
<1>11. /\ resolvers' \in [Resolvers -> Resolver]
       /\ \A s \in Resolvers : resolvers'[s].phase # "idle" => s # r /\ resolvers'[s] = resolvers[s]
  BY <1>5, <1>10 DEF IInv, TypeOK
<1>12. \A q \in Packages : Exists(q)' <=> Exists(q)
  BY <1>3, NothingAssumption DEF Exists
<1>13. \A s \in Resolvers : resolvers'[s].phase # "idle" => InOrder(resolvers[s])
  BY AllInOrder
<1>14. ASSUME NEW s \in Resolvers, resolvers'[s].phase # "idle"
       PROVE  /\ resolvers'[s] = resolvers[s] /\ InOrder(resolvers[s])
              /\ resolvers[s].package \in Packages /\ packages'[resolvers[s].package] # None
  <2>1. resolvers'[s] = resolvers[s] /\ InOrder(resolvers[s])
    BY <1>11, <1>13, <1>14
  <2>2. resolvers[s].package \in Packages /\ Exists(resolvers[s].package)
    BY <1>14, <2>1 DEF InOrder
  <2> QED
    BY <1>12, <2>1, <2>2 DEF Exists
<1>15. TypeOK'
  <2>1. ASSUME NEW s \in Resolvers
        PROVE  /\ resolvers'[s].phase # "idle" =>
                      /\ resolvers'[s].package \in Packages /\ packages'[resolvers'[s].package] # None
                      /\ resolvers'[s].identity \in Cached
               /\ resolvers'[s].phase \in {"resolved", "recording"} => resolvers'[s].resolution \in Resolution
               /\ resolvers'[s].phase = "recording" => resolvers'[s].read \in Package
    BY <1>14 DEF InOrder
  <2> QED
    BY <1>5, <1>7, <1>8, <1>9, <1>11, <2>1 DEF IInv, TypeOK, Exists
<1>16. Valued'
  <2>1. ASSUME NEW q \in Packages, q # p
        PROVE  IF Exists(q) THEN \A column \in Columns :
                                     outcomes'[q][MappedField[column]] = "established" => packages'[q][column] # ""
               ELSE \A k \in Kinds : outcomes'[q][k] = "none"
    BY <1>3, <2>1 DEF IInv, Valued
  <2> QED
    BY <1>3, <1>12, <2>1 DEF Valued
<1>17. Remembered'
  <2>1. ASSUME NEW s \in Resolvers
        PROVE  /\ resolvers'[s].phase # "idle" =>
                      /\ resolvers'[s].identity.source = "established" => resolvers'[s].identity.repository # ""
                      /\ resolvers'[s].identity.release = "established" => resolvers'[s].identity.purl # ""
               /\ resolvers'[s].phase \in {"resolved", "recording"} =>
                      Sound(resolvers'[s].identity, resolvers'[s].resolution)
               /\ resolvers'[s].phase = "recording" =>
                      \A column \in Columns :
                          resolvers'[s].read[column] # "" => packages'[resolvers'[s].package][column] # ""
    <3>1. \A q \in Packages, column \in Columns : packages[q][column] # "" => packages'[q][column] # ""
      BY <1>3
    <3>2. CASE resolvers'[s].phase = "idle"
      BY <3>2
    <3>3. CASE resolvers'[s].phase # "idle"
      BY <1>14, <3>1, <3>3 DEF InOrder
    <3> QED
      BY <3>2, <3>3
  <2> QED
    BY <2>1 DEF Remembered
<1>18. Named'
  <2>1. \A q \in Packages : packages'[q].name = packages[q].name
    BY <1>3
  <2>2. \A q \in Packages : NamesOf(q)' = NamesOf(q)
    BY <1>5 DEF NamesOf
  <2>3. NameIsTheNewestOverrides'
    BY <1>5, <1>12, <2>1, <2>2 DEF IInv, Named, NameIsTheNewestOverrides
  <2> QED
    BY <1>5, <1>12, <2>3 DEF IInv, Named
<1> QED
  BY <1>15, <1>16, <1>17, <1>18 DEF IInv

\* A stutter keeps the invariant.
LEMMA StutterStep ==
    ASSUME IInv, UNCHANGED vars
    PROVE  IInv'
<1>1. TypeOK'
  BY DEF vars, IInv, TypeOK, Exists
<1>2. Valued' /\ Remembered'
  BY DEF vars, IInv, Valued, Remembered, Exists
<1>3. \A p \in Packages : NamesOf(p)' = NamesOf(p)
  BY DEF vars, NamesOf
<1>4. Named'
  BY <1>3 DEF vars, IInv, Named, NameIsTheNewestOverrides, Exists
<1> QED
  BY <1>1, <1>2, <1>4 DEF IInv

\* Every step keeps the invariant.
LEMMA NextIInv == IInv /\ [Next]_vars => IInv'
<1> SUFFICES ASSUME IInv, [Next]_vars PROVE IInv'
  OBVIOUS
<1>1. ASSUME NEW p \in Packages, ResolveShell(p) \/ OverrideIdentity(p) PROVE IInv'
  BY <1>1, ShellStep, OverrideStep
<1>2. ASSUME NEW r \in Resolvers, Cache(r) \/ Resolve(r) \/ ReadRow(r) \/ RecordResolution(r) \/ GiveUp(r) PROVE IInv'
  BY <1>2, CacheStep, ResolveStep, ReadRowStep, RecordStep, GiveUpStep
<1>3. CASE UNCHANGED vars
  BY <1>3, StutterStep
<1> QED
  BY <1>1, <1>2, <1>3 DEF Next

\* The invariant holds in every state.
LEMMA Invariant == Spec => []IInv
  BY InitIInv, NextIInv, PTL DEF Spec

\* The rows, the recorded outcomes and everything a resolver carries are what
\* identity/services.py and resolve_identity.py may write.
THEOREM TypeCorrect == Spec => []TypeOK
<1>1. IInv => TypeOK
  BY DEF IInv
<1> QED
  BY <1>1, Invariant, PTL

\* A package is called what its newest override, or else the inventory, calls
\* it, however many resolutions started from an older name.
THEOREM NamesAreOverrides == Spec => []NameIsTheNewestOverrides
<1>1. IInv => NameIsTheNewestOverrides
  BY DEF IInv, Named
<1> QED
  BY <1>1, Invariant, PTL

\* A verdict is lost only to a resolver that read the row before it.
THEOREM VerdictsFallOnlyToStaleReads == Spec => VerifiedFallsOnlyToAStaleRead
<1> DEFINE Falls == \A p \in Packages :
          (Exists(p) /\ packages[p].confidence = "verified" /\ packages'[p].confidence # "verified") =>
              \E r \in Resolvers : /\ resolvers[r].phase = "recording" /\ resolvers[r].package = p
                                   /\ resolvers[r].read.confidence # "verified"
<1>1. ASSUME IInv, [Next]_vars PROVE [Falls]_vars
  <2>1. ASSUME NEW q \in Packages, ResolveShell(q) \/ OverrideIdentity(q) PROVE Falls
    <3>1. CASE ResolveShell(q)
      BY <1>1, <3>1 DEF ResolveShell, Exists, IInv, TypeOK
    <3>2. CASE OverrideIdentity(q)
      <4>1. PICK name \in Names : packages' = [packages EXCEPT ![q].name = name, ![q].confidence = "verified"]
        BY <3>2 DEF OverrideIdentity
      <4>2. packages[q] \in Package
        BY <1>1, <3>2 DEF OverrideIdentity, IInv, TypeOK, Exists
      <4>3. packages'[q].confidence = "verified" /\ \A p \in Packages \ {q} : packages'[p] = packages[p]
        BY <1>1, <4>1, <4>2 DEF IInv, TypeOK, Package
      <4> QED
        BY <4>3
    <3> QED
      BY <2>1, <3>1, <3>2
  <2>2. ASSUME NEW r \in Resolvers, Cache(r) \/ Resolve(r) \/ ReadRow(r) \/ GiveUp(r) PROVE Falls
    BY <2>2 DEF Cache, Resolve, ReadRow, GiveUp
  <2>3. ASSUME NEW r \in Resolvers, RecordResolution(r) PROVE Falls
    <3>1. PICK q : q = resolvers[r].package
      OBVIOUS
    <3>2. /\ \A p \in Packages \ {q} : packages'[p] = packages[p]
          /\ packages[q].confidence = "verified" /\ packages'[q].confidence # "verified" =>
                 resolvers[r].read.confidence # "verified"
      BY <1>1, <2>3, <3>1, Saved
    <3>3. resolvers[r].phase = "recording"
      BY <2>3 DEF RecordResolution
    <3> QED
      BY <3>1, <3>2, <3>3
  <2> QED
    BY <1>1, <2>1, <2>2, <2>3 DEF Next
<1> QED
  BY <1>1, Invariant, PTL DEF Spec, VerifiedFallsOnlyToAStaleRead

\* A resolution that could not ask PyPI lowers no mapping that was established
\* when its resolver looked, and what it establishes has its value.
THEOREM FailuresLowerNothing == Spec => FailureToAskLowersNoMapping
<1> DEFINE Lowers == \A r \in Resolvers :
          (resolvers[r].phase = "recording" /\ resolvers'[r].phase = "idle" /\ outcomes' # outcomes) =>
              LET now == outcomes'[resolvers[r].package]
                  row == packages'[resolvers[r].package]
              IN  /\ ~resolvers[r].resolution.asked =>
                         /\ resolvers[r].identity.source = "established" => now["source_repository"] = "established"
                         /\ resolvers[r].identity.release = "established" => now["release_ecosystem"] = "established"
                  /\ \A column \in DOMAIN MappedField :
                         now[MappedField[column]] = "established" => row[column] # ""
<1>1. ASSUME IInv, [Next]_vars PROVE [Lowers]_vars
  <2>1. ASSUME outcomes' = outcomes PROVE Lowers
    BY <2>1
  <2>2. ASSUME NEW s \in Resolvers, RecordResolution(s) PROVE Lowers
    <3>1. \A r \in Resolvers \ {s} : resolvers'[r] = resolvers[r]
      BY <1>1, <2>2 DEF RecordResolution, IInv, TypeOK
    <3>2. /\ outcomes'[resolvers[s].package] = resolvers[s].resolution.outcomes
          /\ \A column \in Columns :
                 outcomes'[resolvers[s].package][MappedField[column]] = "established" =>
                     packages'[resolvers[s].package][column] # ""
      BY <1>1, <2>2, Saved
    <3>3. Sound(resolvers[s].identity, resolvers[s].resolution)
      BY <1>1, <2>2 DEF RecordResolution, IInv, Remembered
    <3>4. ~resolvers[s].resolution.asked =>
              /\ resolvers[s].identity.source = "established" =>
                     outcomes'[resolvers[s].package]["source_repository"] = "established"
              /\ resolvers[s].identity.release = "established" =>
                     outcomes'[resolvers[s].package]["release_ecosystem"] = "established"
      BY <3>2, <3>3 DEF Sound
    <3>5. ASSUME NEW r \in Resolvers, resolvers[r].phase = "recording", resolvers'[r].phase = "idle"
          PROVE  r = s
      BY <3>1, <3>5
    <3> QED
      BY <3>2, <3>4, <3>5, MappedColumns
  <2>3. ASSUME NEW p \in Packages, ResolveShell(p) \/ OverrideIdentity(p) PROVE outcomes' = outcomes
    BY <2>3 DEF ResolveShell, OverrideIdentity
  <2>4. ASSUME NEW r \in Resolvers, Cache(r) \/ Resolve(r) \/ ReadRow(r) \/ GiveUp(r) PROVE outcomes' = outcomes
    BY <2>4 DEF Cache, Resolve, ReadRow, GiveUp
  <2> QED
    BY <1>1, <2>1, <2>2, <2>3, <2>4 DEF Next
<1> QED
  BY <1>1, Invariant, PTL DEF Spec, FailureToAskLowersNoMapping

-----------------------------------------------------------------------------
(* What a confidence rests on *)

\* No two resolvers hold what they came to about one package.
OneAtATime ==
    \A r, s \in Resolvers :
        (/\ resolvers[r].phase \in {"resolved", "recording"} /\ resolvers[s].phase \in {"resolved", "recording"}
         /\ resolvers[r].package = resolvers[s].package) => r = s

\* What a resolution claims it established, and it claims nothing only when no
\* feedstock was listed, or known before.
Rests(resolution, prior) ==
    /\ resolution.confidence = "inventory-derived" => \E k \in Kinds : resolution.outcomes[k] = "established"
    /\ resolution.confidence = "unmapped" => resolution.feedstocks = {} /\ ~prior

\* A resolver's claim rests on what it came to, and on the feedstock rows its
\* package has; and only a person changes the confidence it read.
Earns(x) ==
    /\ x.phase \in {"resolved", "recording"} => Rests(x.resolution, feedstocks[x.package] # {})
    /\ x.phase = "recording" => packages[x.package].confidence \in {x.read.confidence, "verified"}

EarnedInv ==
    /\ ConfidenceIsEarned
    /\ \A p \in Packages : ~Exists(p) => feedstocks[p] = {}
    /\ \A r \in Resolvers : Earns(resolvers[r])

\* A resolution claims no more and no less than it came to (resolution_for).
LEMMA ClaimsRest ==
    ASSUME NEW identity \in Cached, NEW listed \in SUBSET Builds, NEW project \in ProjectAnswers, NEW prior \in BOOLEAN,
           NEW resolution, resolution = ResolutionFor(identity, listed, project, prior)
    PROVE  Rests(resolution, prior)
<1> DEFINE source  == IF project.asked
                      THEN [outcome |-> Settled(project.repository), value |-> project.repository]
                      ELSE Carried(identity.source, identity.repository)
           purl    == IF project.found THEN identity.name ELSE ""
           release == IF project.asked THEN [outcome |-> Settled(purl), value |-> purl]
                      ELSE Carried(identity.release, identity.purl)
           conda   == IF listed # {} \/ prior THEN identity.name ELSE ""
<1>1. /\ resolution.outcomes["source_repository"] = source.outcome
      /\ resolution.outcomes["release_ecosystem"] = release.outcome
      /\ resolution.outcomes["conda_artifact"] = Settled(conda)
  <2> HIDE DEF source, release, conda
  <2>1. \A a, b, c : /\ OutcomeRow(a, b, c)["source_repository"] = a
                     /\ OutcomeRow(a, b, c)["release_ecosystem"] = b
                     /\ OutcomeRow(a, b, c)["conda_artifact"] = c
    BY DEF OutcomeRow
  <2>2. resolution.outcomes = OutcomeRow(source.outcome, release.outcome, Settled(conda))
    BY DEF ResolutionFor, OutcomeRow, source, release, conda, purl
  <2> QED
    BY <2>1, <2>2
<1>2. /\ resolution.feedstocks = listed
      /\ resolution.confidence = IF source.value # "" \/ project.found \/ conda # ""
                                 THEN "inventory-derived" ELSE "unmapped"
  BY DEF ResolutionFor
<1>3. identity.name # ""
  BY NothingAssumption DEF Cached
<1>4. project.found => project.asked
  <2>1. CASE project \in [asked : {TRUE}, found : {TRUE}, repository : Repositories \cup {""}]
    BY <2>1
  <2>2. CASE project = [asked |-> TRUE, found |-> FALSE, repository |-> ""]
    BY <2>2
  <2>3. CASE project = [asked |-> FALSE, found |-> FALSE, repository |-> ""]
    BY <2>3
  <2> QED
    BY <2>1, <2>2, <2>3 DEF ProjectAnswers
<1>5. source.value # "" => source.outcome = "established"
  BY DEF Settled, Carried
<1>6. project.found => release.outcome = "established"
  BY <1>3, <1>4 DEF Settled
<1>7. conda # "" => Settled(conda) = "established"
  BY DEF Settled
<1>8. conda = "" => listed = {} /\ ~prior
  BY <1>3
<1> HIDE DEF source, purl, release, conda
<1>9. {"source_repository", "release_ecosystem", "conda_artifact"} \subseteq Kinds
  BY DEF Kinds
<1>10. resolution.confidence = "inventory-derived" => source.value # "" \/ project.found \/ conda # ""
  BY <1>2
<1>11. resolution.confidence = "unmapped" => conda = ""
  BY <1>2
<1> QED
  BY <1>1, <1>2, <1>5, <1>6, <1>7, <1>8, <1>9, <1>10, <1>11 DEF Rests

\* A step that leaves the packages alone and what one resolver claims earned
\* keeps every claim earned.
LEMMA EarnedByOne ==
    ASSUME IInv, EarnedInv, NEW r \in Resolvers, NEW x, Earns(x), resolvers' = [resolvers EXCEPT ![r] = x],
           UNCHANGED <<packages, outcomes, feedstocks>>
    PROVE  EarnedInv'
<1>1. \A s \in Resolvers : resolvers'[s] = IF s = r THEN x ELSE resolvers[s]
  BY DEF IInv, TypeOK
<1>2. \A s \in Resolvers : Earns(resolvers'[s])
  BY <1>1 DEF EarnedInv
<1>3. \A s \in Resolvers : Earns(resolvers[s])'
  BY <1>2 DEF Earns
<1>4. ConfidenceIsEarned'
  BY DEF EarnedInv, ConfidenceIsEarned, Exists
<1> QED
  BY <1>3, <1>4 DEF EarnedInv, Exists

LEMMA EarnedInit == Init => EarnedInv
BY DEF Init, EarnedInv, ConfidenceIsEarned, Exists, Earns, Idle

\* Starting over, asking and reading keep every claim earned.
LEMMA EarnedAsking ==
    ASSUME IInv, EarnedInv, NEW r \in Resolvers, Cache(r) \/ Resolve(r) \/ ReadRow(r) \/ GiveUp(r)
    PROVE  EarnedInv'
<1>1. CASE Cache(r)
  <2>1. PICK p, identity :
            resolvers' = [resolvers EXCEPT ![r] = [Idle EXCEPT !.phase = "asking", !.package = p, !.identity = identity]]
    BY <1>1, Zenon DEF Cache
  <2>2. PICK x : x = [Idle EXCEPT !.phase = "asking", !.package = p, !.identity = identity]
    OBVIOUS
  <2>3. x.phase = "asking"
    BY <2>2 DEF Idle
  <2>4. Earns(x)
    BY <2>3 DEF Earns
  <2> QED
    BY <1>1, <2>1, <2>2, <2>4, EarnedByOne DEF Cache
<1>2. CASE Resolve(r)
  <2>1. PICK listed \in SUBSET Builds, project \in ProjectAnswers :
            resolvers' = [resolvers EXCEPT
                ![r].phase = "resolved",
                ![r].resolution = ResolutionFor(resolvers[r].identity, listed, project,
                                                feedstocks[resolvers[r].package] # {})]
    BY <1>2 DEF Resolve
  <2>2. PICK prior \in BOOLEAN : prior = (feedstocks[resolvers[r].package] # {})
    OBVIOUS
  <2>3. PICK old : old = resolvers[r]
    OBVIOUS
  <2>4. InOrder(old) /\ old.phase = "asking"
    BY <1>2, <2>3, AllInOrder DEF Resolve
  <2>5. PICK resolution : resolution = ResolutionFor(old.identity, listed, project, prior)
    OBVIOUS
  <2>6. old.identity \in Cached
    BY <2>4 DEF InOrder
  <2>7. Rests(resolution, prior)
    BY <2>5, <2>6, ClaimsRest
  <2>8. PICK x : x = [old EXCEPT !.phase = "resolved", !.resolution = resolution]
    OBVIOUS
  <2>9. x.phase = "resolved" /\ x.package = old.package /\ x.resolution = resolution
    BY <2>4, <2>8 DEF InOrder, Resolver
  <2>10. Earns(x)
    BY <2>2, <2>3, <2>7, <2>9 DEF Earns
  <2>11. resolvers' = [resolvers EXCEPT ![r] = x]
    BY <2>1, <2>2, <2>3, <2>5, <2>8 DEF IInv, TypeOK
  <2> QED
    BY <1>2, <2>10, <2>11, EarnedByOne DEF Resolve
<1>3. CASE ReadRow(r)
  <2>1. PICK old : old = resolvers[r]
    OBVIOUS
  <2>2. InOrder(old) /\ old.phase = "resolved" /\ Earns(old)
    BY <1>3, <2>1, AllInOrder DEF ReadRow, EarnedInv
  <2>3. PICK row : row = packages[old.package]
    OBVIOUS
  <2>4. PICK x : x = [old EXCEPT !.phase = "recording", !.read = row]
    OBVIOUS
  <2>5. x.phase = "recording" /\ x.package = old.package /\ x.resolution = old.resolution /\ x.read = row
    BY <2>2, <2>4 DEF InOrder, Resolver
  <2>6. Earns(x)
    BY <2>2, <2>3, <2>5 DEF Earns
  <2>7. resolvers' = [resolvers EXCEPT ![r] = x]
    BY <1>3, <2>1, <2>3, <2>4 DEF ReadRow, IInv, TypeOK
  <2> QED
    BY <1>3, <2>6, <2>7, EarnedByOne DEF ReadRow
<1>4. CASE GiveUp(r)
  <2>1. Earns(Idle)
    BY DEF Earns, Idle
  <2> QED
    BY <1>4, <2>1, EarnedByOne DEF GiveUp
<1> QED
  BY <1>1, <1>2, <1>3, <1>4

\* A shell has no feedstocks to its name, and a correction leaves a package
\* verified.
LEMMA EarnedByPeople ==
    ASSUME IInv, EarnedInv, NEW p \in Packages, ResolveShell(p) \/ OverrideIdentity(p)
    PROVE  EarnedInv'
<1>1. PICK row : /\ packages' = [packages EXCEPT ![p] = row] /\ row # None
                 /\ \/ row.confidence = "unmapped" /\ ~Exists(p)
                    \/ row.confidence = "verified" /\ Exists(p)
  <2>1. CASE ResolveShell(p)
    <3>1. PICK shell : shell = [name |-> Listed[p], confidence |-> "unmapped",
                                source_repository_url |-> "", primary_purl |-> "", conda_purl |-> ""]
      OBVIOUS
    <3>2. shell \in Package /\ shell.confidence = "unmapped"
      BY <3>1, ListedAssumption DEF Package, Confidences
    <3> QED
      BY <2>1, <3>1, <3>2, NothingAssumption DEF ResolveShell
  <2>2. CASE OverrideIdentity(p)
    <3>1. PICK name \in Names : packages' = [packages EXCEPT ![p].name = name, ![p].confidence = "verified"]
      BY <2>2 DEF OverrideIdentity
    <3>2. packages[p] \in Package /\ Exists(p)
      BY <2>2 DEF OverrideIdentity, IInv, TypeOK, Exists
    <3>3. PICK row : row = [packages[p] EXCEPT !.name = name, !.confidence = "verified"]
      OBVIOUS
    <3>4. row \in Package /\ row.confidence = "verified"
      BY <3>2, <3>3 DEF Package, Confidences
    <3>5. packages' = [packages EXCEPT ![p] = row]
      BY <3>1, <3>3 DEF IInv, TypeOK
    <3> QED
      BY <3>2, <3>4, <3>5, NothingAssumption
  <2> QED
    BY <2>1, <2>2
<1>2. UNCHANGED <<outcomes, feedstocks, resolvers>>
  BY DEF ResolveShell, OverrideIdentity
<1>3. \A q \in Packages : packages'[q] = IF q = p THEN row ELSE packages[q]
  BY <1>1 DEF IInv, TypeOK
<1>4. ConfidenceIsEarned'
  <2>1. ASSUME NEW q \in Packages, packages'[q] # None
        PROVE  /\ packages'[q].confidence = "inventory-derived" => \E k \in Kinds : outcomes[q][k] = "established"
               /\ packages'[q].confidence = "unmapped" => feedstocks[q] = {}
    BY <1>1, <1>3, <2>1 DEF EarnedInv, ConfidenceIsEarned, Exists
  <2> QED
    BY <1>2, <2>1 DEF ConfidenceIsEarned, Exists
<1>5. \A q \in Packages : packages'[q] = None => feedstocks'[q] = {}
  BY <1>1, <1>2, <1>3 DEF EarnedInv, Exists
<1>6. ASSUME NEW r \in Resolvers, NEW x, x = resolvers[r], x.phase = "recording"
      PROVE  packages'[x.package].confidence \in {x.read.confidence, "verified"}
  <2>1. x.package \in Packages /\ Exists(x.package) /\ Earns(x)
    BY <1>6, AllInOrder DEF InOrder, EarnedInv
  <2> QED
    BY <1>1, <1>3, <1>6, <2>1 DEF Earns
<1>7. \A r \in Resolvers : Earns(resolvers[r])'
  BY <1>2, <1>6 DEF Earns, EarnedInv
<1> QED
  BY <1>4, <1>5, <1>7 DEF EarnedInv, Exists

\* A record leaves a package with the confidence it claims or the one it had,
\* which is then the one it read or a person's.
LEMMA EarnedRecording ==
    ASSUME IInv, EarnedInv, OneAtATime, NEW r \in Resolvers, RecordResolution(r)
    PROVE  EarnedInv'
<1>1. PICK p, read, resolution :
          p = resolvers[r].package /\ read = resolvers[r].read /\ resolution = resolvers[r].resolution
  OBVIOUS
<1>2. /\ p \in Packages /\ Exists(p) /\ packages'[p] \in Package
      /\ \A q \in Packages \ {p} : packages'[q] = packages[q] /\ outcomes'[q] = outcomes[q]
      /\ outcomes'[p] = resolution.outcomes
  BY <1>1, Saved
<1>3. read \in Package /\ resolution \in Resolution /\ resolvers[r].phase = "recording" /\ packages[p] \in Package
  BY <1>1, <1>2 DEF IInv, TypeOK, RecordResolution, Exists
<1>4. /\ resolution.confidence = "inventory-derived" => \E k \in Kinds : resolution.outcomes[k] = "established"
      /\ resolution.confidence = "unmapped" => resolution.feedstocks = {} /\ feedstocks[p] = {}
      /\ packages[p].confidence \in {read.confidence, "verified"}
  BY <1>1, <1>3 DEF EarnedInv, Earns, Rests
<1>5. /\ resolvers' = [resolvers EXCEPT ![r] = Idle]
      /\ feedstocks' = [feedstocks EXCEPT ![p] = @ \cup resolution.feedstocks]
  BY <1>1 DEF RecordResolution
<1>6. /\ feedstocks'[p] = feedstocks[p] \cup resolution.feedstocks
      /\ \A q \in Packages \ {p} : feedstocks'[q] = feedstocks[q]
  BY <1>2, <1>5 DEF IInv, TypeOK
<1>7. packages'[p].confidence \in {resolution.confidence, "verified"}
  <2> DEFINE intended == Intended(read, resolution)
  <2>1. intended.confidence = IF Held(read, resolution) THEN read.confidence ELSE resolution.confidence
    BY <1>3, Meant
  <2>2. packages' = [packages EXCEPT ![p] =
            [column \in DOMAIN @ |-> IF column \in Written(read, intended) THEN intended[column] ELSE @[column]]]
    BY <1>1 DEF RecordResolution
  <2> HIDE DEF intended
  <2>3. "confidence" \in DOMAIN read /\ "confidence" \in DOMAIN packages[p]
    BY <1>3 DEF Package
  <2>4. packages'[p].confidence = IF "confidence" \in Written(read, intended) THEN intended.confidence
                                  ELSE packages[p].confidence
    BY <1>2, <2>2, <2>3 DEF IInv, TypeOK
  <2>5. "confidence" \in Written(read, intended) <=> intended.confidence # read.confidence
    BY <2>3 DEF Written
  <2> QED
    BY <1>4, <2>1, <2>4, <2>5 DEF Held
<1>8. ConfidenceIsEarned'
  <2>1. /\ packages'[p].confidence = "inventory-derived" => \E k \in Kinds : outcomes'[p][k] = "established"
        /\ packages'[p].confidence = "unmapped" => feedstocks'[p] = {}
    BY <1>2, <1>4, <1>6, <1>7
  <2>2. ASSUME NEW q \in Packages \ {p}, packages'[q] # None
        PROVE  /\ packages'[q].confidence = "inventory-derived" => \E k \in Kinds : outcomes'[q][k] = "established"
               /\ packages'[q].confidence = "unmapped" => feedstocks'[q] = {}
    BY <1>2, <1>6, <2>2 DEF EarnedInv, ConfidenceIsEarned, Exists
  <2> QED
    BY <2>1, <2>2 DEF ConfidenceIsEarned, Exists
<1>9. \A q \in Packages : packages'[q] = None => feedstocks'[q] = {}
  BY <1>2, <1>6, NothingAssumption DEF EarnedInv, Exists
<1>10. ASSUME NEW s \in Resolvers
       PROVE  Earns(resolvers[s])'
  <2>1. CASE s = r
    <3>1. resolvers'[s].phase = "idle"
      BY <1>5, <2>1 DEF IInv, TypeOK, Idle
    <3> QED
      BY <3>1 DEF Earns
  <2>2. CASE s # r
    <3>1. PICK x : x = resolvers[s] /\ x = resolvers'[s]
      BY <1>5, <2>2 DEF IInv, TypeOK
    <3>2. CASE x.phase \in {"resolved", "recording"}
      <4>1. x.package # p
        BY <1>1, <1>3, <2>2, <3>1, <3>2 DEF OneAtATime
      <4>2. x.package \in Packages \ {p} /\ Earns(x)
        BY <3>1, <3>2, <4>1, AllInOrder DEF InOrder, EarnedInv
      <4> QED
        BY <1>2, <1>6, <3>1, <4>2 DEF Earns
    <3>3. CASE x.phase \notin {"resolved", "recording"}
      BY <3>1, <3>3 DEF Earns
    <3> QED
      BY <3>2, <3>3
  <2> QED
    BY <2>1, <2>2
<1> QED
  BY <1>8, <1>9, <1>10 DEF EarnedInv, Exists

\* As long as no two resolvers hold what they came to about one package, a
\* package is inventory-derived only while some mapping is established, and
\* unmapped never with feedstocks to its name, however the resolvers interleave
\* with people and with each other on other packages (record_resolution).
THEOREM ConfidenceEarned == Spec /\ []OneAtATime => []ConfidenceIsEarned
<1>1. IInv /\ EarnedInv /\ OneAtATime /\ [Next]_vars => EarnedInv'
  <2> SUFFICES ASSUME IInv, EarnedInv, OneAtATime, [Next]_vars PROVE EarnedInv'
    OBVIOUS
  <2>1. ASSUME NEW p \in Packages, ResolveShell(p) \/ OverrideIdentity(p) PROVE EarnedInv'
    BY <2>1, EarnedByPeople
  <2>2. ASSUME NEW r \in Resolvers, Cache(r) \/ Resolve(r) \/ ReadRow(r) \/ RecordResolution(r) \/ GiveUp(r)
        PROVE  EarnedInv'
    BY <2>2, EarnedAsking, EarnedRecording
  <2>3. CASE UNCHANGED vars
    BY <2>3 DEF vars, EarnedInv, Earns, ConfidenceIsEarned, Exists
  <2> QED
    BY <2>1, <2>2, <2>3 DEF Next
<1>2. EarnedInv => ConfidenceIsEarned
  BY DEF EarnedInv
<1> QED
  BY EarnedInit, Invariant, <1>1, <1>2, PTL DEF Spec

-----------------------------------------------------------------------------
(* The inventory *)

\* The entries left to retire exist and are not in the file.
RetiresTheUnnamed ==
    /\ importing.phase # "idle" => importing.document \in Documents
    /\ importing.phase = "applying" => importing.todo \subseteq NamedIn(importing.document)
    /\ importing.phase = "retiring" =>
           \A k \in importing.todo : importing.document[k] = NoEntry /\ inventory[k] # NoEntry

\* What an ingestion is done with says what its document said.
DoneIsSaid ==
    /\ ingestion.phase # "idle" => ingestion.document \in Documents
    /\ ingestion.phase = "observing" =>
           /\ ingestion.todo \subseteq NamedIn(ingestion.document)
           /\ \A k \in NamedIn(ingestion.document) \ ingestion.todo : newest[k] = "ok" \/ k \in ingestion.failed
    /\ ingestion.phase = "departing" =>
           /\ \A k \in ingestion.todo : ingestion.document[k] = NoEntry
           /\ \A k \in NamedIn(ingestion.document) : newest[k] = "ok" \/ k \in ingestion.failed
           /\ \A k \in Keys \ ingestion.todo : ingestion.document[k] = NoEntry => newest[k] # "ok"

InventoryInv == InventoryTypeOK /\ RetiresTheUnnamed /\ DoneIsSaid

Import == [phase : {"idle", "applying", "retiring"}, document : Documents \cup {NoEntry},
           replace : BOOLEAN, todo : SUBSET Keys]

Ingestion == [phase : {"idle", "observing", "departing"}, document : Documents \cup {NoEntry},
              observed : BOOLEAN, failed : SUBSET Keys, todo : SUBSET Keys]

USE NoEntryAssumption, BoundsAssumption

\* Nobody has decided anything.
LEMMA InitInventory == InventoryInit => InventoryInv
BY DEF InventoryInit, InventoryInv, InventoryTypeOK, RetiresTheUnnamed, DoneIsSaid, NoImport, NoIngestion

\* An entry that is given a name stays an entry.
LEMMA EntryWritten ==
    ASSUME InventoryInv, NEW k \in Keys, NEW entry \in Entry, inventory' = [inventory EXCEPT ![k] = entry]
    PROVE  /\ inventory' \in [Keys -> Entry \cup {NoEntry}]
           /\ \A other \in Keys : inventory[other] # NoEntry => inventory'[other] # NoEntry
BY DEF InventoryInv, InventoryTypeOK, Entry

\* What people decide.
LEMMA PeopleStep ==
    ASSUME InventoryInv, NEW k \in Keys, AddEntry(k) \/ ChangeEntry(k) \/ RetireEntry(k) \/ Rename(k)
    PROVE  InventoryInv'
<1> USE DEF InventoryInv, InventoryTypeOK
<1>1. changes' \in 0..MaxChanges
  BY DEF AddEntry, ChangeEntry, RetireEntry, Rename, Decide
<1>2. CASE AddEntry(k) \/ ChangeEntry(k)
  <2>1. PICK name \in EntryNames : inventory' = [inventory EXCEPT ![k] = [name |-> name, retired |-> FALSE]]
    BY <1>2 DEF AddEntry, ChangeEntry
  <2>2. [name |-> name, retired |-> FALSE] \in Entry
    BY DEF Entry
  <2>3. /\ inventory' \in [Keys -> Entry \cup {NoEntry}]
        /\ \A other \in Keys : inventory[other] # NoEntry => inventory'[other] # NoEntry
    BY <2>1, <2>2, EntryWritten
  <2>4. UNCHANGED <<importing, ingestion, shells, newest>>
    BY <1>2 DEF AddEntry, ChangeEntry
  <2>5. DoneIsSaid'
    BY <2>4 DEF DoneIsSaid
  <2> QED
    BY <1>1, <2>3, <2>4, <2>5 DEF RetiresTheUnnamed
<1>3. CASE RetireEntry(k)
  <2>1. [inventory[k] EXCEPT !.retired = TRUE] \in Entry
    <3>1. inventory[k] \in Entry
      BY <1>3 DEF RetireEntry, Active
    <3> HIDE DEF InventoryInv, InventoryTypeOK
    <3> QED
      BY <3>1 DEF Entry
  <2>2. /\ inventory' \in [Keys -> Entry \cup {NoEntry}]
        /\ \A other \in Keys : inventory[other] # NoEntry => inventory'[other] # NoEntry
    BY <1>3, <2>1, EntryWritten DEF RetireEntry
  <2> QED
    BY <1>1, <1>3, <2>2 DEF RetireEntry, RetiresTheUnnamed, DoneIsSaid
<1>4. CASE Rename(k)
  BY <1>1, <1>4 DEF Rename, RetiresTheUnnamed, DoneIsSaid
<1> QED
  BY <1>2, <1>3, <1>4

\* What an import does.
LEMMA FileStep ==
    ASSUME InventoryInv, BeginImport \/ ImportStep
    PROVE  InventoryInv'
<1> USE DEF InventoryInv, InventoryTypeOK
<1>1. CASE BeginImport
  <2>1. PICK document \in Documents, replace \in BOOLEAN :
            importing' = [phase |-> "applying", document |-> document, replace |-> replace,
                          todo |-> NamedIn(document)]
    BY <1>1 DEF BeginImport
  <2>2. changes' \in 0..MaxChanges
    BY <1>1 DEF BeginImport, Decide
  <2>3. NamedIn(document) \subseteq Keys
    BY DEF NamedIn
  <2> QED
    BY <1>1, <2>1, <2>2, <2>3 DEF BeginImport, RetiresTheUnnamed, DoneIsSaid
<1>2. CASE ListUnnamed
  <2>1. CASE importing.replace
    <3>1. importing' = [importing EXCEPT !.phase = "retiring", !.todo = Unnamed(importing.document)]
      BY <1>2, <2>1 DEF ListUnnamed
    <3>2. Unnamed(importing.document) \subseteq Keys
      BY DEF Unnamed
    <3>3. \A k \in Unnamed(importing.document) : importing.document[k] = NoEntry /\ inventory[k] # NoEntry
      BY DEF Unnamed, NamedIn, Active
    <3>4. importing.document \in Documents
      BY <1>2 DEF ListUnnamed, RetiresTheUnnamed
    <3>5. /\ importing' \in Import
          /\ importing'.phase = "retiring" /\ importing'.document = importing.document
          /\ importing'.todo = Unnamed(importing.document)
      BY <3>1, <3>2 DEF Import
    <3>6. RetiresTheUnnamed'
      BY <1>2, <3>3, <3>4, <3>5 DEF ListUnnamed, RetiresTheUnnamed
    <3> QED
      BY <1>2, <3>5, <3>6 DEF ListUnnamed, DoneIsSaid, Import
  <2>2. CASE ~importing.replace
    BY <1>2, <2>2 DEF ListUnnamed, NoImport, RetiresTheUnnamed, DoneIsSaid
  <2> QED
    BY <2>1, <2>2
<1>3. ASSUME NEW k \in Keys, ApplyRow(k) PROVE InventoryInv'
  <2>1. importing.document \in Documents /\ k \in NamedIn(importing.document)
    BY <1>3 DEF ApplyRow, RetiresTheUnnamed
  <2>2. [name |-> importing.document[k], retired |-> FALSE] \in Entry
    BY <2>1 DEF Documents, NamedIn, Entry
  <2>3. inventory' \in [Keys -> Entry \cup {NoEntry}]
    BY <1>3, <2>2, EntryWritten DEF ApplyRow
  <2> QED
    BY <1>3, <2>3 DEF ApplyRow, RetiresTheUnnamed, DoneIsSaid
<1>4. ASSUME NEW k \in Keys, RetireUnnamed(k) PROVE InventoryInv'
  <2>1. inventory[k] \in Entry
    BY <1>4 DEF RetireUnnamed, RetiresTheUnnamed
  <2>2. [inventory[k] EXCEPT !.retired = TRUE] \in Entry
    BY <2>1 DEF Entry
  <2>3. /\ inventory' \in [Keys -> Entry \cup {NoEntry}]
        /\ \A other \in Keys : inventory[other] # NoEntry => inventory'[other] # NoEntry
    BY <1>4, <2>2, EntryWritten DEF RetireUnnamed
  <2> QED
    BY <1>4, <2>3 DEF RetireUnnamed, RetiresTheUnnamed, DoneIsSaid
<1>5. ASSUME NEW k \in Keys, RefuseRow(k) PROVE InventoryInv'
  BY <1>5 DEF RefuseRow, NoImport, RetiresTheUnnamed, DoneIsSaid
<1>6. CASE EndImport
  BY <1>6 DEF EndImport, NoImport, RetiresTheUnnamed, DoneIsSaid
<1> QED
  BY <1>1, <1>2, <1>3, <1>4, <1>5, <1>6 DEF ImportStep

\* What an ingestion does.
LEMMA DocumentStep ==
    ASSUME InventoryInv, IngestionStep \/ Die
    PROVE  InventoryInv'
<1> USE DEF InventoryInv, InventoryTypeOK
<1>1. CASE BeginIngestion
  <2>1. NamedIn(ActiveRecords) \subseteq Keys
    BY DEF NamedIn
  <2> QED
    BY <1>1, <2>1 DEF BeginIngestion, RetiresTheUnnamed, DoneIsSaid
<1>2. CASE ListDeparted
  <2>1. CASE ingestion.observed
    <3>1. ingestion' = [ingestion EXCEPT !.phase = "departing", !.todo = Departed]
      BY <1>2, <2>1 DEF ListDeparted
    <3>2. Departed \subseteq Keys
      BY DEF Departed
    <3>3. /\ ingestion'.phase = "departing" /\ ingestion'.todo = Departed /\ ingestion'.document = ingestion.document
          /\ ingestion'.failed = ingestion.failed
      BY <3>1
    <3>4. ingestion' \in Ingestion
      BY <3>1, <3>2 DEF Ingestion
    <3>5. DoneIsSaid'
      BY <1>2, <3>3 DEF ListDeparted, DoneIsSaid, Departed, NamedIn
    <3> QED
      BY <1>2, <3>4, <3>5 DEF ListDeparted, RetiresTheUnnamed, Ingestion
  <2>2. CASE ~ingestion.observed
    BY <1>2, <2>2 DEF ListDeparted, NoIngestion, RetiresTheUnnamed, DoneIsSaid
  <2> QED
    BY <2>1, <2>2
<1>3. ASSUME NEW k \in Keys, Observe(k) PROVE InventoryInv'
  <2>1. ingestion.document \in Documents /\ k \in NamedIn(ingestion.document)
    BY <1>3 DEF Observe, DoneIsSaid
  <2>2. ingestion.document[k] \in EntryNames
    BY <2>1 DEF Documents, NamedIn
  <2>3. shells' \in [Keys -> EntryNames \cup {NoEntry}] /\ newest' \in [Keys -> {"none", "ok", "not_found"}]
    BY <1>3, <2>2 DEF Observe
  <2>4. \A other \in Keys \ {k} : shells'[other] = shells[other] /\ newest'[other] = newest[other]
    BY <1>3 DEF Observe
  <2>5. newest'[k] = "ok"
    BY <1>3 DEF Observe
  <2>6. /\ ingestion' \in Ingestion
        /\ ingestion'.phase = "observing" /\ ingestion'.document = ingestion.document
        /\ ingestion'.todo = ingestion.todo \ {k} /\ ingestion'.failed = ingestion.failed
    BY <1>3 DEF Observe, Ingestion
  <2>7. DoneIsSaid'
    BY <1>3, <2>4, <2>5, <2>6 DEF Observe, DoneIsSaid, NamedIn
  <2> QED
    BY <1>3, <2>3, <2>6, <2>7 DEF Observe, RetiresTheUnnamed, Ingestion
<1>4. ASSUME NEW k \in Keys, Fail(k) PROVE InventoryInv'
  <2>1. changes' \in 0..MaxChanges
    BY <1>4 DEF Fail, Decide
  <2>2. /\ ingestion' \in Ingestion
        /\ ingestion'.phase = "observing" /\ ingestion'.document = ingestion.document
        /\ ingestion'.todo = ingestion.todo \ {k} /\ ingestion'.failed = ingestion.failed \cup {k}
    BY <1>4 DEF Fail, Ingestion
  <2> QED
    BY <1>4, <2>1, <2>2 DEF Fail, RetiresTheUnnamed, DoneIsSaid, Ingestion
<1>5. ASSUME NEW k \in Keys, ObserveAbsence(k) PROVE InventoryInv'
  <2>1. k \notin NamedIn(ingestion.document)
    BY <1>5 DEF ObserveAbsence, DoneIsSaid, NamedIn
  <2>2. \A other \in Keys : newest'[other] = IF other = k THEN "not_found" ELSE newest[other]
    BY <1>5 DEF ObserveAbsence
  <2> QED
    BY <1>5, <2>1, <2>2 DEF ObserveAbsence, RetiresTheUnnamed, DoneIsSaid
<1>6. CASE EndIngestion \/ Die
  <2>1. ingestion' = NoIngestion /\ UNCHANGED <<inventory, importing, shells, newest>>
    BY <1>6 DEF EndIngestion, Die
  <2>2. changes' \in 0..MaxChanges
    BY <1>6 DEF EndIngestion, Die, Decide
  <2> QED
    BY <2>1, <2>2 DEF NoIngestion, RetiresTheUnnamed, DoneIsSaid
<1> QED
  BY <1>1, <1>2, <1>3, <1>4, <1>5, <1>6 DEF IngestionStep

\* Every step keeps the invariant.
LEMMA NextInventory == InventoryInv /\ [InventoryNext]_inventoryVars => InventoryInv'
<1>1. InventoryInv /\ InventoryNext => InventoryInv'
  BY PeopleStep, FileStep, DocumentStep DEF InventoryNext
<1>2. InventoryInv /\ UNCHANGED inventoryVars => InventoryInv'
  BY DEF inventoryVars, InventoryInv, InventoryTypeOK, RetiresTheUnnamed, DoneIsSaid, NamedIn
<1> QED
  BY <1>1, <1>2

\* Entries, shells, documents and rows are always of their kind
\* (collectors/inventory.py, collectors/tasks.py).
THEOREM InventoryTypeCorrect == InventorySpec => []InventoryTypeOK
<1>1. InventoryInv => InventoryTypeOK
  BY DEF InventoryInv
<1> QED
  BY InitInventory, NextInventory, <1>1, PTL DEF InventorySpec

\* No step of an import brings back what a person retired, nor retires what its
\* file names, whatever people do to the entries between its transactions
\* (import_watchlist, _retire_unnamed).
THEOREM FilesRespectRetirement == InventorySpec => FileRespectsRetirement
<1>1. ASSUME InventoryInv, [InventoryNext]_inventoryVars, importing' # importing, NEW k \in Keys
      PROVE  /\ (inventory[k] # NoEntry /\ inventory[k].retired) => inventory'[k] = inventory[k]
             /\ (Active(k) /\ inventory'[k].retired) => importing.document[k] = NoEntry
  <2>1. BeginImport \/ ImportStep
    BY <1>1 DEF InventoryNext, inventoryVars, IngestionStep, BeginIngestion, ListDeparted, EndIngestion, Observe, Fail,
                ObserveAbsence, Die, AddEntry, ChangeEntry, RetireEntry, Rename
  <2>2. CASE BeginImport \/ ListUnnamed \/ EndImport \/ \E other \in Keys : RefuseRow(other)
    BY <2>2 DEF BeginImport, ListUnnamed, EndImport, RefuseRow, Active
  <2>3. ASSUME NEW other \in Keys, ApplyRow(other)
        PROVE  /\ (inventory[k] # NoEntry /\ inventory[k].retired) => inventory'[k] = inventory[k]
               /\ ~(Active(k) /\ inventory'[k].retired)
    BY <1>1, <2>3 DEF ApplyRow, KeptRetired, Active, InventoryInv, InventoryTypeOK
  <2>4. ASSUME NEW other \in Keys, RetireUnnamed(other)
        PROVE  /\ (inventory[k] # NoEntry /\ inventory[k].retired) => inventory'[k] = inventory[k]
               /\ (Active(k) /\ inventory'[k].retired) => importing.document[k] = NoEntry
    <3>1. importing.document[other] = NoEntry
      BY <1>1, <2>4 DEF RetireUnnamed, InventoryInv, RetiresTheUnnamed
    <3>2. \A entry \in Entry : entry.retired => [entry EXCEPT !.retired = TRUE] = entry
      BY DEF Entry
    <3>3. inventory[k] # NoEntry => inventory[k] \in Entry
      BY <1>1 DEF InventoryInv, InventoryTypeOK
    <3> QED
      BY <1>1, <2>4, <3>1, <3>2, <3>3 DEF RetireUnnamed, Active, InventoryInv, InventoryTypeOK
  <2> QED
    BY <2>1, <2>2, <2>3, <2>4 DEF ImportStep
<1>2. InventoryInv /\ [InventoryNext]_inventoryVars => [importing' # importing =>
          \A k \in Keys :
              /\ (inventory[k] # NoEntry /\ inventory[k].retired) => inventory'[k] = inventory[k]
              /\ (Active(k) /\ inventory'[k].retired) => importing.document[k] = NoEntry]_inventoryVars
  BY <1>1
<1> QED
  BY InitInventory, NextInventory, <1>2, PTL DEF InventorySpec, FileRespectsRetirement

\* An ingestion that ends leaves the newest row of every package saying what
\* its document said, except of those it names as failures, and calls nothing
\* gone that its document names, whatever people rename and retire meanwhile
\* (persist_sweep).
THEOREM RowsFollowTheDocument == InventorySpec => RowsSayWhatTheDocumentSaid
<1>1. ASSUME InventoryInv, EndIngestion, NEW k \in Keys
      PROVE  IF ingestion.document[k] = NoEntry THEN newest[k] # "ok"
             ELSE newest[k] = "ok" \/ k \in ingestion.failed
  BY <1>1 DEF EndIngestion, InventoryInv, DoneIsSaid, NamedIn
<1>2. ASSUME InventoryInv, [InventoryNext]_inventoryVars, NEW k \in Keys, newest'[k] = "not_found", newest[k] # "not_found"
      PROVE  ingestion.document[k] = NoEntry
  <2>1. newest' # newest
    BY <1>2
  <2>2. PICK other \in Keys : Observe(other) \/ ObserveAbsence(other)
    BY <1>2, <2>1 DEF InventoryNext, inventoryVars, IngestionStep, ImportStep, BeginIngestion, ListDeparted, EndIngestion, Fail,
                      Die, AddEntry, ChangeEntry, RetireEntry, Rename, BeginImport, ListUnnamed, EndImport, ApplyRow,
                      RefuseRow, RetireUnnamed
  <2>3. ObserveAbsence(other) /\ other = k
    BY <1>2, <2>2 DEF Observe, ObserveAbsence, InventoryInv, InventoryTypeOK
  <2> QED
    BY <1>2, <2>3 DEF ObserveAbsence, InventoryInv, DoneIsSaid
<1>3. InventoryInv /\ [InventoryNext]_inventoryVars =>
          [/\ EndIngestion =>
                  \A k \in Keys : IF ingestion.document[k] = NoEntry THEN newest[k] # "ok"
                                  ELSE newest[k] = "ok" \/ k \in ingestion.failed
           /\ \A k \in Keys : newest'[k] = "not_found" => (newest[k] = "not_found" \/ ingestion.document[k] = NoEntry)
          ]_inventoryVars
  BY <1>1, <1>2
<1> QED
  BY InitInventory, NextInventory, <1>3, PTL DEF InventorySpec, RowsSayWhatTheDocumentSaid
=============================================================================
