------------------------ MODULE ConsumerUpdateProofs ------------------------
(***************************************************************************)
(* Theorems about ConsumerUpdate, for every set of releases, checkouts and *)
(* requests.  What is printed is what ReleaseManifestProofs says.          *)
(***************************************************************************)
EXTENDS ConsumerUpdate, ReleaseManifestProofs

SpecFile == [gover : Tags, release : Releases]

Asking ==
  /\ asked \in Seq(Request \cup {Nil}) /\ fetched \in Seq(Source \cup {Nil})
  /\ Len(fetched) <= Len(asked) /\ at \in 1..(Len(asked) + 1)
  /\ \A i \in DOMAIN fetched : asked[i] \in Request
  /\ upc = "fetch" => at = 1
  /\ upc \in {"spec", "cargo"} => Len(fetched) = Len(asked)
Files ==
  /\ spec \in [Packages -> SpecFile \cup {Nil}]
  /\ cargo \in [Packages -> Source \cup {Nil}]

Superseded(i) == \E j \in DOMAIN asked : i < j /\ j <= at /\ Package(j) = Package(i)

(* The package of i is what its manifest and its request say. *)
SpecDone(i) == fetched[i] \in Source /\ spec[Package(i)] = SpecFor(asked[i].patch, fetched[i])
Past ==
  /\ \A i \in DOMAIN asked : i < at => i <= Len(fetched)
  /\ \A i \in DOMAIN asked : i < at /\ ~Superseded(i) => SpecDone(i) /\ cargo[Package(i)] = fetched[i]
  /\ upc = "cargo" => at \in DOMAIN asked /\ SpecDone(at)

(* With Kubernetes among the components every manifest has its source. *)
Sources == "kubernetes" \in Components =>
             (\A i \in DOMAIN fetched : fetched[i] # Nil) /\ outcome # "panic"

UpdateInv == Inv /\ Asking /\ Files /\ Past /\ Sources

LEMMA PackageOf == ASSUME NEW i, asked[i] \in Request
                   PROVE  Package(i) \in Packages /\ asked[i].patch \in Tags /\ asked[i].release \in Releases
<1>1. asked[i] \in Request
  OBVIOUS
<1>2. asked[i].patch \in Tags /\ asked[i].release \in Releases
  BY <1>1 DEF Request
<1> QED BY <1>2 DEF Package, Packages

LEMMA SpecForTyped ==
  ASSUME NEW t \in Tags, NEW s \in Source
  PROVE  /\ SpecFor(t, s) \in SpecFile /\ SpecFor(t, s) # Nil
         /\ SpecUri(SpecFor(t, s)) = s.uri <=> t = s.uri[2]
<1>1. s.uri \in Releases \X Tags
  BY DEF Source
<1>2. SpecFor(t, s) = [gover |-> t, release |-> s.uri[1]]
  BY DEF SpecFor
<1>3. SpecFor(t, s) \in SpecFile
  BY <1>1, <1>2 DEF SpecFile
<1>4. s.uri = <<s.uri[1], s.uri[2]>>
  BY <1>1
<1>5. SpecUri(SpecFor(t, s)) = <<s.uri[1], t>>
  BY <1>2 DEF SpecUri
<1>6. <<s.uri[1], t>> = <<s.uri[1], s.uri[2]>> <=> t = s.uri[2]
  OBVIOUS
<1>7. SpecFor(t, s) # Nil
  BY <1>3, SourceAssumption DEF SpecFile
<1> QED BY <1>3, <1>4, <1>5, <1>6, <1>7

(* A manifest's source is an archive with its tag and its sum. *)
LEMMA SourceTyped ==
  ASSUME Inv, NEW x \in Releases, published[x] # Nil
  PROVE  /\ SourceArchive(x, published[x]) \in Source \cup {Nil}
         /\ "kubernetes" \in Components => SourceArchive(x, published[x]) # Nil
<1> DEFINE m == published[x]
<1>1. Listed(m)
  BY DEF Inv, Printed
<1>2. "kubernetes" \in Components => \E a \in m["kubernetes"] : a.name = KubernetesSource
  <2> SUFFICES ASSUME "kubernetes" \in Components PROVE \E a \in m["kubernetes"] : a.name = KubernetesSource
    OBVIOUS
  <2>1. PICK f : f = KFile(checkout, KubernetesSource, "", {})
    OBVIOUS
  <2>2. f.name = KubernetesSource
    BY <2>1 DEF KFile, Archive
  <2>3. f \in Required("kubernetes", checkout)
    BY <2>1, Kinds DEF Required
  <2> QED BY <1>1, <2>2, <2>3 DEF Listed
<1>3. CASE "kubernetes" \notin Components
  BY <1>3 DEF SourceArchive
<1>4. CASE "kubernetes" \in Components
  <2> DEFINE a == CHOOSE a \in m["kubernetes"] : a.name = KubernetesSource
  <2>1. a \in m["kubernetes"] /\ a.name = KubernetesSource
    BY <1>2, <1>4
  <2>2. SourceArchive(x, m) = [uri |-> <<x, a.tag>>, sum |-> a.sum]
    BY <1>2, <1>4 DEF SourceArchive
  <2> HIDE DEF a, m
  <2>3. Sound(a)
    BY <1>1, <1>4, <2>1 DEF Listed
  <2>4. a.tag \in Tags /\ a.sum \in Nat
    BY <2>1, <2>3 DEF Sound
  <2>5. SourceArchive(x, m) \in Source
    BY <2>2, <2>4 DEF Source
  <2> QED BY <2>5, SourceAssumption DEF m
<1> QED BY <1>3, <1>4

LEMMA InitUpdate == Init => UpdateInv
<1> SUFFICES ASSUME Init PROVE UpdateInv
  OBVIOUS
<1>1. Inv
  BY InitInv DEF Init
<1>2. Asking
  BY DEF Init, Asking
<1>3. Files
  <2>1. \A p \in Packages : SpecFor(Shipped[p].uri[2], Shipped[p]) \in SpecFile /\ Shipped[p] \in Source
    <3> SUFFICES ASSUME NEW p \in Packages
                 PROVE  SpecFor(Shipped[p].uri[2], Shipped[p]) \in SpecFile /\ Shipped[p] \in Source
      OBVIOUS
    <3>1. Shipped[p] \in Source
      BY ShippedAssumption
    <3>2. Shipped[p].uri[2] \in Tags
      BY <3>1 DEF Source
    <3> QED BY <3>1, <3>2, SpecForTyped
  <2> QED BY <2>1 DEF Init, Files, Broken
<1>4. Past /\ Sources
  BY DEF Init, Past, Sources
<1> QED BY <1>1, <1>2, <1>3, <1>4 DEF UpdateInv

LEMMA ToolKeeps ==
  ASSUME UpdateInv, [NextManifest]_manifestVars, UNCHANGED updateVars
  PROVE  UpdateInv'
<1>1. Inv'
  BY NextInv DEF UpdateInv
<1>2. UNCHANGED <<upc, asked, fetched, at, outcome, spec, cargo>>
  BY DEF updateVars, files
<1>3. Asking' /\ Files' /\ Sources'
  BY <1>2 DEF UpdateInv, Asking, Files, Sources, Packages, SpecFile, Source, Request
<1>4. Past'
  BY <1>2 DEF UpdateInv, Past, SpecDone, Superseded, Package
<1> QED BY <1>1, <1>3, <1>4 DEF UpdateInv

LEMMA InvokeKeeps ==
  ASSUME UpdateInv, NEW q \in Requests, Invoke(q)
  PROVE  UpdateInv'
<1>1. /\ asked' = q /\ fetched' = <<>> /\ at' = 1 /\ upc' = "fetch" /\ outcome' = "none"
      /\ UNCHANGED <<manifestVars, spec, cargo>>
  BY DEF Invoke, files
<1>2. Inv'
  BY <1>1, NextInv DEF UpdateInv
<1>3. q \in Seq(Request \cup {Nil})
  BY RequestsAssumption DEF Garbled
<1>4. Asking'
  BY <1>1, <1>3 DEF Asking
<1>5. Files' /\ Sources'
  BY <1>1 DEF UpdateInv, Files, Sources
<1>6. Past'
  BY <1>1, <1>3 DEF Past
<1> QED BY <1>2, <1>4, <1>5, <1>6 DEF UpdateInv

LEMMA FetchKeeps ==
  ASSUME UpdateInv, Fetch
  PROVE  UpdateInv'
<1>1. upc = "fetch" /\ UNCHANGED <<manifestVars, asked, at, spec, cargo>>
  BY DEF Fetch, files
<1>2. Inv' /\ Files'
  BY <1>1, NextInv DEF UpdateInv, Files
<1>3. at = 1 /\ at' = 1 /\ asked \in Seq(Request \cup {Nil}) /\ fetched \in Seq(Source \cup {Nil})
      /\ Len(fetched) <= Len(asked)
  BY <1>1 DEF UpdateInv, Asking
<1>4. IF Len(fetched) = Len(asked)
      THEN upc' = "spec" /\ UNCHANGED <<fetched, outcome>>
      ELSE \/ (End("error") \/ End("out of range")) /\ UNCHANGED fetched
           \/ /\ asked[Len(fetched) + 1] # Nil
              /\ published[asked[Len(fetched) + 1].release] # Nil
              /\ fetched' = Append(fetched, SourceArchive(asked[Len(fetched) + 1].release,
                                                          published[asked[Len(fetched) + 1].release]))
              /\ UNCHANGED <<upc, outcome>>
  BY Zenon DEF Fetch, Garbled
<1>5. upc' # "cargo" => Past'
  BY <1>1, <1>3 DEF Past
<1>6. CASE Len(fetched) = Len(asked)
  <2>1. upc' = "spec" /\ UNCHANGED <<fetched, outcome>>
    BY <1>6 DEF Fetch
  <2>2. Asking' /\ Sources'
    BY <1>1, <1>3, <1>6, <2>1 DEF UpdateInv, Asking, Sources
  <2> QED BY <1>2, <1>5, <2>1, <2>2 DEF UpdateInv
<1>7. CASE Len(fetched) # Len(asked) /\ (End("error") \/ End("out of range")) /\ UNCHANGED fetched
  <2>1. upc' = "ended" /\ outcome' \in {"error", "out of range"}
    BY <1>7 DEF End
  <2>2. Asking' /\ Sources'
    BY <1>1, <1>3, <1>7, <2>1 DEF UpdateInv, Asking, Sources
  <2> QED BY <1>2, <1>5, <2>1, <2>2 DEF UpdateInv
<1>8. CASE /\ Len(fetched) # Len(asked)
           /\ asked[Len(fetched) + 1] # Nil
           /\ published[asked[Len(fetched) + 1].release] # Nil
           /\ fetched' = Append(fetched, SourceArchive(asked[Len(fetched) + 1].release,
                                                       published[asked[Len(fetched) + 1].release]))
           /\ UNCHANGED <<upc, outcome>>
  <2> DEFINE x == asked[Len(fetched) + 1].release
             s == SourceArchive(x, published[x])
  <2>1. Len(fetched) + 1 \in DOMAIN asked /\ asked[Len(fetched) + 1] \in Request
    BY <1>3, <1>8
  <2>2. x \in Releases
    BY <1>3, <2>1, PackageOf
  <2>3. s \in Source \cup {Nil} /\ ("kubernetes" \in Components => s # Nil)
    BY <1>8, <2>2, SourceTyped DEF UpdateInv
  <2>4. fetched' = Append(fetched, s)
    BY <1>8
  <2> HIDE DEF s
  <2>5. fetched' \in Seq(Source \cup {Nil}) /\ Len(fetched') = Len(fetched) + 1
        /\ \A i \in DOMAIN fetched' : fetched'[i] = s \/ (i \in DOMAIN fetched /\ fetched'[i] = fetched[i])
    BY <1>3, <2>3, <2>4
  <2>6. Asking'
    <3>1. \A i \in DOMAIN fetched' : i \in DOMAIN fetched \/ i = Len(fetched) + 1
      BY <1>3, <2>5
    <3>2. \A i \in DOMAIN fetched' : asked'[i] \in Request
      BY <1>1, <2>1, <3>1 DEF UpdateInv, Asking
    <3> HIDE DEF x
    <3>3. /\ asked' \in Seq(Request \cup {Nil}) /\ fetched' \in Seq(Source \cup {Nil})
          /\ Len(fetched') <= Len(asked') /\ at' \in 1..(Len(asked') + 1)
      BY <1>1, <1>3, <2>1, <2>5
    <3>4. at' = 1 /\ upc' = "fetch"
      BY <1>1, <1>3, <1>8
    <3> QED BY <3>2, <3>3, <3>4 DEF Asking
  <2>7. Sources'
    BY <1>8, <2>3, <2>5 DEF UpdateInv, Sources
  <2> QED BY <1>1, <1>2, <1>5, <1>8, <2>6, <2>7 DEF UpdateInv
<1> QED BY <1>4, <1>6, <1>7, <1>8

(* However a run ends, the file it was at may be left without its lines: the    *)
(* packages it is past are others, or their later release is the one it was at. *)
Spoils(file, after) ==
  after = file \/ (at \in DOMAIN asked /\ after = [file EXCEPT ![Package(at)] = Nil])

LEMMA Others ==
  ASSUME Past, Asking, NEW i \in DOMAIN asked, i < at, ~Superseded(i), at \in DOMAIN asked
  PROVE  Package(i) # Package(at)
BY DEF Superseded, Asking

LEMMA EndKeeps ==
  ASSUME UpdateInv, UNCHANGED <<manifestVars, asked, fetched, at>>, NEW how, End(how),
         how = "panic" => "kubernetes" \notin Components,
         Spoils(spec, spec'), Spoils(cargo, cargo')
  PROVE  UpdateInv'
<1>1. upc' = "ended" /\ outcome' = how
  BY DEF End
<1>2. Inv' /\ Asking' /\ Sources'
  BY <1>1, NextInv DEF UpdateInv, Asking, Sources
<1>3. Files /\ Past /\ Asking
  BY DEF UpdateInv
<1>4. Files'
  BY <1>3 DEF Files, Spoils
<1>5. ASSUME NEW i \in DOMAIN asked, i < at, ~Superseded(i)
      PROVE  SpecDone(i) /\ cargo[Package(i)] = fetched[i]
             /\ spec'[Package(i)] = spec[Package(i)] /\ cargo'[Package(i)] = cargo[Package(i)]
  <2>1. SpecDone(i) /\ cargo[Package(i)] = fetched[i]
    BY <1>3, <1>5 DEF Past
  <2>2. Package(i) \in Packages
    <3>1. i \in DOMAIN fetched
      BY <1>3, <1>5 DEF Past, Asking
    <3> QED BY <1>3, <3>1, PackageOf DEF Asking
  <2>3. at \in DOMAIN asked => Package(i) # Package(at)
    BY <1>3, <1>5, Others
  <2>4. spec \in [Packages -> SpecFile \cup {Nil}] /\ cargo \in [Packages -> Source \cup {Nil}]
    BY <1>3 DEF Files
  <2> HIDE DEF SpecFile, Source
  <2>5. spec'[Package(i)] = spec[Package(i)] /\ cargo'[Package(i)] = cargo[Package(i)]
    BY <2>2, <2>3, <2>4 DEF Spoils
  <2> QED BY <2>1, <2>5
<1>6. Past'
  <2>1. \A i \in DOMAIN asked' : Package(i)' = Package(i) /\ (Superseded(i)' <=> Superseded(i))
    BY DEF Package, Superseded
  <2>2. ASSUME NEW i \in DOMAIN asked', (i < at)', ~Superseded(i)'
        PROVE  SpecDone(i)' /\ (cargo[Package(i)] = fetched[i])'
    BY <1>5, <2>1, <2>2 DEF SpecDone, SpecFor, Source
  <2>3. \A i \in DOMAIN asked' : (i < at)' => (i <= Len(fetched))'
    BY <1>3 DEF Past
  <2> QED BY <1>1, <2>2, <2>3 DEF Past
<1> QED BY <1>2, <1>4, <1>6 DEF UpdateInv

LEMMA KillKeeps ==
  ASSUME UpdateInv, Kill
  PROVE  UpdateInv'
<1>1. /\ End("killed") /\ UNCHANGED <<manifestVars, asked, fetched, at>>
      /\ upc \in {"fetch", "spec", "cargo"}
      /\ \/ UNCHANGED <<spec, cargo>>
         \/ /\ upc = "spec" /\ at <= Len(asked)
            /\ spec' = [spec EXCEPT ![Package(at)] = Nil] /\ UNCHANGED cargo
         \/ /\ upc = "cargo"
            /\ cargo' = [cargo EXCEPT ![Package(at)] = Nil] /\ UNCHANGED spec
  BY DEF Kill, files, Broken
<1>2. upc = "cargo" => at \in DOMAIN asked
  BY DEF UpdateInv, Past
<1>3. at <= Len(asked) => at \in DOMAIN asked
  BY DEF UpdateInv, Asking
<1>4. Spoils(spec, spec') /\ Spoils(cargo, cargo')
  BY <1>1, <1>2, <1>3 DEF Spoils
<1> QED BY <1>1, <1>4, EndKeeps

LEMMA UpdateSpecKeeps ==
  ASSUME UpdateInv, UpdateSpec
  PROVE  UpdateInv'
<1>1. upc = "spec" /\ UNCHANGED <<manifestVars, asked, fetched, at, cargo>>
  BY DEF UpdateSpec
<1>2. Asking /\ Files /\ Past /\ Sources /\ Inv
  BY DEF UpdateInv
<1>3. asked \in Seq(Request \cup {Nil}) /\ fetched \in Seq(Source \cup {Nil}) /\ Len(fetched) = Len(asked)
      /\ at \in 1..(Len(asked) + 1)
  BY <1>1, <1>2 DEF Asking
<1>4. at <= Len(asked) => at \in DOMAIN asked /\ at \in DOMAIN fetched
  BY <1>3
<1>5. ASSUME NEW how, End(how), how = "panic" => "kubernetes" \notin Components, Spoils(spec, spec')
      PROVE  UpdateInv'
  <2>1. Spoils(cargo, cargo')
    BY <1>1 DEF Spoils
  <2> QED BY <1>1, <1>5, <2>1, EndKeeps
<1>6. CASE at > Len(asked)
  <2>1. End("ok") /\ UNCHANGED spec
    BY <1>6 DEF UpdateSpec
  <2> QED BY <1>5, <2>1 DEF Spoils
<1>7. CASE at <= Len(asked) /\ End("error") /\ (UNCHANGED spec \/ spec' = [spec EXCEPT ![Package(at)] = Nil])
  BY <1>4, <1>5, <1>7 DEF Spoils
<1>8. CASE at <= Len(asked) /\ fetched[at] = Nil /\ End("panic") /\ UNCHANGED spec
  <2>1. "kubernetes" \notin Components
    BY <1>2, <1>4, <1>8 DEF Sources
  <2> QED BY <1>5, <1>8, <2>1 DEF Spoils
<1>9. CASE /\ at <= Len(asked) /\ fetched[at] # Nil
           /\ spec' = [spec EXCEPT ![Package(at)] = SpecFor(asked[at].patch, fetched[at])]
           /\ upc' = "cargo" /\ UNCHANGED outcome
  <2>1. at \in DOMAIN asked /\ fetched[at] \in Source
    BY <1>3, <1>4, <1>9
  <2>2. Package(at) \in Packages /\ asked[at].patch \in Tags
    <3>1. asked[at] \in Request
      BY <1>2, <1>4, <1>9 DEF Asking
    <3> QED BY <3>1, PackageOf
  <2>3. PICK s : s = SpecFor(asked[at].patch, fetched[at])
    OBVIOUS
  <2>4. s \in SpecFile
    BY <2>1, <2>2, <2>3, SpecForTyped
  <2>5. spec \in [Packages -> SpecFile \cup {Nil}] /\ spec' = [spec EXCEPT ![Package(at)] = s]
    BY <1>2, <1>9, <2>3 DEF Files
  <2>6. Inv' /\ Asking' /\ Sources'
    BY <1>1, <1>2, <1>3, <1>9, NextInv DEF Asking, Sources
  <2>7. Files'
    <3>1. spec' \in [Packages -> SpecFile \cup {Nil}]
      BY <2>2, <2>4, <2>5
    <3> QED BY <1>1, <1>2, <3>1 DEF Files
  <2>8. ASSUME NEW i \in DOMAIN asked, i < at, ~Superseded(i)
        PROVE  fetched[i] \in Source /\ cargo[Package(i)] = fetched[i]
               /\ spec'[Package(i)] = SpecFor(asked[i].patch, fetched[i])
    <3>1. SpecDone(i) /\ cargo[Package(i)] = fetched[i]
      BY <1>2, <2>8 DEF Past
    <3>2. Package(i) \in Packages /\ Package(i) # Package(at)
      <4>1. asked[i] \in Request
        BY <1>2, <1>3, <2>8 DEF Asking
      <4> QED BY <1>2, <2>1, <2>8, <4>1, PackageOf, Others
    <3>3. spec'[Package(i)] = spec[Package(i)]
      BY <2>5, <3>2
    <3> QED BY <3>1, <3>3 DEF SpecDone
  <2>9. spec'[Package(at)] = SpecFor(asked[at].patch, fetched[at])
    BY <2>2, <2>3, <2>5
  <2>10. Past'
    <3>1. \A i \in DOMAIN asked' : Package(i)' = Package(i) /\ (Superseded(i)' <=> Superseded(i))
      BY <1>1 DEF Package, Superseded
    <3>2. ASSUME NEW i \in DOMAIN asked', (i < at)', ~Superseded(i)'
          PROVE  SpecDone(i)' /\ (cargo[Package(i)] = fetched[i])'
      BY <1>1, <2>8, <3>1, <3>2 DEF SpecDone, SpecFor, Source
    <3>3. \A i \in DOMAIN asked' : (i < at)' => (i <= Len(fetched))'
      BY <1>1, <1>2 DEF Past
    <3>4. (at \in DOMAIN asked)' /\ SpecDone(at)'
      BY <1>1, <2>1, <2>9, <3>1 DEF SpecDone, SpecFor, Source
    <3> QED BY <3>2, <3>3, <3>4 DEF Past
  <2> QED BY <2>6, <2>7, <2>10 DEF UpdateInv
<1>10. at > Len(asked) \/ at <= Len(asked)
  BY <1>3
<1>11. at <= Len(asked) =>
         \/ End("error") /\ (UNCHANGED spec \/ spec' = [spec EXCEPT ![Package(at)] = Nil])
         \/ fetched[at] = Nil /\ End("panic") /\ UNCHANGED spec
         \/ /\ fetched[at] # Nil /\ upc' = "cargo" /\ UNCHANGED outcome
            /\ spec' = [spec EXCEPT ![Package(at)] = SpecFor(asked[at].patch, fetched[at])]
  BY <1>3 DEF UpdateSpec, Broken
<1> QED BY <1>6, <1>7, <1>8, <1>9, <1>10, <1>11

LEMMA UpdateCargoKeeps ==
  ASSUME UpdateInv, UpdateCargo
  PROVE  UpdateInv'
<1>1. upc = "cargo" /\ UNCHANGED <<manifestVars, asked, fetched, spec>>
  BY DEF UpdateCargo
<1>2. Asking /\ Files /\ Past /\ Sources /\ Inv
  BY DEF UpdateInv
<1>3. asked \in Seq(Request \cup {Nil}) /\ fetched \in Seq(Source \cup {Nil}) /\ Len(fetched) = Len(asked)
      /\ at \in DOMAIN asked /\ SpecDone(at)
  BY <1>1, <1>2 DEF Asking, Past
<1> \A i \in DOMAIN asked : asked[i] \in Request
  BY <1>2, <1>3 DEF Asking
<1>4. CASE End("error") /\ UNCHANGED at /\ (UNCHANGED cargo \/ cargo' = [cargo EXCEPT ![Package(at)] = Nil])
  <2>1. Spoils(spec, spec') /\ Spoils(cargo, cargo')
    BY <1>1, <1>3, <1>4 DEF Spoils
  <2> QED BY <1>1, <1>4, <2>1, EndKeeps
<1>5. CASE /\ cargo' = [cargo EXCEPT ![Package(at)] = fetched[at]]
           /\ at' = at + 1 /\ upc' = "spec" /\ UNCHANGED outcome
  <2>1. fetched[at] \in Source /\ Package(at) \in Packages
    BY <1>3, PackageOf DEF SpecDone
  <2>2. cargo \in [Packages -> Source \cup {Nil}]
    BY <1>2 DEF Files
  <2> HIDE DEF Source
  <2>3. cargo' \in [Packages -> Source \cup {Nil}] /\ cargo'[Package(at)] = fetched[at]
        /\ \A p \in Packages : p # Package(at) => cargo'[p] = cargo[p]
    BY <1>5, <2>1, <2>2
  <2>4. Asking'
    BY <1>1, <1>2, <1>3, <1>5 DEF Asking
  <2>5. Inv' /\ Sources'
    BY <1>1, <1>2, <1>5, NextInv DEF Sources
  <2>6. Files'
    BY <1>1, <1>2, <2>3 DEF Files
  <2>7. \A i \in DOMAIN asked : i < at /\ Superseded(i) => Superseded(i)'
    BY <1>1, <1>3, <1>5 DEF Superseded, Package
  <2>8. ASSUME NEW i \in DOMAIN asked, i < at + 1, ~Superseded(i)'
        PROVE  SpecDone(i) /\ cargo'[Package(i)] = fetched[i]
    <3>1. CASE i = at
      BY <1>3, <2>3, <3>1
    <3>2. CASE i # at
      <4>1. i < at
        BY <1>3, <2>8, <3>2
      <4>2. ~Superseded(i)
        BY <2>7, <2>8, <4>1
      <4>3. SpecDone(i) /\ cargo[Package(i)] = fetched[i]
        BY <1>2, <4>1, <4>2 DEF Past
      <4>4. Package(i) \in Packages /\ Package(i) # Package(at)
        BY <1>2, <1>3, <4>1, <4>2, PackageOf, Others
      <4> QED BY <2>3, <4>3, <4>4
    <3> QED BY <3>1, <3>2
  <2>9. Past'
    <3>1. \A i \in DOMAIN asked' : Package(i)' = Package(i)
      BY <1>1 DEF Package
    <3>2. ASSUME NEW i \in DOMAIN asked', (i < at)', ~Superseded(i)'
          PROVE  SpecDone(i)' /\ (cargo[Package(i)] = fetched[i])'
      BY <1>1, <1>5, <2>8, <3>1, <3>2 DEF SpecDone, SpecFor, Source
    <3>3. \A i \in DOMAIN asked' : (i < at)' => (i <= Len(fetched))'
      BY <1>1, <1>3, <1>5
    <3> QED BY <1>5, <3>2, <3>3 DEF Past
  <2> QED BY <2>4, <2>5, <2>6, <2>9 DEF UpdateInv
<1> QED BY <1>4, <1>5 DEF UpdateCargo, Broken, CargoFor

LEMMA NextUpdate ==
  ASSUME UpdateInv, [Next]_vars
  PROVE  UpdateInv'
<1>1. CASE NextManifest /\ UNCHANGED updateVars
  BY <1>1, ToolKeeps
<1>2. ASSUME NEW q \in Requests, Invoke(q) PROVE UpdateInv'
  BY <1>2, InvokeKeeps
<1>3. CASE Fetch
  BY <1>3, FetchKeeps
<1>4. CASE UpdateSpec
  BY <1>4, UpdateSpecKeeps
<1>5. CASE UpdateCargo
  BY <1>5, UpdateCargoKeeps
<1>6. CASE Kill
  BY <1>6, KillKeeps
<1>7. CASE UNCHANGED vars
  BY <1>7, ToolKeeps DEF vars
<1> QED BY <1>1, <1>2, <1>3, <1>4, <1>5, <1>6, <1>7 DEF Next

(* The invariant: which packages are done, and from which manifest. *)
THEOREM UpdateInvariant == Spec => []UpdateInv
<1>1. UpdateInv /\ [Next]_vars => UpdateInv'
  BY NextUpdate
<1> QED BY <1>1, InitUpdate, PTL DEF Spec

LEMMA UpdateAgrees == UpdateInv => DoneAgree
<1> SUFFICES ASSUME UpdateInv, NEW i \in DOMAIN asked, i < at,
                    \A j \in DOMAIN asked : i < j /\ j <= at => Package(j) # Package(i)
             PROVE  /\ cargo[Package(i)] = fetched[i] /\ spec[Package(i)] # Broken
                    /\ SpecUri(spec[Package(i)]) = cargo[Package(i)].uri <=> asked[i].patch = fetched[i].uri[2]
  BY DEF DoneAgree
<1>1. ~Superseded(i)
  BY DEF Superseded
<1>2. SpecDone(i) /\ cargo[Package(i)] = fetched[i]
  BY <1>1 DEF UpdateInv, Past
<1>3. asked[i].patch \in Tags
  <2>1. i \in DOMAIN fetched
    BY DEF UpdateInv, Past, Asking
  <2> QED BY <2>1, PackageOf DEF UpdateInv, Asking
<1> QED BY <1>2, <1>3, SpecForTyped DEF SpecDone, Broken

(* The packages an update is past have both files from one manifest, and the spec *)
(* names the same source if the patch asked for was the manifest's.                *)
THEOREM DonePackagesAgree == Spec => []DoneAgree
BY UpdateInvariant, UpdateAgrees, PTL

(* With Kubernetes among the components of a release no manifest lacks its source. *)
THEOREM NeverPanics ==
  ASSUME "kubernetes" \in Components
  PROVE  Spec => []NoPanic
<1>1. UpdateInv => NoPanic
  BY DEF UpdateInv, Sources, NoPanic
<1> QED BY <1>1, UpdateInvariant, PTL

(* The updater leaves the release tool alone: what is proved of the tool holds beside it. *)
THEOREM ToolUndisturbed == Spec => SpecManifest
<1>1. Init => InitManifest
  BY DEF Init
<1>2. [Next]_vars => [NextManifest]_manifestVars
  BY DEF Next, Invoke, Fetch, UpdateSpec, UpdateCargo, Kill, vars
<1> QED BY <1>1, <1>2, PTL DEF Spec, SpecManifest

LEMMA UpdaterTyped ==
  ASSUME Next, upc \in {"idle", "fetch", "spec", "cargo", "ended"},
         outcome \in {"none", "ok", "error", "panic", "out of range", "killed"}
  PROVE  /\ upc' \in {"idle", "fetch", "spec", "cargo", "ended"}
         /\ outcome' \in {"none", "ok", "error", "panic", "out of range", "killed"}
<1>1. CASE NextManifest /\ UNCHANGED updateVars
  BY <1>1 DEF updateVars
<1>2. ASSUME NEW q \in Requests, Invoke(q) PROVE upc' = "fetch" /\ outcome' = "none"
  BY <1>2 DEF Invoke
<1>3. CASE Fetch
  BY <1>3 DEF Fetch, End
<1>4. CASE UpdateSpec
  BY <1>4 DEF UpdateSpec, End
<1>5. CASE UpdateCargo
  BY <1>5 DEF UpdateCargo, End
<1>6. CASE Kill
  BY <1>6 DEF Kill, End
<1> QED BY <1>1, <1>2, <1>3, <1>4, <1>5, <1>6 DEF Next

(* Every variable of the updater and of the tool beside it has its type: it is never *)
(* past what it was asked for, and a file is whole, or has lost its lines.           *)
THEOREM UpdateTyped == Spec => []TypeOK
<1> DEFINE Ranges == /\ upc \in {"idle", "fetch", "spec", "cargo", "ended"}
                     /\ outcome \in {"none", "ok", "error", "panic", "out of range", "killed"}
<1>1. Init => Ranges
  BY DEF Init
<1>2. Ranges /\ [Next]_vars => Ranges'
  BY UpdaterTyped DEF vars, updateVars
<1>3. Spec => []Ranges
  BY <1>1, <1>2, PTL DEF Spec
<1>4. UpdateInv /\ ManifestTypeOK /\ Ranges => TypeOK
  BY DEF UpdateInv, Asking, Files, SpecFile, Broken, Garbled, TypeOK
<1> QED BY <1>3, <1>4, UpdateInvariant, ToolUndisturbed, ManifestTyped, PTL
=============================================================================
