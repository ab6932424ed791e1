--------------------------- MODULE ConsumerUpdate ---------------------------
(***************************************************************************)
(* The consumer updater (cmd/consumerUpdater, pkg/consumerUpdater and      *)
(* pkg/eksDistroRelease) beside the release tool whose manifests it reads. *)
(* `update` is given EKS Distro versions M.m.p-r.  It fetches the manifest *)
(* of each, which branch and release number name, and then, release after  *)
(* release, rewrites two files of the Bottlerocket package of that branch: *)
(* the spec with the patch it was given and the source's URI, Cargo.toml   *)
(* with the source's URI and SHA-512.                                      *)
(***************************************************************************)
EXTENDS ReleaseManifest

CONSTANTS
  Channel,      \* Channel[x]: the release branch of x, which names the package
  Requests,     \* what the updater may be asked for
  Shipped       \* Shipped[p]: the source the package p starts with

Packages == {Channel[x] : x \in Releases}
\* A version names a release, and a patch of its own.
Request == [release : Releases, patch : Tags]
\* An archive is known by its URI, <<release, tag>>, and its sum.
Source == [uri : Releases \X Tags, sum : Nat]

\* A text that lacks the parts of a version.
Garbled == Nil

ASSUME RequestsAssumption == Requests \subseteq Seq(Request \cup {Garbled}) /\ Garbled \notin Request
ASSUME ShippedAssumption == Shipped \in [Packages -> Source]
ASSUME SourceAssumption == Nil \notin Source /\ Nil \notin [gover : Tags, release : Releases]

VARIABLES
  upc,      \* where the updater is
  asked,    \* the texts it was given for versions
  fetched,  \* the source archives of the manifests fetched, in that order
  at,       \* index of the loop over the versions
  outcome,  \* how the last update ended
  spec,     \* spec[p]: gover and Source0 of the package's spec
  cargo     \* cargo[p]: url and sha512 of its Cargo.toml

files == <<spec, cargo>>
updateVars == <<upc, asked, fetched, at, outcome, files>>
vars == <<manifestVars, updateVars>>

\* A file without the lines looked for: it never had them, or a write was cut short.
Broken == Nil

-----------------------------------------------------------------------------
(* Building blocks *)

\* KubernetesSourceArchive: Nil if the manifest has none.
SourceArchive(x, m) ==
  IF "kubernetes" \notin Components \/ ~\E a \in m["kubernetes"] : a.name = KubernetesSource THEN Nil
  ELSE LET a == CHOOSE a \in m["kubernetes"] : a.name = KubernetesSource
       IN  [uri |-> <<x, a.tag>>, sum |-> a.sum]

\* Fault: the URI keeps its version.
SpecWithVersion(patch, source) == [gover |-> patch, release |-> source.uri]
\* updateSpec: the version in the URI becomes %{gover}.
SpecFor(patch, source) == [gover |-> patch, release |-> source.uri[1]]
\* What rpmbuild takes the source from.
SpecUri(s) == <<s.release, s.gover>>

Package(i) == Channel[asked[i].release]
End(how) == upc' = "ended" /\ outcome' = how

-----------------------------------------------------------------------------
(* update *)

Invoke(q) ==
  /\ upc \in {"idle", "ended"}
  /\ asked' = q /\ fetched' = <<>> /\ at' = 1
  /\ upc' = "fetch" /\ outcome' = "none"
  /\ UNCHANGED <<manifestVars, files>>

\* NewEksDistroReleaseObject for the next version; without a number in a part, a manifest
\* or an answer the command ends before it has changed a file.  A text that lacks a part
\* is indexed out of range, unless a part before it is no number.
Fetch ==
  /\ upc = "fetch"
  /\ IF Len(fetched) = Len(asked)
     THEN upc' = "spec" /\ UNCHANGED <<fetched, outcome>>
     ELSE LET text == asked[Len(fetched) + 1] IN
          \/ End("error") /\ UNCHANGED fetched
          \/ text = Garbled /\ End("out of range") /\ UNCHANGED fetched
          \/ /\ text # Garbled /\ published[text.release] # Nil
             /\ fetched' = Append(fetched, SourceArchive(text.release, published[text.release]))
             /\ UNCHANGED <<upc, outcome>>
  /\ UNCHANGED <<manifestVars, asked, at, files>>

\* Update's first half, updateSpec.  The source is looked up when the lines are found:
\* a manifest without it is a nil dereference.  os.WriteFile empties the file first.
UpdateSpec ==
  /\ upc = "spec"
  /\ IF at > Len(asked)
     THEN End("ok") /\ UNCHANGED spec
     ELSE LET p == Package(at) IN
          \/ End("error") /\ UNCHANGED spec
          \/ spec[p] # Broken /\ fetched[at] = Nil /\ End("panic") /\ UNCHANGED spec
          \/ /\ spec[p] # Broken /\ fetched[at] # Nil
             /\ \/ /\ spec' = [spec EXCEPT ![p] = SpecFor(asked[at].patch, fetched[at])]
                   /\ upc' = "cargo" /\ UNCHANGED outcome
                \/ /\ spec' = [spec EXCEPT ![p] = Broken]
                   /\ End("error")
  /\ UNCHANGED <<manifestVars, asked, fetched, at, cargo>>

\* Fault: the sum is left as it was.
CargoForUri(old, source) == [source EXCEPT !.sum = old.sum]
CargoFor(old, source) == source

\* updateCargo, and UpdateAll's loop.
UpdateCargo ==
  /\ upc = "cargo"
  /\ LET p == Package(at) IN
     \/ End("error") /\ UNCHANGED <<cargo, at>>
     \/ /\ cargo[p] # Broken
        /\ \/ /\ cargo' = [cargo EXCEPT ![p] = CargoFor(cargo[p], fetched[at])]
              /\ at' = at + 1 /\ upc' = "spec" /\ UNCHANGED outcome
           \/ /\ cargo' = [cargo EXCEPT ![p] = Broken]
              /\ End("error") /\ UNCHANGED at
  /\ UNCHANGED <<manifestVars, asked, fetched, spec>>

\* SIGINT or SIGTERM, which may cut a write short.
Kill ==
  /\ upc \in {"fetch", "spec", "cargo"}
  /\ End("killed")
  /\ \/ UNCHANGED files
     \/ /\ upc = "spec" /\ at <= Len(asked) /\ spec[Package(at)] # Broken
        /\ spec' = [spec EXCEPT ![Package(at)] = Broken] /\ UNCHANGED cargo
     \/ /\ upc = "cargo" /\ cargo[Package(at)] # Broken
        /\ cargo' = [cargo EXCEPT ![Package(at)] = Broken] /\ UNCHANGED spec
  /\ UNCHANGED <<manifestVars, asked, fetched, at>>

Init ==
  /\ InitManifest
  /\ upc = "idle" /\ asked = <<>> /\ fetched = <<>> /\ at = 1 /\ outcome = "none"
  /\ \E lacking \in SUBSET Packages :
       spec = [p \in Packages |-> IF p \in lacking THEN Broken
                                 ELSE SpecFor(Shipped[p].uri[2], Shipped[p])]
  /\ \E lacking \in SUBSET Packages :
       cargo = [p \in Packages |-> IF p \in lacking THEN Broken ELSE Shipped[p]]

Next == \/ NextManifest /\ UNCHANGED updateVars
        \/ \E q \in Requests : Invoke(q)
        \/ Fetch \/ UpdateSpec \/ UpdateCargo \/ Kill

Spec == Init /\ [][Next]_vars

-----------------------------------------------------------------------------
(* Properties *)

\* Every variable has its type.
TypeOK ==
  /\ ManifestTypeOK
  /\ upc \in {"idle", "fetch", "spec", "cargo", "ended"}
  /\ asked \in Seq(Request \cup {Garbled})
  /\ fetched \in Seq(Source \cup {Nil}) /\ Len(fetched) <= Len(asked)
  /\ at \in 1..(Len(asked) + 1)
  /\ outcome \in {"none", "ok", "error", "panic", "out of range", "killed"}
  /\ spec \in [Packages -> [gover : Tags, release : Releases] \cup {Broken}]
  /\ cargo \in [Packages -> Source \cup {Broken}]

\* Whatever the run ends with, each package it is past has the Cargo.toml of one and
\* the same manifest, URI and sum, and a spec that names the same source if the patch
\* asked for was the manifest's: nothing checks that it is.  A later release of the
\* same branch takes the package over.
DoneAgree ==
  \A i \in DOMAIN asked :
    /\ i < at
    /\ \A j \in DOMAIN asked : i < j /\ j <= at => Package(j) # Package(i)
    => LET p == Package(i) IN
         /\ cargo[p] = fetched[i] /\ spec[p] # Broken
         /\ SpecUri(spec[p]) = cargo[p].uri <=> asked[i].patch = fetched[i].uri[2]

\* A manifest the release tool printed never makes the updater dereference nil, however
\* the release was built.  The other way it panics, for a text that lacks parts, is
\* the outcome "out of range".
NoPanic == outcome # "panic"
=============================================================================
