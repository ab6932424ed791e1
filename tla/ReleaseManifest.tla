--------------------------- MODULE ReleaseManifest ---------------------------
(***************************************************************************)
(* The release CLI (release/): a job checks out the build repository,      *)
(* builds artifacts next to it, and runs the tool, which lists the assets  *)
(* of every component, asks the registry for the digest of every image,    *)
(* and prints the release's manifest.  The job publishes what was printed. *)
(* Meanwhile other jobs push images under the same tags.                   *)
(*                                                                         *)
(* Channel and number of a release are one value here and are left out of  *)
(* file names and image tags, as they are the same for a whole run.  So is *)
(* the order of components and assets: Go's map iteration makes it.        *)
(***************************************************************************)
EXTENDS Naturals, Sequences, FiniteSets

CONSTANTS
  Releases,    \* a release channel with a release number
  Tags,        \* upstream git tags
  Checkouts,   \* what a job's checkout and artifacts may be like
  Components,  \* the component functions an instance looks at
  Unpushed,    \* images the registry does not have at first
  MaxRuns,     \* bound on runs of the tool
  Rebuilt,     \* images that other jobs build again
  MaxPushes,   \* bound on pushes of one of them
  Nil          \* nothing there

\* The directories of the build repository whose GIT_TAG is read.
Projects == {"kubernetes", "kube-proxy", "aws-iam-authenticator", "etcd", "plugins", "coredns"}

\* versionFile: KUBE_GIT_VERSION_FILE parses.  cdn: so does the artifact URL.
\* lost: artifacts without two readable sum files.  build: the number of the job.
CheckoutType ==
  [tag : [Projects -> Tags \cup {Nil}], imageVersion : Tags \cup {Nil}, versionFile : BOOLEAN,
   cdn : BOOLEAN, lost : SUBSET (STRING \X Seq(STRING)), build : Nat]

\* The component functions of GenerateComponentsTable.
ComponentNames ==
  {"kubernetes", "kube-proxy", "aws-iam-authenticator", "livenessprobe", "external-attacher",
   "external-provisioner", "external-resizer", "node-driver-registrar", "external-snapshotter",
   "cni-plugins", "etcd", "coredns"}

ASSUME CheckoutsAssumption == Checkouts \subseteq CheckoutType
ASSUME ComponentsAssumption == Components \subseteq ComponentNames
ASSUME BoundsAssumption == MaxRuns \in Nat /\ MaxPushes \in Nat
ASSUME NilAssumption == Nil \notin Tags /\ Nil \notin Nat /\ Nil \notin Releases /\ Nil \notin CheckoutType

VARIABLES
  registry,   \* registry[i]: how often image i was pushed: its digest, 0 for no image
  rpc,        \* where the run of the tool is
  releasing,  \* the release of the run
  checkout,   \* the checkout of the run
  runs,       \* runs so far
  table,      \* componentsTable
  began,      \* history: the registry when the run started
  published   \* published[x]: the manifest of release x

toolVars == <<rpc, releasing, checkout, runs, table, began>>
manifestVars == <<registry, toolVars, published>>

-----------------------------------------------------------------------------
(* Assets *)

\* The artifacts' sums are the number of the job that built them.
Sums(co, dir, name) == IF co.cdn /\ <<dir, name>> \notin co.lost THEN co.build ELSE Nil

Archive(co, dir, tag, name, os, arch) ==
  [type |-> "Archive", dir |-> dir, tag |-> tag, name |-> name, os |-> os, arch |-> arch,
   sum |-> Sums(co, dir, name), digest |-> Nil]
Image(dir, tag, binary) ==
  [type |-> "Image", dir |-> dir, tag |-> tag, name |-> <<binary>>, os |-> "linux",
   arch |-> {"amd64", "arm64"}, sum |-> Nil, digest |-> Nil]

\* The registry knows an image by its repository and tag.
ImageOf(a) == <<a.dir, a.name, a.tag>>

Failed == Nil
\* A component function ends with its first error: a tag or sums that cannot be read.
Component(tag, archives, images) ==
  IF tag = Nil \/ \E a \in archives : a.sum = Nil THEN Failed ELSE archives \cup images

Both == {"arm64", "amd64"}
OsArch == ({"linux"} \X Both) \cup {<<"windows", "amd64">>, <<"darwin", "amd64">>}

\* GetKubernetesComponent: binaries, tarballs, image tars, the source.
KubernetesBinaries(os) ==
  CASE os = "linux" -> {"kube-apiserver", "kube-controller-manager", "kube-scheduler",
                        "kubectl", "kubelet", "kubeadm"}
    [] os = "darwin" -> {"kubectl"}
    [] os = "windows" -> {"kubeadm.exe", "kubectl.exe", "kubelet.exe"}
KubernetesTarballs(os) ==
  CASE os = "linux" -> {"client", "server", "node"}
    [] os = "windows" -> {"client", "node"}
    [] os = "darwin" -> {"client"}
ImageList == <<"kube-apiserver", "kube-controller-manager", "kube-scheduler", "pause">>
KubernetesImages == {ImageList[i] : i \in DOMAIN ImageList}
KubernetesSource == <<"kubernetes-src.tar.gz">>

KubernetesArchives(co) ==
  LET File(name, os, arch) == Archive(co, "kubernetes", co.tag["kubernetes"], name, os, arch) IN
  (UNION {{File(<<"bin", x[1], x[2], b>>, x[1], {x[2]}) : b \in KubernetesBinaries(x[1])} : x \in OsArch})
  \cup (UNION {{File(<<t, x[1], x[2]>>, x[1], {x[2]}) : t \in KubernetesTarballs(x[1])} : x \in OsArch})
  \cup (UNION {{File(<<"bin", "linux", arch, b, "tar">>, "linux", {arch}) :
                 b \in KubernetesImages \ {"pause"}} : arch \in Both})
  \cup {File(KubernetesSource, "", {})}

\* Fault: artifacts without sums are passed over, as GetKubeProxyComponent does.
KubernetesLenient(co) ==
  IF ~co.versionFile \/ co.tag["kubernetes"] = Nil THEN Failed
  ELSE {a \in KubernetesArchives(co) : a.sum # Nil}
       \cup {Image("kubernetes", co.tag["kubernetes"], b) : b \in KubernetesImages}
GetKubernetesComponent(co) ==
  IF ~co.versionFile THEN Failed
  ELSE Component(co.tag["kubernetes"], KubernetesArchives(co),
                 {Image("kubernetes", co.tag["kubernetes"], b) : b \in KubernetesImages})

\* GetKubeProxyComponent: a tag of its own for the image, the artifacts are those of
\* the Kubernetes build, and one without sums is passed over.
KubeProxyArchives(co) ==
  LET File(name, os, arch) == Archive(co, "kubernetes", co.tag["kubernetes"], name, os, {arch}) IN
  {File(<<"bin", "linux", arch, "kube-proxy">>, "linux", arch) : arch \in Both}
  \cup {File(<<"bin", "windows", "amd64", "kube-proxy.exe">>, "windows", "amd64")}
  \cup {File(<<"bin", "linux", arch, "kube-proxy", "tar">>, "linux", arch) : arch \in Both}
GetKubeProxyComponent(co) ==
  IF Nil \in {co.tag["kube-proxy"], co.tag["kubernetes"]} THEN Failed
  ELSE {a \in KubeProxyArchives(co) : a.sum # Nil}
       \cup {Image("kubernetes", co.tag["kube-proxy"], "kube-proxy")}

\* GetAuthenticatorComponent: an archive per system and architecture; IMAGE_VERSION, if
\* there is one, is the image's tag.
AuthenticatorArchives(co) ==
  LET tag == co.tag["aws-iam-authenticator"] IN
  {Archive(co, "aws-iam-authenticator", tag, x, x[1], {x[2]}) : x \in OsArch}
GetAuthenticatorComponent(co) ==
  LET tag == co.tag["aws-iam-authenticator"]
      imageVersion == IF co.imageVersion = Nil THEN tag ELSE co.imageVersion
  IN Component(tag, AuthenticatorArchives(co),
               {Image("kubernetes-sigs", imageVersion, "aws-iam-authenticator")})

LinuxTarballs(co, project) ==
  {Archive(co, project, co.tag[project], <<"linux", arch>>, "linux", {arch}) : arch \in Both}
GetEtcdComponent(co) ==
  Component(co.tag["etcd"], LinuxTarballs(co, "etcd"), {Image("etcd-io", co.tag["etcd"], "etcd")})
GetCniComponent(co) == Component(co.tag["plugins"], LinuxTarballs(co, "plugins"), {})
GetCorednsComponent(co) ==
  Component(co.tag["coredns"], {}, {Image("coredns", co.tag["coredns"], "coredns")})

\* The CSI components are images of others, under tags written in the code.
Csi == "csi-components"
GetLivenessprobeComponent == {Image(Csi, "v2.16.0-eksbuild.4", "livenessprobe")}
GetAttacherComponent == {Image(Csi, "v4.9.0-eksbuild.3", "csi-attacher")}
GetProvisionerComponent == {Image(Csi, "v5.3.0-eksbuild.3", "csi-provisioner")}
GetResizerComponent == {Image(Csi, "v1.14.0-eksbuild.3", "csi-resizer")}
GetRegistrarComponent == {Image(Csi, "v2.14.0-eksbuild.4", "csi-node-driver-registrar")}
GetSnapshotterComponent ==
  {Image(Csi, "v8.3.0-eksbuild.1", b) : b \in {"csi-snapshotter", "snapshot-controller"}}

GetComponent(c, co) ==
  CASE c = "kubernetes" -> GetKubernetesComponent(co)
    [] c = "kube-proxy" -> GetKubeProxyComponent(co)
    [] c = "aws-iam-authenticator" -> GetAuthenticatorComponent(co)
    [] c = "livenessprobe" -> GetLivenessprobeComponent
    [] c = "external-attacher" -> GetAttacherComponent
    [] c = "external-provisioner" -> GetProvisionerComponent
    [] c = "external-resizer" -> GetResizerComponent
    [] c = "node-driver-registrar" -> GetRegistrarComponent
    [] c = "external-snapshotter" -> GetSnapshotterComponent
    [] c = "cni-plugins" -> GetCniComponent(co)
    [] c = "etcd" -> GetEtcdComponent(co)
    [] c = "coredns" -> GetCorednsComponent(co)

-----------------------------------------------------------------------------
(* A run of the tool *)

NoTable == [c \in Components |-> {}]

\* The tool ends, and nothing of the run is left but what it printed.
Exit == /\ rpc' = "idle" /\ table' = NoTable
        /\ releasing' = Nil /\ checkout' = Nil /\ began' = Nil

\* A job builds and starts the tool; the registry's client may not be made, or a
\* development release have no bucket.
Start(x, co) ==
  /\ rpc = "idle" /\ runs < MaxRuns
  /\ runs' = runs + 1
  /\ \/ UNCHANGED <<rpc, releasing, checkout, began>>
     \/ /\ rpc' = "generate" /\ releasing' = x
        /\ checkout' = [co EXCEPT !.build = runs + 1]
        /\ began' = registry
  /\ UNCHANGED <<registry, table, published>>

\* GenerateComponentsTable
Generate ==
  /\ rpc = "generate"
  /\ IF \E c \in Components : GetComponent(c, checkout) = Failed
     THEN Exit
     ELSE /\ table' = [c \in Components |-> GetComponent(c, checkout)]
          /\ rpc' = "digests"
          /\ UNCHANGED <<releasing, checkout, began>>
  /\ UNCHANGED <<registry, runs, published>>

Images(c) == {a \in table[c] : a.type = "Image" /\ a.dir # Csi}
\* Images that UpdateImageDigests still has to ask for.
Pending(c) == {a \in Images(c) : a.digest = Nil}
InHand(c) == Pending(c) # {} /\ Pending(c) # Images(c)

ListedAt(a) == IF a.name[1] \in KubernetesImages THEN CHOOSE i \in DOMAIN ImageList : ImageList[i] = a.name[1] ELSE 0

\* Fault: the digest is that of the image's first push.
FirstDigest(a) == 1
Digest(a) == registry[ImageOf(a)]

\* UpdateImageDigests: one DescribeImages per image, component after component, and
\* within Kubernetes in the order of its list.
Describe(c, a) ==
  /\ rpc = "digests" /\ a \in Pending(c)
  /\ \A d \in Components \ {c} : ~InHand(d)
  /\ \A b \in Pending(c) : ListedAt(a) <= ListedAt(b)
  /\ \/ Exit
     \/ /\ registry[ImageOf(a)] # 0
        /\ table' = [table EXCEPT ![c] = (@ \ {a}) \cup {[a EXCEPT !.digest = Digest(a)]}]
        /\ UNCHANGED <<rpc, releasing, checkout, began>>
  /\ UNCHANGED <<registry, runs, published>>

\* UpdateReleaseStatus; the job publishes what is printed.
PrintManifest ==
  /\ rpc = "digests" /\ \A c \in Components : Pending(c) = {}
  /\ published' = [published EXCEPT ![releasing] = table]
  /\ Exit
  /\ UNCHANGED <<registry, runs>>

-----------------------------------------------------------------------------
(* Other jobs *)

\* The registry's images of the instance.
ImageIds ==
  {ImageOf(a) : a \in UNION {{Image("kubernetes", t, b) : b \in KubernetesImages \cup {"kube-proxy"}}
                             \cup {Image("kubernetes-sigs", t, "aws-iam-authenticator"),
                                   Image("etcd-io", t, "etcd"), Image("coredns", t, "coredns")} : t \in Tags}}

ASSUME RegistryAssumption == Rebuilt \subseteq ImageIds /\ Unpushed \subseteq ImageIds

\* An image is built and pushed, again, under its tag.
PushImage(i) ==
  /\ registry[i] <= MaxPushes
  /\ registry' = [registry EXCEPT ![i] = @ + 1]
  /\ UNCHANGED <<toolVars, published>>

InitManifest ==
  /\ registry = [i \in ImageIds |-> IF i \in Unpushed THEN 0 ELSE 1]
  /\ rpc = "idle" /\ releasing = Nil /\ checkout = Nil
  /\ runs = 0 /\ table = NoTable /\ began = Nil
  /\ published = [x \in Releases |-> Nil]

NextManifest ==
  \/ \E x \in Releases, co \in Checkouts : Start(x, co)
  \/ Generate
  \/ \E c \in Components : \E a \in table[c] : Describe(c, a)
  \/ PrintManifest
  \/ \E i \in Rebuilt : PushImage(i)

SpecManifest == InitManifest /\ [][NextManifest]_manifestVars

-----------------------------------------------------------------------------
(* Looking an asset up: get-asset-uri *)

\* strings.ToLower
SameType(type, asked) == asked = (IF type = "Image" THEN "image" ELSE "archive")

\* parseReleaseForUri: the assets it finds; of several the user picks one.
UriCandidates(m, c, assetType, os, arch) ==
  {a \in m[c] : a.os = os /\ SameType(a.type, assetType) /\ arch \in a.arch}

-----------------------------------------------------------------------------
(* Properties *)

Systems == {"linux", "windows", "darwin"}
\* What directories and names are made of.
Dirs == {"kubernetes", "kubernetes-sigs", "aws-iam-authenticator", "etcd", "etcd-io",
         "plugins", "coredns", Csi}
CsiTags == {"v2.16.0-eksbuild.4", "v4.9.0-eksbuild.3", "v5.3.0-eksbuild.3", "v1.14.0-eksbuild.3",
            "v2.14.0-eksbuild.4", "v8.3.0-eksbuild.1"}
CsiNames == {"livenessprobe", "csi-attacher", "csi-provisioner", "csi-resizer",
             "csi-node-driver-registrar", "csi-snapshotter", "snapshot-controller"}
Words ==
  {"bin", "tar", "kube-proxy", "kube-proxy.exe", "aws-iam-authenticator", "etcd", "coredns",
   KubernetesSource[1]}
  \cup Systems \cup Both \cup KubernetesImages \cup CsiNames
  \cup UNION {KubernetesBinaries(os) \cup KubernetesTarballs(os) : os \in Systems}

Assets ==
  [type : {"Archive", "Image"}, dir : Dirs, tag : Tags \cup CsiTags, name : Seq(Words),
   os : Systems \cup {""}, arch : SUBSET Both, sum : Nat \cup {Nil}, digest : Nat \cup {Nil}]

\* Every variable has its type.
ManifestTypeOK ==
  /\ registry \in [ImageIds -> Nat]
  /\ rpc \in {"idle", "generate", "digests"}
  /\ releasing \in Releases \cup {Nil} /\ (rpc # "idle" => releasing # Nil)
  /\ checkout \in CheckoutType \cup {Nil} /\ (rpc # "idle" => checkout # Nil)
  /\ runs \in 0..MaxRuns
  /\ \A c \in Components : table[c] \subseteq Assets
  /\ began \in [ImageIds -> Nat] \cup {Nil}
  /\ \A x \in Releases : published[x] # Nil => \A c \in Components : published[x][c] \subseteq Assets

\* The archives that no manifest may leave out.  Those of kube-proxy are not among them.
Required(c, co) ==
  CASE c = "kubernetes" -> KubernetesArchives(co)
    [] c = "aws-iam-authenticator" -> AuthenticatorArchives(co)
    [] c = "cni-plugins" -> LinuxTarballs(co, "plugins")
    [] c = "etcd" -> LinuxTarballs(co, "etcd")
    [] OTHER -> {}

\* But for kube-proxy's archives a manifest is published whole or not at all, whatever
\* was missing from the checkout, the artifacts or the registry: get-asset-uri finds the
\* image of every component, every image that is not a CSI component's has a digest, none
\* of the archives of Kubernetes, the authenticator, etcd and the CNI plugins is missing,
\* and no archive is listed without sums.  Archives of kube-proxy may be missing.
PublishedWhole ==
  \A x \in Releases : published[x] # Nil =>
    /\ \A c \in Components \ {"cni-plugins"}, arch \in Both :
         UriCandidates(published[x], c, "image", "linux", arch) # {}
    /\ \A c \in Components : \A a \in published[x][c] :
         IF a.type = "Archive" THEN a.sum # Nil ELSE a.dir = Csi \/ a.digest # Nil
    /\ \A c \in Components, co \in Checkouts :
         {a.name : a \in Required(c, co)} \subseteq {a.name : a \in published[x][c]}

\* Tags move: a digest that is published was the tag's when the run started, or is one
\* the tag was given while the tool ran, never one replaced before.
DigestsFresh ==
  [][\A x \in Releases : published'[x] # published[x] =>
       \A c \in Components : \A a \in published'[x][c] :
         a.type = "Image" /\ a.dir # Csi =>
           /\ a.digest \in began[ImageOf(a)]..registry[ImageOf(a)]
           /\ a.digest # 0]_published
=============================================================================
