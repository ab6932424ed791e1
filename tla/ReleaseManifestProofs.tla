------------------------ MODULE ReleaseManifestProofs ------------------------
(***************************************************************************)
(* Theorems about ReleaseManifest, for every set of checkouts, releases    *)
(* and components.                                                         *)
(***************************************************************************)
EXTENDS ReleaseManifest, TLAPS

-----------------------------------------------------------------------------
(* Assets, whatever their fields hold *)

AnyAsset(a) ==
  \E type, dir, tag, name, os, arch, sum, digest :
    a = [type |-> type, dir |-> dir, tag |-> tag, name |-> name, os |-> os, arch |-> arch,
         sum |-> sum, digest |-> digest]

(* An archive has sums, an image of ours is one the registry knows. *)
Sound(a) ==
  /\ AnyAsset(a) /\ a.type \in {"Archive", "Image"}
  /\ a.type = "Archive" => a.sum \in Nat /\ a.tag \in Tags
  /\ a.type = "Image" => a.name # KubernetesSource
  /\ a.type = "Image" /\ a.dir # Csi => ImageOf(a) \in ImageIds

LEMMA WithDigest ==
  ASSUME NEW a, AnyAsset(a), NEW d, NEW b, b = [a EXCEPT !.digest = d]
  PROVE  /\ AnyAsset(b) /\ b.digest = d
         /\ b.type = a.type /\ b.dir = a.dir /\ b.tag = a.tag /\ b.name = a.name
         /\ b.os = a.os /\ b.arch = a.arch /\ b.sum = a.sum
<1>1. PICK type, dir, tag, name, os, arch, sum, digest :
        a = [type |-> type, dir |-> dir, tag |-> tag, name |-> name, os |-> os, arch |-> arch,
             sum |-> sum, digest |-> digest]
  BY DEF AnyAsset
<1>2. b = [type |-> type, dir |-> dir, tag |-> tag, name |-> name, os |-> os, arch |-> arch,
           sum |-> sum, digest |-> d]
  BY <1>1
<1>3. AnyAsset(b)
  BY <1>2 DEF AnyAsset
<1> QED BY <1>1, <1>2, <1>3

(* What Archive and Image make. *)
LEMMA ArchiveSound ==
  ASSUME NEW co, co.build \in Nat, NEW dir, NEW tag \in Tags, NEW name, NEW os, NEW arch,
         NEW a, a = Archive(co, dir, tag, name, os, arch), a.sum # Nil
  PROVE  Sound(a) /\ a.type = "Archive" /\ a.name = name /\ a.digest = Nil
<1>1. a = [type |-> "Archive", dir |-> dir, tag |-> tag, name |-> name, os |-> os, arch |-> arch,
           sum |-> Sums(co, dir, name), digest |-> Nil]
  BY DEF Archive
<1>2. AnyAsset(a)
  BY <1>1 DEF AnyAsset
<1>3. a.sum = Sums(co, dir, name) /\ a.type = "Archive" /\ a.tag = tag /\ a.name = name /\ a.digest = Nil
  BY <1>1
<1>4. a.sum \in Nat
  BY <1>3 DEF Sums
<1> QED BY <1>2, <1>3, <1>4 DEF Sound

LEMMA ImageFields ==
  ASSUME NEW dir, NEW tag, NEW binary, NEW a, a = Image(dir, tag, binary)
  PROVE  /\ AnyAsset(a) /\ a.type = "Image" /\ a.dir = dir /\ a.tag = tag /\ a.name = <<binary>>
         /\ a.os = "linux" /\ a.arch = {"amd64", "arm64"} /\ a.digest = Nil
BY DEF Image, AnyAsset

LEMMA OurImage ==
  ASSUME NEW t \in Tags, NEW dir, NEW b, NEW a, a = Image(dir, t, b),
         \/ dir = "kubernetes" /\ b \in KubernetesImages \cup {"kube-proxy"}
         \/ dir = "kubernetes-sigs" /\ b = "aws-iam-authenticator"
         \/ dir = "etcd-io" /\ b = "etcd"
         \/ dir = "coredns" /\ b = "coredns"
  PROVE  ImageOf(a) \in ImageIds
<1> DEFINE Pushed(tt) == {Image("kubernetes", tt, x) : x \in KubernetesImages \cup {"kube-proxy"}}
                         \cup {Image("kubernetes-sigs", tt, "aws-iam-authenticator"),
                               Image("etcd-io", tt, "etcd"), Image("coredns", tt, "coredns")}
<1>1. a \in Pushed(t)
  OBVIOUS
<1>2. a \in UNION {Pushed(tt) : tt \in Tags}
  BY <1>1
<1> HIDE DEF Pushed
<1>3. ImageOf(a) \in {ImageOf(x) : x \in UNION {Pushed(tt) : tt \in Tags}}
  BY <1>2
<1> QED BY <1>3 DEF ImageIds, Pushed

LEMMA ImageNames ==
  \A b \in KubernetesImages : b \in {"kube-apiserver", "kube-controller-manager", "kube-scheduler", "pause"}
BY DEF KubernetesImages, ImageList

LEMMA ImageSound ==
  ASSUME NEW tag, NEW dir, NEW b, NEW a, a = Image(dir, tag, b), b # "kubernetes-src.tar.gz",
         dir = Csi \/ ImageOf(a) \in ImageIds
  PROVE  Sound(a)
<1>1. AnyAsset(a) /\ a.type = "Image" /\ a.dir = dir /\ a.name = <<b>>
  BY ImageFields
<1> QED BY <1>1 DEF Sound, KubernetesSource

-----------------------------------------------------------------------------
(* What the component functions return, if they do not fail *)

HasImage(S) == \E a \in S : a.type = "Image" /\ a.os = "linux" /\ a.arch = {"amd64", "arm64"}
Fresh(S) == \A a \in S : Sound(a) /\ a.digest = Nil
CheckoutTyped(co) == /\ \A p \in Projects : co.tag[p] \in Tags \cup {Nil}
                     /\ co.imageVersion \in Tags \cup {Nil} /\ co.build \in Nat

LEMMA ComponentFresh ==
  ASSUME NEW tag, NEW archives, NEW images, NEW S, S = Component(tag, archives, images), S # Failed,
         tag # Nil => \A a \in archives : a.sum # Nil => Sound(a) /\ a.digest = Nil,
         tag # Nil => Fresh(images)
  PROVE  tag # Nil /\ S = archives \cup images /\ Fresh(S)
<1>1. tag # Nil /\ S = archives \cup images /\ \A a \in archives : a.sum # Nil
  BY DEF Component
<1> QED BY <1>1 DEF Fresh

(* The archives of Kubernetes, one kind after the other. *)
KFile(co, name, os, arch) == Archive(co, "kubernetes", co.tag["kubernetes"], name, os, arch)
Binaries(co, x) == {KFile(co, <<"bin", x[1], x[2], b>>, x[1], {x[2]}) : b \in KubernetesBinaries(x[1])}
Tarballs(co, x) == {KFile(co, <<b, x[1], x[2]>>, x[1], {x[2]}) : b \in KubernetesTarballs(x[1])}
Tars(co, arch) == {KFile(co, <<"bin", "linux", arch, b, "tar">>, "linux", {arch}) :
                     b \in KubernetesImages \ {"pause"}}

LEMMA Kinds ==
  ASSUME NEW co, NEW a
  PROVE  a \in KubernetesArchives(co) <=>
           \/ \E x \in OsArch : a \in Binaries(co, x)
           \/ \E x \in OsArch : a \in Tarballs(co, x)
           \/ \E arch \in Both : a \in Tars(co, arch)
           \/ a = KFile(co, KubernetesSource, "", {})
<1> DEFINE Bins == UNION {Binaries(co, x) : x \in OsArch}
           Balls == UNION {Tarballs(co, x) : x \in OsArch}
           AllTars == UNION {Tars(co, arch) : arch \in Both}
<1>1. KubernetesArchives(co) = Bins \cup Balls \cup AllTars \cup {KFile(co, KubernetesSource, "", {})}
  BY DEF KubernetesArchives, Binaries, Tarballs, Tars, KFile
<1>2. a \in Bins <=> \E x \in OsArch : a \in Binaries(co, x)
  OBVIOUS
<1>3. a \in Balls <=> \E x \in OsArch : a \in Tarballs(co, x)
  OBVIOUS
<1>4. a \in AllTars <=> \E arch \in Both : a \in Tars(co, arch)
  OBVIOUS
<1> HIDE DEF Bins, Balls, AllTars
<1> QED BY <1>1, <1>2, <1>3, <1>4

LEMMA KubernetesArchiveSound ==
  ASSUME NEW co, CheckoutTyped(co), co.tag["kubernetes"] # Nil,
         NEW a \in KubernetesArchives(co), a.sum # Nil
  PROVE  Sound(a) /\ a.digest = Nil
<1>1. co.build \in Nat /\ co.tag["kubernetes"] \in Tags
  BY DEF CheckoutTyped, Projects
<1>2. PICK name, os, arch : a = KFile(co, name, os, arch)
  <2>1. CASE \E x \in OsArch : a \in Binaries(co, x)
    BY <2>1 DEF Binaries
  <2>2. CASE \E x \in OsArch : a \in Tarballs(co, x)
    BY <2>2 DEF Tarballs
  <2>3. CASE \E arch \in Both : a \in Tars(co, arch)
    BY <2>3 DEF Tars
  <2>4. CASE a = KFile(co, KubernetesSource, "", {})
    BY <2>4
  <2> QED BY <2>1, <2>2, <2>3, <2>4, Kinds
<1> QED BY <1>1, <1>2, ArchiveSound DEF KFile

LEMMA KubernetesFresh ==
  ASSUME NEW co, CheckoutTyped(co), GetKubernetesComponent(co) # Failed
  PROVE  /\ Fresh(GetKubernetesComponent(co)) /\ HasImage(GetKubernetesComponent(co))
         /\ KubernetesArchives(co) \subseteq GetKubernetesComponent(co)
<1> DEFINE t == co.tag["kubernetes"]
           images == {Image("kubernetes", t, b) : b \in KubernetesImages}
           S == GetKubernetesComponent(co)
<1>1. S = Component(t, KubernetesArchives(co), images)
  BY DEF GetKubernetesComponent
<1>2. t # Nil => t \in Tags
  BY DEF CheckoutTyped, Projects
<1>3. t # Nil => Fresh(images)
  <2> SUFFICES ASSUME t # Nil, NEW b \in KubernetesImages, NEW a, a = Image("kubernetes", t, b)
               PROVE  Sound(a) /\ a.digest = Nil
    BY DEF Fresh
  <2>1. ImageOf(a) \in ImageIds
    BY <1>2, OurImage
  <2>2. b # "kubernetes-src.tar.gz"
    BY ImageNames
  <2>3. a.digest = Nil
    BY ImageFields
  <2> QED BY <2>1, <2>2, <2>3, ImageSound
<1>4. t # Nil => \A a \in KubernetesArchives(co) : a.sum # Nil => Sound(a) /\ a.digest = Nil
  BY KubernetesArchiveSound
<1>5. S = KubernetesArchives(co) \cup images /\ Fresh(S)
  <2> HIDE DEF images, S, t
  <2> QED BY <1>1, <1>3, <1>4, ComponentFresh DEF S
<1>6. HasImage(S)
  <2>1. "pause" \in KubernetesImages
    <3>1. 4 \in DOMAIN ImageList /\ ImageList[4] = "pause"
      BY DEF ImageList
    <3> QED BY <3>1 DEF KubernetesImages
  <2>2. Image("kubernetes", t, "pause") \in S
    BY <1>5, <2>1
  <2> QED BY <2>2, ImageFields DEF HasImage
<1> QED BY <1>5, <1>6

LEMMA KubeProxyFresh ==
  ASSUME NEW co, CheckoutTyped(co), GetKubeProxyComponent(co) # Failed
  PROVE  Fresh(GetKubeProxyComponent(co)) /\ HasImage(GetKubeProxyComponent(co))
<1> DEFINE t == co.tag["kube-proxy"]
           k == co.tag["kubernetes"]
           i == Image("kubernetes", t, "kube-proxy")
           S == GetKubeProxyComponent(co)
<1>1. t # Nil /\ k # Nil /\ S = {a \in KubeProxyArchives(co) : a.sum # Nil} \cup {i}
  BY DEF GetKubeProxyComponent
<1>2. t \in Tags /\ k \in Tags /\ co.build \in Nat
  BY <1>1 DEF CheckoutTyped, Projects
<1>3. ASSUME NEW a \in KubeProxyArchives(co), a.sum # Nil PROVE Sound(a) /\ a.digest = Nil
  <2>1. \E name, os, arch : a = Archive(co, "kubernetes", k, name, os, arch)
    BY DEF KubeProxyArchives
  <2> QED BY <1>2, <1>3, <2>1, ArchiveSound
<1>4. Sound(i) /\ i.digest = Nil
  <2>1. ImageOf(i) \in ImageIds
    BY <1>2, OurImage
  <2> QED BY <2>1, ImageSound, ImageFields
<1>5. HasImage(S)
  BY <1>1, ImageFields DEF HasImage
<1> HIDE DEF i
<1> QED BY <1>1, <1>3, <1>4, <1>5 DEF Fresh

LEMMA AuthenticatorFresh ==
  ASSUME NEW co, CheckoutTyped(co), GetAuthenticatorComponent(co) # Failed
  PROVE  /\ Fresh(GetAuthenticatorComponent(co)) /\ HasImage(GetAuthenticatorComponent(co))
         /\ AuthenticatorArchives(co) \subseteq GetAuthenticatorComponent(co)
<1> DEFINE t == co.tag["aws-iam-authenticator"]
           v == IF co.imageVersion = Nil THEN t ELSE co.imageVersion
           i == Image("kubernetes-sigs", v, "aws-iam-authenticator")
           archives == {Archive(co, "aws-iam-authenticator", t, x, x[1], {x[2]}) : x \in OsArch}
           S == GetAuthenticatorComponent(co)
<1>0. archives = AuthenticatorArchives(co)
  BY DEF AuthenticatorArchives
<1>1. S = Component(t, archives, {i})
  BY <1>0 DEF GetAuthenticatorComponent
<1>2. co.build \in Nat /\ (t # Nil => t \in Tags /\ v \in Tags)
  BY DEF CheckoutTyped, Projects
<1>3. t # Nil => \A a \in archives : a.sum # Nil => Sound(a) /\ a.digest = Nil
  <2> SUFFICES ASSUME t # Nil, NEW x \in OsArch, NEW a, a.sum # Nil,
                      a = Archive(co, "aws-iam-authenticator", t, x, x[1], {x[2]})
               PROVE  Sound(a) /\ a.digest = Nil
    OBVIOUS
  <2> HIDE DEF t
  <2> QED BY <1>2, ArchiveSound
<1>4. t # Nil => Fresh({i})
  <2> SUFFICES ASSUME t # Nil PROVE Sound(i) /\ i.digest = Nil
    BY DEF Fresh
  <2>1. ImageOf(i) \in ImageIds
    BY <1>2, OurImage
  <2> QED BY <2>1, ImageSound, ImageFields
<1>5. S = archives \cup {i} /\ Fresh(S)
  <2> HIDE DEF archives, i, S, t
  <2> QED BY <1>1, <1>3, <1>4, ComponentFresh DEF S
<1>6. HasImage(S)
  BY <1>5, ImageFields DEF HasImage
<1> QED BY <1>0, <1>5, <1>6

LEMMA TarballsSound ==
  ASSUME NEW co, CheckoutTyped(co), NEW project \in Projects, co.tag[project] # Nil,
         NEW a \in LinuxTarballs(co, project), a.sum # Nil
  PROVE  Sound(a) /\ a.digest = Nil
<1>1. PICK arch \in Both : a = Archive(co, project, co.tag[project], <<"linux", arch>>, "linux", {arch})
  BY DEF LinuxTarballs
<1>2. co.build \in Nat /\ co.tag[project] \in Tags
  BY DEF CheckoutTyped
<1> QED BY <1>1, <1>2, ArchiveSound

LEMMA EtcdFresh ==
  ASSUME NEW co, CheckoutTyped(co), GetEtcdComponent(co) # Failed
  PROVE  /\ Fresh(GetEtcdComponent(co)) /\ HasImage(GetEtcdComponent(co))
         /\ LinuxTarballs(co, "etcd") \subseteq GetEtcdComponent(co)
<1> DEFINE t == co.tag["etcd"]
           i == Image("etcd-io", t, "etcd")
           S == GetEtcdComponent(co)
<1>1. S = Component(t, LinuxTarballs(co, "etcd"), {i})
  BY DEF GetEtcdComponent
<1>2. t # Nil => t \in Tags
  BY DEF CheckoutTyped, Projects
<1>3. t # Nil => \A a \in LinuxTarballs(co, "etcd") : a.sum # Nil => Sound(a) /\ a.digest = Nil
  BY TarballsSound DEF Projects
<1>4. t # Nil => Fresh({i})
  <2> SUFFICES ASSUME t # Nil PROVE Sound(i) /\ i.digest = Nil
    BY DEF Fresh
  <2>1. ImageOf(i) \in ImageIds
    BY <1>2, OurImage
  <2> QED BY <2>1, ImageSound, ImageFields
<1>5. S = LinuxTarballs(co, "etcd") \cup {i} /\ Fresh(S)
  <2> HIDE DEF i, S, t
  <2> QED BY <1>1, <1>3, <1>4, ComponentFresh DEF S
<1>6. HasImage(S)
  BY <1>5, ImageFields DEF HasImage
<1> QED BY <1>5, <1>6

LEMMA CniFresh ==
  ASSUME NEW co, CheckoutTyped(co), GetCniComponent(co) # Failed
  PROVE  /\ Fresh(GetCniComponent(co))
         /\ LinuxTarballs(co, "plugins") \subseteq GetCniComponent(co)
<1> DEFINE t == co.tag["plugins"]
<1>1. t # Nil => \A a \in LinuxTarballs(co, "plugins") : a.sum # Nil => Sound(a) /\ a.digest = Nil
  BY TarballsSound DEF Projects
<1>2. Fresh({})
  BY DEF Fresh
<1> HIDE DEF t
<1> QED BY <1>1, <1>2, ComponentFresh DEF GetCniComponent, t

LEMMA CorednsFresh ==
  ASSUME NEW co, CheckoutTyped(co), GetCorednsComponent(co) # Failed
  PROVE  Fresh(GetCorednsComponent(co)) /\ HasImage(GetCorednsComponent(co))
<1> DEFINE t == co.tag["coredns"]
           i == Image("coredns", t, "coredns")
           S == GetCorednsComponent(co)
<1>1. S = Component(t, {}, {i})
  BY DEF GetCorednsComponent
<1>2. t # Nil => t \in Tags
  BY DEF CheckoutTyped, Projects
<1>3. t # Nil => Fresh({i})
  <2> SUFFICES ASSUME t # Nil PROVE Sound(i) /\ i.digest = Nil
    BY DEF Fresh
  <2>1. ImageOf(i) \in ImageIds
    BY <1>2, OurImage
  <2> QED BY <2>1, ImageSound, ImageFields
<1>4. S = {} \cup {i} /\ Fresh(S)
  <2> HIDE DEF i, S, t
  <2> QED BY <1>1, <1>3, ComponentFresh DEF S
<1>5. HasImage(S)
  BY <1>4, ImageFields DEF HasImage
<1> QED BY <1>4, <1>5

LEMMA CsiFresh ==
  ASSUME NEW tag, NEW B, B # {}, "kubernetes-src.tar.gz" \notin B, NEW S, S = {Image(Csi, tag, b) : b \in B}
  PROVE  Fresh(S) /\ HasImage(S)
<1>1. Fresh(S)
  BY ImageSound, ImageFields DEF Fresh
<1>2. PICK b \in B : TRUE
  OBVIOUS
<1>3. Image(Csi, tag, b) \in S
  BY <1>2
<1> QED BY <1>1, <1>3, ImageFields DEF HasImage

LEMMA EveryComponent ==
  ASSUME NEW co, CheckoutTyped(co), NEW c \in Components, GetComponent(c, co) # Failed
  PROVE  /\ Fresh(GetComponent(c, co))
         /\ c # "cni-plugins" => HasImage(GetComponent(c, co))
         /\ Required(c, co) \subseteq GetComponent(c, co)
<1> c \in ComponentNames
  BY ComponentsAssumption
<1>1. CASE c = "kubernetes"
  <2>1. GetComponent(c, co) = GetKubernetesComponent(co)
    BY <1>1 DEF GetComponent
  <2> QED BY <1>1, <2>1, KubernetesFresh DEF Required
<1>2. CASE c = "kube-proxy"
  <2>1. GetComponent(c, co) = GetKubeProxyComponent(co)
    BY <1>2 DEF GetComponent
  <2> QED BY <1>2, <2>1, KubeProxyFresh DEF Required
<1>3. CASE c = "aws-iam-authenticator"
  <2>1. GetComponent(c, co) = GetAuthenticatorComponent(co)
    BY <1>3 DEF GetComponent
  <2> QED BY <1>3, <2>1, AuthenticatorFresh DEF Required
<1>4. CASE c = "livenessprobe"
  <2>1. GetComponent(c, co) = {Image(Csi, "v2.16.0-eksbuild.4", b) : b \in {"livenessprobe"}}
    BY <1>4 DEF GetComponent, GetLivenessprobeComponent
  <2> QED BY <1>4, <2>1, CsiFresh DEF Required
<1>5. CASE c = "external-attacher"
  <2>1. GetComponent(c, co) = {Image(Csi, "v4.9.0-eksbuild.3", b) : b \in {"csi-attacher"}}
    BY <1>5 DEF GetComponent, GetAttacherComponent
  <2> QED BY <1>5, <2>1, CsiFresh DEF Required
<1>6. CASE c = "external-provisioner"
  <2>1. GetComponent(c, co) = {Image(Csi, "v5.3.0-eksbuild.3", b) : b \in {"csi-provisioner"}}
    BY <1>6 DEF GetComponent, GetProvisionerComponent
  <2> QED BY <1>6, <2>1, CsiFresh DEF Required
<1>7. CASE c = "external-resizer"
  <2>1. GetComponent(c, co) = {Image(Csi, "v1.14.0-eksbuild.3", b) : b \in {"csi-resizer"}}
    BY <1>7 DEF GetComponent, GetResizerComponent
  <2> QED BY <1>7, <2>1, CsiFresh DEF Required
<1>8. CASE c = "node-driver-registrar"
  <2>1. GetComponent(c, co) = {Image(Csi, "v2.14.0-eksbuild.4", b) : b \in {"csi-node-driver-registrar"}}
    BY <1>8 DEF GetComponent, GetRegistrarComponent
  <2> QED BY <1>8, <2>1, CsiFresh DEF Required
<1>9. CASE c = "external-snapshotter"
  <2>1. GetComponent(c, co) = {Image(Csi, "v8.3.0-eksbuild.1", b) : b \in {"csi-snapshotter", "snapshot-controller"}}
    BY <1>9 DEF GetComponent, GetSnapshotterComponent
  <2> QED BY <1>9, <2>1, CsiFresh DEF Required
<1>10. CASE c = "cni-plugins"
  <2>1. GetComponent(c, co) = GetCniComponent(co)
    BY <1>10 DEF GetComponent
  <2> QED BY <1>10, <2>1, CniFresh DEF Required
<1>11. CASE c = "etcd"
  <2>1. GetComponent(c, co) = GetEtcdComponent(co)
    BY <1>11 DEF GetComponent
  <2> QED BY <1>11, <2>1, EtcdFresh DEF Required
<1>12. CASE c = "coredns"
  <2>1. GetComponent(c, co) = GetCorednsComponent(co)
    BY <1>12 DEF GetComponent
  <2> QED BY <1>12, <2>1, CorednsFresh DEF Required
<1> QED BY <1>1, <1>2, <1>3, <1>4, <1>5, <1>6, <1>7, <1>8, <1>9, <1>10, <1>11, <1>12 DEF ComponentNames

(* Which archives Kubernetes has does not depend on the checkout. *)
LEMMA SameKubernetesNames ==
  ASSUME NEW co, NEW other, NEW a \in KubernetesArchives(other)
  PROVE  \E b \in KubernetesArchives(co) : b.name = a.name
<1>0. \A o, name, os, arch, f : f = KFile(o, name, os, arch) => f.name = name
  BY DEF KFile, Archive
<1>1. CASE \E x \in OsArch : a \in Binaries(other, x)
  <2>0. PICK x \in OsArch : a \in Binaries(other, x)
    BY <1>1
  <2>1. PICK b \in KubernetesBinaries(x[1]) : a = KFile(other, <<"bin", x[1], x[2], b>>, x[1], {x[2]})
    BY <2>0 DEF Binaries
  <2> DEFINE f == KFile(co, <<"bin", x[1], x[2], b>>, x[1], {x[2]})
  <2>2. f \in Binaries(co, x)
    BY <2>1 DEF Binaries
  <2>3. f.name = a.name
    BY <1>0, <2>1
  <2> HIDE DEF f
  <2> QED BY <2>1, <2>2, <2>3, Kinds
<1>2. CASE \E x \in OsArch : a \in Tarballs(other, x)
  <2>0. PICK x \in OsArch : a \in Tarballs(other, x)
    BY <1>2
  <2>1. PICK b \in KubernetesTarballs(x[1]) : a = KFile(other, <<b, x[1], x[2]>>, x[1], {x[2]})
    BY <2>0 DEF Tarballs
  <2> DEFINE f == KFile(co, <<b, x[1], x[2]>>, x[1], {x[2]})
  <2>2. f \in Tarballs(co, x)
    BY <2>1 DEF Tarballs
  <2>3. f.name = a.name
    BY <1>0, <2>1
  <2> HIDE DEF f
  <2> QED BY <2>1, <2>2, <2>3, Kinds
<1>3. CASE \E arch \in Both : a \in Tars(other, arch)
  <2>1. PICK arch \in Both, b \in KubernetesImages \ {"pause"} :
          a = KFile(other, <<"bin", "linux", arch, b, "tar">>, "linux", {arch})
    BY <1>3 DEF Tars
  <2> DEFINE f == KFile(co, <<"bin", "linux", arch, b, "tar">>, "linux", {arch})
  <2>2. f \in Tars(co, arch)
    BY <2>1 DEF Tars
  <2>3. f.name = a.name
    BY <1>0, <2>1
  <2> HIDE DEF f
  <2> QED BY <2>1, <2>2, <2>3, Kinds
<1>4. CASE a = KFile(other, KubernetesSource, "", {})
  <2>1. PICK f : f = KFile(co, KubernetesSource, "", {})
    OBVIOUS
  <2>2. a.name = KubernetesSource /\ f.name = KubernetesSource
    BY <1>4, <2>1 DEF KFile, Archive
  <2>3. f \in KubernetesArchives(co)
    BY <2>1, Kinds
  <2> QED BY <2>2, <2>3
<1> QED BY <1>1, <1>2, <1>3, <1>4, Kinds

(* Nor do the other archives that are required. *)
LEMMA SameNames ==
  ASSUME NEW c, NEW co, NEW other, NEW a \in Required(c, other)
  PROVE  \E b \in Required(c, co) : b.name = a.name
<1>1. CASE c = "kubernetes"
  BY <1>1, SameKubernetesNames DEF Required
<1>0. ASSUME NEW o, NEW dir, NEW tag, NEW name, NEW os, NEW arch, NEW f, f = Archive(o, dir, tag, name, os, arch)
      PROVE  f.name = name
  BY <1>0 DEF Archive
<1>2. CASE c = "aws-iam-authenticator"
  <2> DEFINE File(o, x) == Archive(o, "aws-iam-authenticator", o.tag["aws-iam-authenticator"], x, x[1], {x[2]})
  <2>1. \A o : AuthenticatorArchives(o) = {File(o, x) : x \in OsArch}
    BY DEF AuthenticatorArchives
  <2>2. PICK x \in OsArch : a = File(other, x)
    BY <1>2, <2>1 DEF Required
  <2>3. PICK b : b = File(co, x)
    OBVIOUS
  <2>4. a.name = x /\ b.name = x
    BY <1>0, <2>2, <2>3
  <2> HIDE DEF File
  <2>5. b \in AuthenticatorArchives(co)
    BY <2>1, <2>3
  <2> QED BY <1>2, <2>4, <2>5 DEF Required
<1>3. ASSUME NEW project, a \in LinuxTarballs(other, project)
      PROVE  \E b \in LinuxTarballs(co, project) : b.name = a.name
  <2> DEFINE File(o, arch) == Archive(o, project, o.tag[project], <<"linux", arch>>, "linux", {arch})
  <2>1. \A o : LinuxTarballs(o, project) = {File(o, arch) : arch \in Both}
    BY DEF LinuxTarballs
  <2>2. PICK arch \in Both : a = File(other, arch)
    BY <1>3, <2>1
  <2>3. PICK b : b = File(co, arch)
    OBVIOUS
  <2>4. a.name = <<"linux", arch>> /\ b.name = <<"linux", arch>>
    BY <1>0, <2>2, <2>3
  <2> HIDE DEF File
  <2> QED BY <2>1, <2>3, <2>4
<1>4. CASE c = "cni-plugins"
  BY <1>3, <1>4 DEF Required
<1>5. CASE c = "etcd"
  BY <1>3, <1>5 DEF Required
<1> QED BY <1>1, <1>2, <1>4, <1>5 DEF Required

-----------------------------------------------------------------------------
(* The invariant *)

(* The digest, if there is one, is one the image's tag had while the tool ran. *)
Recent(a) ==
  a.type = "Image" /\ a.dir # Csi /\ a.digest # Nil =>
    a.digest \in began[ImageOf(a)]..registry[ImageOf(a)] /\ a.digest # 0

(* What the generated table promises, and a printed one keeps. *)
Listed(m) ==
  /\ \A c \in Components : \A a \in m[c] : Sound(a)
  /\ \A c \in Components \ {"cni-plugins"} : HasImage(m[c])
  /\ \A c \in Components : \A co : \A a \in Required(c, co) : \E b \in m[c] : b.name = a.name

Described(m) ==
  \A c \in Components : \A a \in m[c] : a.type = "Image" /\ a.dir # Csi => a.digest # Nil

Running ==
  /\ registry \in [ImageIds -> Nat] /\ runs \in Nat
  /\ rpc \in {"idle", "generate", "digests"}
  /\ rpc # "idle" => releasing \in Releases
  /\ rpc = "generate" => CheckoutTyped(checkout)
  /\ DOMAIN table = Components /\ DOMAIN published = Releases
  /\ rpc # "digests" => table = NoTable
(* Digests only grow, and the run knows those it started with. *)
Grown ==
  rpc # "idle" => began \in [ImageIds -> Nat] /\ \A i \in ImageIds : began[i] <= registry[i]
Working == rpc = "digests" => Listed(table) /\ \A c \in Components : \A a \in table[c] : Recent(a)
Printed == \A x \in Releases : published[x] # Nil => Listed(published[x]) /\ Described(published[x])

Inv == Running /\ Grown /\ Working /\ Printed

LEMMA InitInv == InitManifest => Inv
<1> SUFFICES ASSUME InitManifest PROVE Inv
  OBVIOUS
<1>1. Running
  BY DEF InitManifest, Running, NoTable
<1>2. Grown /\ Working /\ Printed
  BY DEF InitManifest, Grown, Working, Printed
<1> QED BY <1>1, <1>2 DEF Inv

LEMMA StartInv ==
  ASSUME Inv, NEW x \in Releases, NEW co \in Checkouts, Start(x, co)
  PROVE  Inv'
<1> USE DEF Inv
<1>1. rpc = "idle" /\ rpc' # "digests" /\ UNCHANGED <<registry, table, published>>
  BY DEF Start
<1>2. Grown' /\ Working' /\ Printed'
  <2>1. Working'
    BY <1>1 DEF Working
  <2>2. Printed'
    BY <1>1 DEF Printed
  <2>3. registry \in [ImageIds -> Nat] /\ (rpc' = "idle" \/ began' = registry)
    BY <1>1 DEF Start, Running
  <2>4. Grown'
    BY <1>1, <2>3 DEF Grown, ImageIds
  <2> QED BY <2>1, <2>2, <2>4
<1>3. runs \in Nat /\ runs' = runs + 1
  BY DEF Start, Running
<1>4. CASE UNCHANGED <<rpc, releasing, checkout, began>>
  BY <1>1, <1>2, <1>3, <1>4 DEF Running, NoTable
<1>5. CASE rpc' = "generate" /\ releasing' = x /\ checkout' = [co EXCEPT !.build = runs + 1]
  <2>1. CheckoutTyped(checkout')
    <3>1. co \in CheckoutType
      BY CheckoutsAssumption
    <3>2. checkout'.tag = co.tag /\ checkout'.imageVersion = co.imageVersion /\ checkout'.build = runs + 1
      BY <1>5, <3>1 DEF CheckoutType
    <3>3. co.tag \in [Projects -> Tags \cup {Nil}] /\ co.imageVersion \in Tags \cup {Nil}
      BY <3>1 DEF CheckoutType
    <3> QED BY <1>3, <3>2, <3>3 DEF CheckoutTyped
  <2>2. CheckoutTyped(checkout)'
    BY <2>1 DEF CheckoutTyped
  <2> QED BY <1>1, <1>2, <1>3, <1>5, <2>2 DEF Running, NoTable
<1> QED BY <1>2, <1>4, <1>5 DEF Start

LEMMA ExitInv ==
  ASSUME Inv, Exit, UNCHANGED <<registry, runs>>, DOMAIN published' = Releases, Printed'
  PROVE  Inv'
<1>1. rpc' = "idle" /\ table' = NoTable
  BY DEF Exit
<1>2. Running'
  BY <1>1 DEF Inv, Running, NoTable
<1>3. Working' /\ Grown'
  BY <1>1 DEF Working, Grown
<1> QED BY <1>2, <1>3 DEF Inv

LEMMA GenerateInv ==
  ASSUME Inv, Generate
  PROVE  Inv'
<1>1. rpc = "generate" /\ UNCHANGED <<registry, runs, published>>
  BY DEF Generate
<1>2. Printed'
  BY <1>1 DEF Inv, Printed
<1>3. DOMAIN published' = Releases
  BY <1>1 DEF Inv, Running
<1>4. CASE \E c \in Components : GetComponent(c, checkout) = Failed
  <2>1. Exit
    BY <1>4 DEF Generate
  <2> QED BY <1>1, <1>2, <1>3, <2>1, ExitInv
<1>5. CASE ~\E c \in Components : GetComponent(c, checkout) = Failed
  <2>1. /\ table' = [c \in Components |-> GetComponent(c, checkout)]
        /\ rpc' = "digests" /\ UNCHANGED <<releasing, checkout, began>>
    BY <1>5 DEF Generate
  <2>2. CheckoutTyped(checkout)
    BY <1>1 DEF Inv, Running
  <2>3. \A c \in Components : /\ table'[c] = GetComponent(c, checkout) /\ Fresh(table'[c])
                              /\ c # "cni-plugins" => HasImage(table'[c])
    BY <1>5, <2>1, <2>2, EveryComponent
  <2>4. ASSUME NEW c \in Components, NEW co, NEW a \in Required(c, co)
        PROVE  \E b \in table'[c] : b.name = a.name
    <3>1. Required(c, checkout) \subseteq table'[c]
      BY <1>5, <2>1, <2>2, EveryComponent
    <3>2. \E b \in Required(c, checkout) : b.name = a.name
      BY SameNames
    <3> QED BY <3>1, <3>2
  <2>5. Listed(table')
    BY <2>3, <2>4 DEF Listed, Fresh
  <2>6. \A c \in Components : \A a \in table'[c] : a.digest = Nil
    BY <2>3 DEF Fresh
  <2>7. Working'
    BY <2>5, <2>6 DEF Working, Recent
  <2>8. Running' /\ Grown'
    BY <1>1, <2>1 DEF Inv, Running, Grown, ImageIds
  <2> QED BY <1>2, <2>7, <2>8 DEF Inv
<1> QED BY <1>4, <1>5

LEMMA DescribeInv ==
  ASSUME Inv, NEW c \in Components, NEW a \in table[c], Describe(c, a)
  PROVE  Inv'
<1>1. rpc = "digests" /\ a \in Pending(c) /\ UNCHANGED <<registry, runs, published>>
  BY DEF Describe
<1>2. Printed'
  BY <1>1 DEF Inv, Printed
<1>3. DOMAIN published' = Releases
  BY <1>1 DEF Inv, Running
<1>4. CASE Exit
  BY <1>1, <1>2, <1>3, <1>4, ExitInv
<1>5. CASE /\ registry[ImageOf(a)] # 0
           /\ table' = [table EXCEPT ![c] = (@ \ {a}) \cup {[a EXCEPT !.digest = Digest(a)]}]
           /\ UNCHANGED <<rpc, releasing, checkout, began>>
  <2>1. Listed(table) /\ DOMAIN table = Components /\ \A d \in Components : \A b \in table[d] : Recent(b)
    BY <1>1 DEF Inv, Working, Running
  <2>2. Sound(a) /\ a.type = "Image" /\ a.dir # Csi
    BY <1>1, <2>1 DEF Listed, Pending, Images
  <2>3. ImageOf(a) \in ImageIds /\ registry[ImageOf(a)] \in Nat
    BY <2>2 DEF Sound, Inv, Running
  <2>4. PICK b : b = [a EXCEPT !.digest = Digest(a)]
    OBVIOUS
  <2>5. /\ AnyAsset(b) /\ b.digest = registry[ImageOf(a)]
        /\ b.type = a.type /\ b.dir = a.dir /\ b.tag = a.tag /\ b.name = a.name
        /\ b.os = a.os /\ b.arch = a.arch /\ b.sum = a.sum
    BY <2>2, <2>4, WithDigest DEF Sound, Digest
  <2>6. ImageOf(b) = ImageOf(a)
    BY <2>5 DEF ImageOf
  <2>7. Sound(b)
    BY <2>2, <2>5, <2>6 DEF Sound
  <2>8. b.digest \in began[ImageOf(b)]..registry[ImageOf(b)] /\ b.digest # 0
    <3>1. began[ImageOf(a)] \in Nat /\ began[ImageOf(a)] <= registry[ImageOf(a)]
      BY <1>1, <2>3 DEF Inv, Grown
    <3>2. \A k, d : k = ImageOf(b) /\ d = b.digest => k = ImageOf(a) /\ d = registry[ImageOf(a)]
      BY <2>5, <2>6
    <3> HIDE DEF ImageOf
    <3> QED BY <1>5, <2>3, <3>1, <3>2
  <2>9. /\ DOMAIN table' = Components /\ table'[c] = (table[c] \ {a}) \cup {b}
        /\ \A d \in Components : d # c => table'[d] = table[d]
    BY <1>5, <2>1, <2>4
  <2>10. \A d \in Components : \A e \in table'[d] : e = b \/ e \in table[d]
    BY <2>9
  <2>11. \A d \in Components \ {"cni-plugins"} : HasImage(table'[d])
    <3> SUFFICES ASSUME NEW d \in Components \ {"cni-plugins"} PROVE HasImage(table'[d])
      OBVIOUS
    <3>1. PICK e \in table[d] : e.type = "Image" /\ e.os = "linux" /\ e.arch = {"amd64", "arm64"}
      BY <2>1 DEF Listed, HasImage
    <3>2. CASE e = a /\ d = c
      BY <2>5, <2>9, <3>1, <3>2 DEF HasImage
    <3>3. CASE e # a \/ d # c
      BY <2>9, <3>1, <3>3 DEF HasImage
    <3> QED BY <3>2, <3>3
  <2>12. ASSUME NEW d \in Components, NEW co, NEW f \in Required(d, co)
         PROVE  \E e \in table'[d] : e.name = f.name
    <3>1. PICK e \in table[d] : e.name = f.name
      BY <2>1 DEF Listed
    <3> QED BY <2>5, <2>9, <3>1
  <2>13. Listed(table')
    BY <2>1, <2>7, <2>10, <2>11, <2>12 DEF Listed
  <2>14. \A d \in Components : \A e \in table'[d] : Recent(e)'
    BY <1>1, <1>5, <2>1, <2>8, <2>10 DEF Recent
  <2>15. Working'
    BY <2>13, <2>14 DEF Working
  <2>16. Running' /\ Grown'
    BY <1>1, <1>5, <2>9 DEF Inv, Running, Grown, ImageIds
  <2> QED BY <1>2, <2>15, <2>16 DEF Inv
<1> QED BY <1>4, <1>5 DEF Describe

LEMMA PrintInv ==
  ASSUME Inv, PrintManifest
  PROVE  /\ Inv' /\ rpc = "digests" /\ releasing \in Releases /\ Described(table)
         /\ published' = [published EXCEPT ![releasing] = table]
         /\ UNCHANGED registry
<1>1. /\ rpc = "digests" /\ Exit /\ UNCHANGED <<registry, runs>>
      /\ published' = [published EXCEPT ![releasing] = table]
      /\ \A c \in Components : Pending(c) = {}
  BY DEF PrintManifest
<1>2. releasing \in Releases /\ DOMAIN published = Releases /\ Listed(table)
  BY <1>1 DEF Inv, Running, Working
<1>3. Described(table)
  BY <1>1 DEF Described, Pending, Images
<1>4. DOMAIN published' = Releases
  BY <1>1, <1>2
<1>5. \A x \in Releases : published'[x] = IF x = releasing THEN table ELSE published[x]
  BY <1>1, <1>2
<1>6. Printed'
  BY <1>2, <1>3, <1>5 DEF Inv, Printed
<1> QED BY <1>1, <1>2, <1>3, <1>4, <1>6, ExitInv

LEMMA PushInv ==
  ASSUME Inv, NEW i \in Rebuilt, PushImage(i)
  PROVE  Inv'
<1>1. /\ registry' = [registry EXCEPT ![i] = @ + 1]
      /\ UNCHANGED <<rpc, releasing, checkout, runs, table, began, published>>
  BY DEF PushImage, toolVars
<1>2. registry \in [ImageIds -> Nat] /\ i \in ImageIds
  BY RegistryAssumption DEF Inv, Running
<1>3. registry' \in [ImageIds -> Nat] /\ \A j \in ImageIds : registry'[j] = IF j = i THEN registry[j] + 1 ELSE registry[j]
  BY <1>1, <1>2
<1>4. Running'
  BY <1>1, <1>3 DEF Inv, Running, NoTable, ImageIds
<1>5. Printed'
  BY <1>1 DEF Inv, Printed
<1>6. Working'
  <2> SUFFICES ASSUME rpc = "digests" PROVE Working'
    BY <1>1 DEF Working
  <2>1. Listed(table) /\ \A c \in Components : \A a \in table[c] : Sound(a) /\ Recent(a)
    BY DEF Inv, Working, Listed
  <2>2. ASSUME NEW a, Sound(a), Recent(a) PROVE Recent(a)'
    <3> SUFFICES ASSUME a.type = "Image", a.dir # Csi, a.digest # Nil
                 PROVE  a.digest \in began'[ImageOf(a)]..registry'[ImageOf(a)] /\ a.digest # 0
      BY DEF Recent
    <3>1. ImageOf(a) \in ImageIds
      BY <2>2 DEF Sound
    <3>2. a.digest \in began[ImageOf(a)]..registry[ImageOf(a)] /\ a.digest # 0
      BY <2>2 DEF Recent
    <3>3. began' = began /\ began[ImageOf(a)] \in Nat
      BY <1>1, <3>1 DEF Inv, Grown
    <3> HIDE DEF ImageOf
    <3> QED BY ONLY <1>2, <1>3, <3>1, <3>2, <3>3
  <2>3. \A c \in Components : \A a \in table'[c] : Recent(a)'
    BY <1>1, <2>1, <2>2
  <2>4. Listed(table')
    BY <1>1, <2>1
  <2> QED BY <2>3, <2>4 DEF Working
<1>7. Grown'
  <2> SUFFICES ASSUME rpc # "idle" PROVE began \in [ImageIds -> Nat] /\ \A j \in ImageIds : began[j] <= registry'[j]
    BY <1>1 DEF Grown, ImageIds
  <2>1. began \in [ImageIds -> Nat] /\ \A j \in ImageIds : began[j] <= registry[j]
    BY DEF Inv, Grown
  <2> QED BY <1>2, <1>3, <2>1
<1> QED BY <1>4, <1>5, <1>6, <1>7 DEF Inv

LEMMA StutterInv ==
  ASSUME Inv, UNCHANGED manifestVars
  PROVE  Inv'
<1>1. UNCHANGED <<registry, rpc, releasing, checkout, runs, table, began, published>>
  BY DEF manifestVars, toolVars
<1>2. Running'
  BY <1>1 DEF Inv, Running, NoTable, CheckoutTyped, ImageIds
<1>3. Working'
  BY <1>1 DEF Inv, Working, Recent
<1>4. Printed'
  BY <1>1 DEF Inv, Printed
<1>5. Grown'
  BY <1>1 DEF Inv, Grown, ImageIds
<1> QED BY <1>2, <1>3, <1>4, <1>5 DEF Inv

LEMMA NextInv ==
  ASSUME Inv, [NextManifest]_manifestVars
  PROVE  Inv'
<1>1. ASSUME NEW x \in Releases, NEW co \in Checkouts, Start(x, co) PROVE Inv'
  BY <1>1, StartInv
<1>2. CASE Generate
  BY <1>2, GenerateInv
<1>3. ASSUME NEW c \in Components, NEW a \in table[c], Describe(c, a) PROVE Inv'
  BY <1>3, DescribeInv
<1>4. CASE PrintManifest
  BY <1>4, PrintInv
<1>5. ASSUME NEW i \in Rebuilt, PushImage(i) PROVE Inv'
  BY <1>5, PushInv
<1>6. CASE UNCHANGED manifestVars
  BY <1>6, StutterInv
<1> QED BY <1>1, <1>2, <1>3, <1>4, <1>5, <1>6 DEF NextManifest

(* The invariant: what the generated table promises, describing keeps and printing *)
(* publishes.                                                                      *)
THEOREM Invariant == SpecManifest => []Inv
<1>1. Inv /\ [NextManifest]_manifestVars => Inv'
  BY NextInv
<1> QED BY <1>1, InitInv, PTL DEF SpecManifest

LEMMA InvWhole == Inv => PublishedWhole
<1> SUFFICES ASSUME Inv, NEW x \in Releases, published[x] # Nil
             PROVE  /\ \A c \in Components \ {"cni-plugins"}, arch \in Both :
                         UriCandidates(published[x], c, "image", "linux", arch) # {}
                    /\ \A c \in Components : \A a \in published[x][c] :
                         IF a.type = "Archive" THEN a.sum # Nil ELSE a.dir = Csi \/ a.digest # Nil
                    /\ \A c \in Components, co \in Checkouts :
                         {a.name : a \in Required(c, co)} \subseteq {a.name : a \in published[x][c]}
  BY DEF PublishedWhole
<1>1. Listed(published[x]) /\ Described(published[x])
  BY DEF Inv, Printed
<1>2. ASSUME NEW c \in Components \ {"cni-plugins"}, NEW arch \in Both
      PROVE  UriCandidates(published[x], c, "image", "linux", arch) # {}
  <2>1. PICK a \in published[x][c] : a.type = "Image" /\ a.os = "linux" /\ a.arch = {"amd64", "arm64"}
    BY <1>1 DEF Listed, HasImage
  <2>2. a \in UriCandidates(published[x], c, "image", "linux", arch)
    BY <2>1 DEF UriCandidates, SameType, Both
  <2> QED BY <2>2
<1>3. ASSUME NEW c \in Components, NEW a \in published[x][c]
      PROVE  IF a.type = "Archive" THEN a.sum # Nil ELSE a.dir = Csi \/ a.digest # Nil
  <2>1. Sound(a) /\ (a.type = "Image" /\ a.dir # Csi => a.digest # Nil)
    BY <1>1 DEF Listed, Described
  <2>2. a.type \in {"Archive", "Image"} /\ (a.type = "Archive" => a.sum \in Nat)
    BY <2>1 DEF Sound
  <2> QED BY <2>1, <2>2, NilAssumption
<1>4. ASSUME NEW c \in Components, NEW co \in Checkouts
      PROVE  {a.name : a \in Required(c, co)} \subseteq {a.name : a \in published[x][c]}
  BY <1>1 DEF Listed
<1> QED BY <1>2, <1>3, <1>4

(* But for kube-proxy's archives, a manifest is published whole or not at all. *)
THEOREM ManifestsWhole == SpecManifest => []PublishedWhole
BY Invariant, InvWhole, PTL

LEMMA StepFresh ==
  ASSUME Inv, [NextManifest]_manifestVars, NEW x \in Releases, published'[x] # published[x],
         NEW c \in Components, NEW a \in published'[x][c], a.type = "Image", a.dir # Csi
  PROVE  a.digest \in began[ImageOf(a)]..registry[ImageOf(a)] /\ a.digest # 0
<1>1. PrintManifest
  BY DEF NextManifest, Start, Generate, Describe, PushImage, manifestVars
<1>2. /\ rpc = "digests" /\ releasing \in Releases /\ Described(table)
      /\ published' = [published EXCEPT ![releasing] = table]
  BY <1>1, PrintInv
<1>3. DOMAIN published = Releases
  BY DEF Inv, Running
<1>4. published'[x] = table
  BY <1>2, <1>3
<1>5. Recent(a) /\ a.digest # Nil
  BY <1>2, <1>4 DEF Described, Inv, Working
<1> QED BY <1>5 DEF Recent

(* A published digest was the tag's when the run started, or is one the tag was    *)
(* given while the run lasted: none that was replaced before the run.              *)
THEOREM DigestsOfTheRun == SpecManifest => DigestsFresh
<1> DEFINE Step == \A x \in Releases : published'[x] # published[x] =>
                     \A c \in Components : \A a \in published'[x][c] :
                       a.type = "Image" /\ a.dir # Csi =>
                         /\ a.digest \in began[ImageOf(a)]..registry[ImageOf(a)]
                         /\ a.digest # 0
<1>1. Inv /\ [NextManifest]_manifestVars => [Step]_published
  BY StepFresh
<1> HIDE DEF Step
<1>2. SpecManifest => [][Step]_published
  BY <1>1, Invariant, PTL DEF SpecManifest
<1> QED BY <1>2 DEF DigestsFresh, Step

-----------------------------------------------------------------------------
(* The assets the component functions list are of the type of assets.       *)

LEMMA WordFacts ==
  /\ {"bin", "tar", "kube-proxy", "kube-proxy.exe", "aws-iam-authenticator", "etcd", "coredns"} \subseteq Words
  /\ Systems \subseteq Words /\ Both \subseteq Words
  /\ KubernetesImages \subseteq Words /\ CsiNames \subseteq Words
  /\ \A os \in Systems : KubernetesBinaries(os) \subseteq Words /\ KubernetesTarballs(os) \subseteq Words
  /\ KubernetesSource \in Seq(Words)
<1>1. KubernetesSource[1] \in Words
  BY DEF Words
<1>2. KubernetesSource = <<KubernetesSource[1]>>
  BY DEF KubernetesSource
<1>3. \A w \in Words : <<w>> \in Seq(Words)
  OBVIOUS
<1>4. KubernetesSource \in Seq(Words)
  BY <1>1, <1>2, <1>3
<1>5. \A os \in Systems : KubernetesBinaries(os) \subseteq Words /\ KubernetesTarballs(os) \subseteq Words
  BY DEF Words
<1>6. /\ {"bin", "tar", "kube-proxy", "kube-proxy.exe", "aws-iam-authenticator", "etcd", "coredns"} \subseteq Words
      /\ Systems \subseteq Words /\ Both \subseteq Words
      /\ KubernetesImages \subseteq Words /\ CsiNames \subseteq Words
  BY DEF Words
<1> QED BY <1>4, <1>5, <1>6

(* File names are sequences of words. *)
LEMMA NamesTyped ==
  ASSUME NEW v \in Words, NEW w \in Words, NEW x \in Words, NEW y \in Words, NEW z \in Words
  PROVE  /\ <<v>> \in Seq(Words) /\ <<v, w>> \in Seq(Words) /\ <<v, w, x>> \in Seq(Words)
         /\ <<v, w, x, y>> \in Seq(Words) /\ <<v, w, x, y, z>> \in Seq(Words)
OBVIOUS

LEMMA ArchiveTyped ==
  ASSUME NEW co, co.build \in Nat, NEW dir \in Dirs, NEW tag \in Tags, NEW name \in Seq(Words),
         NEW os \in Systems \cup {""}, NEW arch \in SUBSET Both
  PROVE  Archive(co, dir, tag, name, os, arch) \in Assets
<1>1. Sums(co, dir, name) \in Nat \cup {Nil}
  BY DEF Sums
<1> QED BY <1>1 DEF Archive, Assets

LEMMA ImageTyped ==
  ASSUME NEW dir \in Dirs, NEW tag \in Tags \cup CsiTags, NEW binary \in Words
  PROVE  Image(dir, tag, binary) \in Assets
<1>1. <<binary>> \in Seq(Words)
  BY NamesTyped
<1>2. {"amd64", "arm64"} \in SUBSET Both
  BY DEF Both
<1> QED BY <1>1, <1>2 DEF Image, Assets, Systems

LEMMA OsArchTyped ==
  ASSUME NEW x \in OsArch
  PROVE  /\ x[1] \in Systems /\ x[2] \in Both /\ x = <<x[1], x[2]>>
         /\ x[1] \in Words /\ x[2] \in Words /\ {x[2]} \in SUBSET Both
<1>1. x[1] \in Systems /\ x[2] \in Both /\ x = <<x[1], x[2]>>
  BY DEF OsArch, Both, Systems
<1> QED BY <1>1, WordFacts

LEMMA ComponentTyped ==
  ASSUME NEW tag, NEW archives, NEW images, Component(tag, archives, images) # Failed,
         tag # Nil => archives \subseteq Assets /\ images \subseteq Assets
  PROVE  Component(tag, archives, images) \subseteq Assets
BY DEF Component, Failed

LEMMA TagTyped ==
  ASSUME NEW co \in CheckoutType, NEW p \in Projects
  PROVE  co.tag[p] \in Tags \cup {Nil} /\ co.build \in Nat /\ CheckoutTyped(co)
BY DEF CheckoutType, CheckoutTyped

LEMMA KubernetesArchivesTyped ==
  ASSUME NEW co \in CheckoutType, co.tag["kubernetes"] # Nil
  PROVE  KubernetesArchives(co) \subseteq Assets
<1>1. co.tag["kubernetes"] \in Tags /\ co.build \in Nat
  BY TagTyped DEF Projects
<1>2. ASSUME NEW name \in Seq(Words), NEW os \in Systems \cup {""}, NEW arch \in SUBSET Both
      PROVE  KFile(co, name, os, arch) \in Assets
  BY <1>1, ArchiveTyped DEF KFile, Dirs
<1>3. ASSUME NEW x \in OsArch, NEW a \in Binaries(co, x) PROVE a \in Assets
  <2>1. PICK b \in KubernetesBinaries(x[1]) : a = KFile(co, <<"bin", x[1], x[2], b>>, x[1], {x[2]})
    BY <1>3 DEF Binaries
  <2>2. b \in Words /\ "bin" \in Words
    BY OsArchTyped, WordFacts
  <2>3. <<"bin", x[1], x[2], b>> \in Seq(Words)
    BY <2>2, OsArchTyped, NamesTyped
  <2> QED BY <1>2, <2>1, <2>3, OsArchTyped
<1>4. ASSUME NEW x \in OsArch, NEW a \in Tarballs(co, x) PROVE a \in Assets
  <2>1. PICK b \in KubernetesTarballs(x[1]) : a = KFile(co, <<b, x[1], x[2]>>, x[1], {x[2]})
    BY <1>4 DEF Tarballs
  <2>2. b \in Words
    BY OsArchTyped, WordFacts
  <2>3. <<b, x[1], x[2]>> \in Seq(Words)
    BY <2>2, OsArchTyped, NamesTyped
  <2> QED BY <1>2, <2>1, <2>3, OsArchTyped
<1>5. ASSUME NEW arch \in Both, NEW a \in Tars(co, arch) PROVE a \in Assets
  <2>1. PICK b \in KubernetesImages : a = KFile(co, <<"bin", "linux", arch, b, "tar">>, "linux", {arch})
    BY <1>5 DEF Tars
  <2>2. {"bin", "linux", arch, b, "tar"} \subseteq Words /\ "linux" \in Systems
    BY WordFacts DEF Systems
  <2>3. <<"bin", "linux", arch, b, "tar">> \in Seq(Words)
    BY <2>2, NamesTyped
  <2> QED BY <1>2, <2>1, <2>2, <2>3
<1>6. KFile(co, KubernetesSource, "", {}) \in Assets
  BY <1>2, WordFacts
<1> QED BY <1>3, <1>4, <1>5, <1>6, Kinds

LEMMA TarballsTyped ==
  ASSUME NEW co \in CheckoutType, NEW project \in Projects \cap Dirs, co.tag[project] # Nil
  PROVE  LinuxTarballs(co, project) \subseteq Assets
<1> SUFFICES ASSUME NEW arch \in Both
             PROVE  Archive(co, project, co.tag[project], <<"linux", arch>>, "linux", {arch}) \in Assets
  BY DEF LinuxTarballs
<1>1. co.tag[project] \in Tags /\ co.build \in Nat
  BY TagTyped
<1>2. arch \in Words /\ "linux" \in Words /\ "linux" \in Systems
  BY WordFacts DEF Systems
<1>3. <<"linux", arch>> \in Seq(Words)
  BY <1>2, NamesTyped
<1> QED BY <1>1, <1>2, <1>3, ArchiveTyped

LEMMA KubernetesTyped ==
  ASSUME NEW co \in CheckoutType, GetKubernetesComponent(co) # Failed
  PROVE  GetKubernetesComponent(co) \subseteq Assets
<1> DEFINE t == co.tag["kubernetes"]
           images == {Image("kubernetes", t, b) : b \in KubernetesImages}
<1>1. GetKubernetesComponent(co) = Component(t, KubernetesArchives(co), images)
  BY DEF GetKubernetesComponent
<1>2. t # Nil => t \in Tags
  BY TagTyped DEF Projects
<1>3. t # Nil => images \subseteq Assets
  <2> SUFFICES ASSUME t # Nil, NEW b \in KubernetesImages PROVE Image("kubernetes", t, b) \in Assets
    OBVIOUS
  <2>1. b \in Words /\ "kubernetes" \in Dirs
    BY WordFacts DEF Dirs
  <2> QED BY <1>2, <2>1, ImageTyped
<1>4. t # Nil => KubernetesArchives(co) \subseteq Assets
  BY KubernetesArchivesTyped
<1> HIDE DEF t, images
<1> QED BY <1>1, <1>3, <1>4, ComponentTyped

LEMMA KubeProxyTyped ==
  ASSUME NEW co \in CheckoutType, GetKubeProxyComponent(co) # Failed
  PROVE  GetKubeProxyComponent(co) \subseteq Assets
<1> DEFINE t == co.tag["kube-proxy"]
           k == co.tag["kubernetes"]
<1>1. /\ t # Nil /\ k # Nil
      /\ GetKubeProxyComponent(co) = {a \in KubeProxyArchives(co) : a.sum # Nil}
                                     \cup {Image("kubernetes", t, "kube-proxy")}
  BY DEF GetKubeProxyComponent
<1>2. t \in Tags /\ k \in Tags /\ co.build \in Nat
  BY <1>1, TagTyped DEF Projects
<1>3. ASSUME NEW name \in Seq(Words), NEW os \in {"linux", "windows"}, NEW arch \in Both
      PROVE  Archive(co, "kubernetes", k, name, os, {arch}) \in Assets
  BY <1>2, ArchiveTyped DEF Dirs, Systems
<1>4. ASSUME NEW arch \in Both
      PROVE  /\ <<"bin", "linux", arch, "kube-proxy">> \in Seq(Words)
             /\ <<"bin", "linux", arch, "kube-proxy", "tar">> \in Seq(Words)
  <2>1. {"bin", "linux", arch, "kube-proxy", "tar"} \subseteq Words
    BY WordFacts DEF Systems
  <2> QED BY <2>1, NamesTyped
<1>5. <<"bin", "windows", "amd64", "kube-proxy.exe">> \in Seq(Words) /\ "amd64" \in Both
  <2>1. {"bin", "windows", "amd64", "kube-proxy.exe"} \subseteq Words
    BY WordFacts DEF Systems, Both
  <2> QED BY <2>1, NamesTyped DEF Both
<1>6. KubeProxyArchives(co) \subseteq Assets
  <2> SUFFICES ASSUME NEW a \in KubeProxyArchives(co) PROVE a \in Assets
    OBVIOUS
  <2>1. \/ \E arch \in Both : a = Archive(co, "kubernetes", k, <<"bin", "linux", arch, "kube-proxy">>, "linux", {arch})
        \/ a = Archive(co, "kubernetes", k, <<"bin", "windows", "amd64", "kube-proxy.exe">>, "windows", {"amd64"})
        \/ \E arch \in Both : a = Archive(co, "kubernetes", k, <<"bin", "linux", arch, "kube-proxy", "tar">>, "linux", {arch})
    BY DEF KubeProxyArchives
  <2> HIDE DEF k
  <2> QED BY <1>3, <1>4, <1>5, <2>1
<1>7. Image("kubernetes", t, "kube-proxy") \in Assets
  BY <1>2, ImageTyped, WordFacts DEF Dirs
<1> QED BY <1>1, <1>6, <1>7

LEMMA AuthenticatorTyped ==
  ASSUME NEW co \in CheckoutType, GetAuthenticatorComponent(co) # Failed
  PROVE  GetAuthenticatorComponent(co) \subseteq Assets
<1> DEFINE t == co.tag["aws-iam-authenticator"]
           v == IF co.imageVersion = Nil THEN t ELSE co.imageVersion
           archives == {Archive(co, "aws-iam-authenticator", t, x, x[1], {x[2]}) : x \in OsArch}
           images == {Image("kubernetes-sigs", v, "aws-iam-authenticator")}
<1>1. GetAuthenticatorComponent(co) = Component(t, archives, images)
  BY DEF GetAuthenticatorComponent, AuthenticatorArchives
<1>2. (t # Nil => t \in Tags /\ v \in Tags) /\ co.build \in Nat
  BY TagTyped DEF Projects, CheckoutTyped
<1>3. t # Nil => archives \subseteq Assets
  <2> SUFFICES ASSUME t # Nil, NEW x \in OsArch
               PROVE  Archive(co, "aws-iam-authenticator", t, x, x[1], {x[2]}) \in Assets
    OBVIOUS
  <2>1. x \in Seq(Words)
    <3>1. <<x[1], x[2]>> \in Seq(Words)
      BY OsArchTyped, NamesTyped
    <3>2. x = <<x[1], x[2]>>
      BY OsArchTyped
    <3> QED BY ONLY <3>1, <3>2
  <2> QED BY <1>2, <2>1, OsArchTyped, ArchiveTyped DEF Dirs
<1>4. t # Nil => images \subseteq Assets
  BY <1>2, ImageTyped, WordFacts DEF Dirs
<1> HIDE DEF t, images, archives
<1> QED BY <1>1, <1>3, <1>4, ComponentTyped

LEMMA OneImageTyped ==
  ASSUME NEW co \in CheckoutType, NEW project \in Projects \cap Dirs \cap Words, NEW archives, NEW images,
         Component(co.tag[project], archives, images) # Failed,
         archives = {} \/ archives = LinuxTarballs(co, project),
         images = {} \/ \E dir \in Dirs : images = {Image(dir, co.tag[project], project)}
  PROVE  Component(co.tag[project], archives, images) \subseteq Assets
<1>1. co.tag[project] # Nil => co.tag[project] \in Tags
  BY TagTyped
<1>2. co.tag[project] # Nil => archives \subseteq Assets
  BY TarballsTyped
<1>3. co.tag[project] # Nil => images \subseteq Assets
  BY <1>1, ImageTyped
<1> QED BY <1>2, <1>3, ComponentTyped

LEMMA EveryComponentTyped ==
  ASSUME NEW co \in CheckoutType, NEW c \in Components, GetComponent(c, co) # Failed
  PROVE  GetComponent(c, co) \subseteq Assets
<1> c \in ComponentNames
  BY ComponentsAssumption
<1>1. CASE c = "kubernetes"
  <2>1. GetComponent(c, co) = GetKubernetesComponent(co)
    BY <1>1 DEF GetComponent
  <2> QED BY <2>1, KubernetesTyped
<1>2. CASE c = "kube-proxy"
  <2>1. GetComponent(c, co) = GetKubeProxyComponent(co)
    BY <1>2 DEF GetComponent
  <2> QED BY <2>1, KubeProxyTyped
<1>3. CASE c = "aws-iam-authenticator"
  <2>1. GetComponent(c, co) = GetAuthenticatorComponent(co)
    BY <1>3 DEF GetComponent
  <2> QED BY <2>1, AuthenticatorTyped
<1>4. CASE c \in {"livenessprobe", "external-attacher", "external-provisioner", "external-resizer",
                  "node-driver-registrar", "external-snapshotter"}
  <2>1. \E t \in CsiTags, B \in SUBSET CsiNames : GetComponent(c, co) = {Image(Csi, t, b) : b \in B}
    <3>1. CASE c = "livenessprobe"
      BY <3>1, ZenonT(60) DEF GetComponent, GetLivenessprobeComponent, CsiTags, CsiNames
    <3>2. CASE c = "external-attacher"
      BY <3>2 DEF GetComponent, GetAttacherComponent, CsiTags, CsiNames
    <3>3. CASE c = "external-provisioner"
      BY <3>3 DEF GetComponent, GetProvisionerComponent, CsiTags, CsiNames
    <3>4. CASE c = "external-resizer"
      BY <3>4 DEF GetComponent, GetResizerComponent, CsiTags, CsiNames
    <3>5. CASE c = "node-driver-registrar"
      BY <3>5 DEF GetComponent, GetRegistrarComponent, CsiTags, CsiNames
    <3>6. CASE c = "external-snapshotter"
      BY <3>6 DEF GetComponent, GetSnapshotterComponent, CsiTags, CsiNames
    <3> QED BY <1>4, <3>1, <3>2, <3>3, <3>4, <3>5, <3>6
  <2>2. Csi \in Dirs
    BY DEF Dirs
  <2> QED BY <2>1, <2>2, ImageTyped, WordFacts
<1>5. CASE c = "cni-plugins"
  <2>1. GetComponent(c, co) = GetCniComponent(co)
    BY <1>5 DEF GetComponent
  <2>2. "plugins" \in Projects \cap Dirs
    BY DEF Projects, Dirs
  <2>3. co.tag["plugins"] # Nil => LinuxTarballs(co, "plugins") \subseteq Assets
    BY <2>2, TarballsTyped
  <2> QED BY <2>1, <2>3, ComponentTyped DEF GetCniComponent
<1>6. CASE c = "etcd"
  <2>1. GetComponent(c, co) = GetEtcdComponent(co)
    BY <1>6 DEF GetComponent
  <2>2. "etcd" \in Projects \cap Dirs \cap Words /\ {"etcd-io", "coredns"} \subseteq Dirs
    BY WordFacts DEF Projects, Dirs
  <2> QED BY <2>1, <2>2, OneImageTyped DEF GetEtcdComponent
<1>7. CASE c = "coredns"
  <2>1. GetComponent(c, co) = GetCorednsComponent(co)
    BY <1>7 DEF GetComponent
  <2>2. "coredns" \in Projects \cap Dirs \cap Words /\ {"etcd-io", "coredns"} \subseteq Dirs
    BY WordFacts DEF Projects, Dirs
  <2> QED BY <2>1, <2>2, OneImageTyped, SMTT(30) DEF GetCorednsComponent
<1> QED BY <1>1, <1>2, <1>3, <1>4, <1>5, <1>6, <1>7 DEF ComponentNames

-----------------------------------------------------------------------------
(* The tool's variables have their types. *)

LEMMA InitTyped == InitManifest => ManifestTypeOK
<1> SUFFICES ASSUME InitManifest PROVE ManifestTypeOK
  OBVIOUS
<1>1. 0 \in 0..MaxRuns
  BY BoundsAssumption
<1>2. \A c \in Components : table[c] \subseteq Assets
  BY DEF InitManifest, NoTable
<1> QED BY <1>1, <1>2 DEF InitManifest, ManifestTypeOK

LEMMA ExitTyped ==
  ASSUME ManifestTypeOK, Exit, UNCHANGED <<registry, runs>>,
         \A x \in Releases : published'[x] # Nil => \A c \in Components : published'[x][c] \subseteq Assets
  PROVE  ManifestTypeOK'
<1>1. \A c \in Components : table'[c] \subseteq Assets
  BY DEF Exit, NoTable
<1>2. rpc' = "idle" /\ releasing' = Nil /\ checkout' = Nil /\ began' = Nil
  BY DEF Exit
<1>3. registry' \in [ImageIds -> Nat] /\ runs' \in 0..MaxRuns
  BY DEF ManifestTypeOK
<1>4. ImageIds' = ImageIds /\ Assets' = Assets /\ CheckoutType' = CheckoutType
  BY DEF ImageIds, Assets, CheckoutType
<1> QED BY <1>1, <1>2, <1>3, <1>4 DEF ManifestTypeOK

LEMMA StartTyped ==
  ASSUME ManifestTypeOK, NEW x \in Releases, NEW co \in Checkouts, Start(x, co)
  PROVE  ManifestTypeOK'
<1>1. runs' = runs + 1 /\ runs < MaxRuns /\ rpc = "idle" /\ UNCHANGED <<registry, table, published>>
  BY DEF Start
<1>2. runs' \in 0..MaxRuns /\ runs + 1 \in Nat
  BY <1>1, BoundsAssumption DEF ManifestTypeOK
<1>3. ASSUME NEW started, started = [co EXCEPT !.build = runs + 1]
      PROVE  started \in CheckoutType /\ started # Nil
  <2>1. co \in CheckoutType
    BY CheckoutsAssumption
  <2>2. started \in CheckoutType
    BY <1>2, <1>3, <2>1 DEF CheckoutType
  <2> QED BY <2>2, NilAssumption
<1>4. releasing' \in Releases \cup {Nil} /\ (rpc' # "idle" => releasing' # Nil)
  BY <1>1, NilAssumption DEF Start, ManifestTypeOK
<1>5. checkout' \in CheckoutType \cup {Nil} /\ (rpc' # "idle" => checkout' # Nil)
  BY <1>1, <1>3 DEF Start, ManifestTypeOK
<1>6. rpc' \in {"idle", "generate", "digests"}
  BY <1>1 DEF Start
<1>7. began' = began \/ began' = registry
  BY DEF Start
<1> QED BY <1>1, <1>2, <1>4, <1>5, <1>6, <1>7 DEF ManifestTypeOK

LEMMA GenerateTyped ==
  ASSUME Inv, ManifestTypeOK, Generate
  PROVE  ManifestTypeOK'
<1>1. rpc = "generate" /\ UNCHANGED <<registry, runs, published>>
  BY DEF Generate
<1>2. CASE \E c \in Components : GetComponent(c, checkout) = Failed
  <2>1. Exit
    BY <1>2 DEF Generate
  <2> QED BY <1>1, <2>1, ExitTyped DEF ManifestTypeOK
<1>3. CASE ~\E c \in Components : GetComponent(c, checkout) = Failed
  <2>1. /\ table' = [c \in Components |-> GetComponent(c, checkout)]
        /\ rpc' = "digests" /\ UNCHANGED <<releasing, checkout, began>>
    BY <1>3 DEF Generate
  <2>2. checkout \in CheckoutType
    BY <1>1 DEF ManifestTypeOK
  <2>3. \A c \in Components : table'[c] \subseteq Assets
    BY <1>3, <2>1, <2>2, EveryComponentTyped
  <2> QED BY <1>1, <2>1, <2>3 DEF ManifestTypeOK
<1> QED BY <1>2, <1>3

LEMMA DescribeTyped ==
  ASSUME Inv, ManifestTypeOK, NEW c \in Components, NEW a \in table[c], Describe(c, a)
  PROVE  ManifestTypeOK'
<1>1. rpc = "digests" /\ a \in Pending(c) /\ UNCHANGED <<registry, runs, published>>
  BY DEF Describe
<1>2. CASE Exit
  BY <1>1, <1>2, ExitTyped DEF ManifestTypeOK
<1>3. CASE /\ table' = [table EXCEPT ![c] = (@ \ {a}) \cup {[a EXCEPT !.digest = Digest(a)]}]
           /\ UNCHANGED <<rpc, releasing, checkout, began>>
  <2>1. Sound(a) /\ a.type = "Image" /\ a.dir # Csi
    BY <1>1 DEF Inv, Working, Listed, Pending, Images
  <2>2. Digest(a) \in Nat
    BY <2>1 DEF Sound, ManifestTypeOK, Digest
  <2>3. PICK d : d = Digest(a)
    OBVIOUS
  <2>4. a \in Assets
    BY DEF ManifestTypeOK
  <2>5. PICK b : b = [a EXCEPT !.digest = d]
    OBVIOUS
  <2>6. b \in Assets
    BY <2>2, <2>3, <2>4, <2>5 DEF Assets
  <2>7. DOMAIN table = Components
    BY DEF Inv, Running
  <2>8. table' = [table EXCEPT ![c] = (table[c] \ {a}) \cup {b}]
    BY <1>3, <2>3, <2>5
  <2>9. \A e \in Components : table'[e] \subseteq Assets
    BY <2>6, <2>7, <2>8 DEF ManifestTypeOK
  <2> QED BY <1>1, <1>3, <2>9 DEF ManifestTypeOK
<1> QED BY <1>2, <1>3 DEF Describe

LEMMA PrintTyped ==
  ASSUME Inv, ManifestTypeOK, PrintManifest
  PROVE  ManifestTypeOK'
<1>1. /\ Exit /\ UNCHANGED <<registry, runs>>
      /\ published' = [published EXCEPT ![releasing] = table]
  BY DEF PrintManifest
<1>2. DOMAIN published = Releases
  BY DEF Inv, Running
<1>3. \A x \in Releases : published'[x] = table \/ published'[x] = published[x]
  BY <1>1, <1>2
<1> QED BY <1>1, <1>3, ExitTyped DEF ManifestTypeOK

LEMMA PushTyped ==
  ASSUME ManifestTypeOK, NEW i \in Rebuilt, PushImage(i)
  PROVE  ManifestTypeOK'
<1>1. /\ registry' = [registry EXCEPT ![i] = @ + 1]
      /\ UNCHANGED <<rpc, releasing, checkout, runs, table, began, published>>
  BY DEF PushImage, toolVars
<1>2. i \in ImageIds
  BY RegistryAssumption
<1>3. registry' \in [ImageIds -> Nat]
  BY <1>1, <1>2 DEF ManifestTypeOK
<1> QED BY <1>1, <1>3 DEF ManifestTypeOK

LEMMA NextTyped ==
  ASSUME Inv, ManifestTypeOK, [NextManifest]_manifestVars
  PROVE  ManifestTypeOK'
<1>1. CASE UNCHANGED manifestVars
  BY <1>1 DEF manifestVars, toolVars, ManifestTypeOK
<1> QED BY <1>1, StartTyped, GenerateTyped, DescribeTyped, PrintTyped, PushTyped DEF NextManifest

(* Every variable of the tool has its type: whatever the component functions list  *)
(* is an asset with all its fields, when it is generated, described and published. *)
THEOREM ManifestTyped == SpecManifest => []ManifestTypeOK
<1>1. Inv /\ ManifestTypeOK /\ [NextManifest]_manifestVars => (Inv /\ ManifestTypeOK)'
  BY NextInv, NextTyped
<1> QED BY <1>1, InitInv, InitTyped, PTL DEF SpecManifest
=============================================================================
