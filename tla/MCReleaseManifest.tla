-------------------------- MODULE MCReleaseManifest --------------------------
(* Instances of ReleaseManifest for TLC. *)
EXTENDS ReleaseManifest, TLC

At(t) == [p \in Projects |-> t]
Plain(t) == [tag |-> At(t), imageVersion |-> Nil, versionFile |-> TRUE, cdn |-> TRUE,
             lost |-> {}, build |-> 0]

\* Complete builds, with and without tags of their own for kube-proxy and the
\* authenticator's image, one lacking kube-proxy.exe; and builds that lack the source's
\* sums, those of an etcd tarball, CoreDNS's tag, the version file, or a URL that parses.
SomeCheckouts ==
  {Plain("v1"), Plain("v2"),
   [Plain("v1") EXCEPT !.tag["kube-proxy"] = "v2", !.imageVersion = "v2",
      !.lost = {<<"kubernetes", <<"bin", "windows", "amd64", "kube-proxy.exe">>>>}],
   [Plain("v2") EXCEPT !.lost = {<<"kubernetes", KubernetesSource>>}],
   [Plain("v2") EXCEPT !.lost = {<<"etcd", <<"linux", "arm64">>>>}],
   [Plain("v2") EXCEPT !.tag["coredns"] = Nil],
   [Plain("v2") EXCEPT !.versionFile = FALSE],
   [Plain("v2") EXCEPT !.cdn = FALSE]}

Moving == {<<"kubernetes", <<"kube-scheduler">>, "v1">>, <<"kubernetes", <<"kube-proxy">>, "v2">>}
\* The authenticator's image was pushed under IMAGE_VERSION only.
Missing == {<<"kubernetes-sigs", <<"aws-iam-authenticator">>, "v1">>}
=============================================================================
