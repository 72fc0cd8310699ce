--------------------------- MODULE MCContainerHost ---------------------------
(* Instances of ContainerHost for TLC. *)
EXTENDS ContainerHost

CONSTANTS s1, s2, v1, v2, old, new, own, build

\* A -WindowsImage request from the downloaded media; a -VhdPath one with a
\* link, with a file whose name gives no version (own), with one whose name
\* does (build) and a -WimPath, and a staged NanoServer.
FromIso(v) == [vm |-> v, brand |-> "ServerDatacenterCore", hyperv |-> FALSE,
               origin |-> "iso", wimPath |-> FALSE, staging |-> FALSE,
               version |-> old]
FromLink(v) == [FromIso(v) EXCEPT !.origin = "link"]
FromFile(v) == [FromIso(v) EXCEPT !.origin = own]
FromBuild(v) == [FromIso(v) EXCEPT !.origin = build, !.version = new,
                                   !.wimPath = TRUE]
NanoStaged(v) == [FromIso(v) EXCEPT !.brand = "NanoServer", !.staging = TRUE]

\* One session, one run after another, of every kind and two versions.
SequentialRequests ==
  [s \in Session |-> {FromIso(v1), FromLink(v1), FromBuild(v2), NanoStaged(v2)}]

\* Two sessions that want the same image for a VM of their own.
TwoSessionRequests ==
  [s \in Session |-> {FromFile(IF s = s1 THEN v1 ELSE v2)}]

=============================================================================
