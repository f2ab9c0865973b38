----------------------------- MODULE Manifests -----------------------------
(***************************************************************************)
(* Amending a cargo manifest (internal/clearance manifest.go over          *)
(* BuildManifest of model.go).  A manifest is kept in the order of its     *)
(* containers and hashed in this order, so it is a function: container to  *)
(* item, or to none.                                                       *)
(***************************************************************************)
EXTENDS Integers, SequencesExt

CONSTANTS
  ContainerNos,     \* container numbers as a client may write them
  Canonical,        \* each one trimmed and in upper case
  Items,            \* items as a client may write them
  CompleteItems     \* those with an HS code, a description and positive counts

NoItem == "none"
NoNumber == ""

ASSUME ManifestsAssumption ==
  /\ IsFiniteSet(ContainerNos)
  /\ Canonical \in [ContainerNos -> ContainerNos \cup {NoNumber}]
  /\ \A c \in ContainerNos :
       Canonical[c] # NoNumber => Canonical[Canonical[c]] = Canonical[c]
  /\ NoItem \notin Items

VARIABLE manifest   \* two manifests of one voyage, each built on its own

-----------------------------------------------------------------------------
Versions == {"before", "after"}
NoManifest == [c \in ContainerNos |-> NoItem]
Has(m, c) == m[c] # NoItem

\* BuildManifest takes the container numbers as they are written.
BuildManifestOK(m) ==
  /\ m # NoManifest
  /\ \A c \in ContainerNos : Has(m, c) => c # NoNumber /\ m[c] \in CompleteItems

Changes ==
  [container : ContainerNos, remove : BOOLEAN, replacement : Items \cup {NoItem}]

\* One change of AmendManifest, which looks its container up in upper case.
ChangeOK(m, change) ==
  /\ Canonical[change.container] # NoNumber
  /\ IF change.remove
       THEN Has(m, Canonical[change.container]) /\ change.replacement = NoItem
       ELSE change.replacement # NoItem

\* The items after the changes, of which no two are for one container.
Amended(m, changes) ==
  [c \in ContainerNos |->
     IF \E n \in DOMAIN changes : Canonical[changes[n].container] = c
       THEN changes[CHOOSE n \in DOMAIN changes :
                      Canonical[changes[n].container] = c].replacement
       ELSE m[c]]
AmendOK(m, changes) ==
  /\ changes # <<>>
  /\ \A k, n \in DOMAIN changes :
       Canonical[changes[k].container] = Canonical[changes[n].container] => k = n
  /\ \A n \in DOMAIN changes : ChangeOK(m, changes[n])
  /\ BuildManifestOK(Amended(m, changes))

\* Fault: an item that only changed is not reported.
CompareKeys(before, after) ==
  {[container |-> c, remove |-> ~Has(after, c), replacement |-> after[c]] :
     c \in {d \in ContainerNos : Has(before, d) # Has(after, d)}}
\* CompareManifests: at most one change for each container.
CompareManifests(before, after) ==
  {[container |-> c, remove |-> ~Has(after, c), replacement |-> after[c]] :
     c \in {d \in ContainerNos : before[d] # after[d]}}

-----------------------------------------------------------------------------
BuildManifest(v, m) ==
  /\ manifest[v] = NoManifest
  /\ BuildManifestOK(m)
  /\ manifest' = [manifest EXCEPT ![v] = m]

AmendManifest(v, changes) ==
  /\ manifest[v] # NoManifest
  /\ AmendOK(manifest[v], changes)
  /\ manifest' = [manifest EXCEPT ![v] = Amended(@, changes)]

ManifestInit == manifest = [v \in Versions |-> NoManifest]

ManifestNext ==
  \E v \in Versions :
    \/ \E m \in [ContainerNos -> Items \cup {NoItem}] : BuildManifest(v, m)
    \/ \E first \in Changes : AmendManifest(v, <<first>>)
    \/ \E first \in Changes, second \in Changes :
         AmendManifest(v, <<first, second>>)

ManifestSpec == ManifestInit /\ [][ManifestNext]_manifest

-----------------------------------------------------------------------------
\* What CompareManifests reports between two manifests, built and amended
\* apart, is the amendment that leads from one to the other exactly if each
\* container it names is written in the canonical way.  BuildManifest accepts
\* other ways, which AmendManifest does not find: there the report is refused,
\* or applying it leads to another manifest.
AmendRoundTrip ==
  LET before == manifest["before"]
      after == manifest["after"]
      changes == CompareManifests(before, after)
      list == SetToSeq(changes)
  IN before # NoManifest /\ after # NoManifest =>
       IF changes = {} THEN before = after
       ELSE AmendOK(before, list) /\ Amended(before, list) = after
              <=> \A change \in changes :
                    Canonical[change.container] = change.container
=============================================================================
