----------------------------- MODULE Discovery ------------------------------
(***************************************************************************)
(* What the discoveries of the agent ask their host for (agent/discovery,  *)
(* internal/cloud, internal/subscription, internal/sapsystem), and what    *)
(* they make of a question that is not answered: broken is the set of      *)
(* these.  Module ClusterDetails has the questions of the cluster's        *)
(* discovery one by one.                                                   *)
(***************************************************************************)
EXTENDS Integers

Questions ==
  {"cluster", "chassis-asset-tag", "system-version", "bios-vendor", "metadata service",
   "SUSEConnect", "/usr/sap", "interfaces", "addresses", "os", "memory", "cpus", "sockets"}

Error == "error"
None == "none"

(* dmidecode is asked for one provider after the other; what is not        *)
(* answered is an error, although the next question could be.              *)
identifyAzure(provider, broken) ==
  IF "chassis-asset-tag" \in broken THEN Error ELSE IF provider = "azure" THEN "azure" ELSE None

identifyAws(provider, broken) ==
  IF "system-version" \in broken THEN Error ELSE IF provider = "aws" THEN "aws" ELSE None

identifyGcp(provider, broken) ==
  IF "bios-vendor" \in broken THEN Error ELSE IF provider = "gcp" THEN "gcp" ELSE None

IdentifyCloudProvider(provider, broken) ==
  LET azure == identifyAzure(provider, broken)
      aws == identifyAws(provider, broken)
  IN  IF azure # None THEN azure ELSE IF aws # None THEN aws ELSE identifyGcp(provider, broken)

(* The request, its body, or the JSON in it. *)
NewAzureMetadataFails(broken) == "metadata service" \in broken

(* Azure is the only provider that is asked for more. *)
NewCloudInstanceFails(provider, broken) ==
  LET identified == IdentifyCloudProvider(provider, broken)
  IN  identified = Error \/ (identified = "azure" /\ NewAzureMetadataFails(broken))

(* SUSEConnect fails, or what it prints is not a list of subscriptions. *)
NewSubscriptionsFails(broken) == "SUSEConnect" \in broken

(* A host without /usr/sap has no SAP system; one that cannot be read is   *)
(* an error.                                                               *)
findSystemsFails(broken) == "/usr/sap" \in broken

(* An interface whose addresses cannot be read has none.                   *)
getHostIpAddressesFails(broken) == "interfaces" \in broken

(* What is published of a host as empty, or as zero, without an error.     *)
LeftEmpty(broken) == broken \cap {"addresses", "cpus", "sockets"}

(* These have no answer then, which is used all the same: the agent dies.  *)
Panics(broken) == broken \cap {"os", "memory"}

(* The discovery of a topic returns an error before it has stored anything.*)
LookFails(topic, provider, broken) ==
  \/ topic = "cluster" /\ "cluster" \in broken
  \/ topic = "sapsystem" /\ findSystemsFails(broken)
  \/ topic = "cloud" /\ NewCloudInstanceFails(provider, broken)
  \/ topic = "subscription" /\ NewSubscriptionsFails(broken)
  \/ topic = "host" /\ getHostIpAddressesFails(broken)

=============================================================================
