---------------------------- MODULE MCSAPSystems ----------------------------
(* Instances of SAPPages for TLC. *)
EXTENDS SAPPages, TLC

CONSTANTS noid, unreadable

TwoHosts == <<"app1", "hana1">>

Keys == <<"id", "sid", "type", "profile", "instances", "databases", "host", "number", "database",
          "SAPDBHOST", "SAPGLOBALHOST", "dbs", "hdb", "dbname", "icm/server_port_0", "ASCS00", "D01", "HDB00">>

I(name, number, features, up) == [name |-> name, number |-> number, features |-> features, up |-> up]

(* An application on HANA, with an instance whose number is not known.     *)
HanaProfile == << <<<<"SAPDBHOST">>, "hana1">>, <<<<"dbs", "hdb", "dbname">>, "PRD">> >>
App(id, instances) ==
  [sid |-> "HA1", kind |-> "Application", profile |-> HanaProfile, unique |-> id,
   instances |-> instances, tenants |-> unreadable]
TwoInstances == {I("ASCS00", "00", "MESSAGESERVER", TRUE), I("D01", "", "ABAP", TRUE)}
OneStopped == {I("ASCS00", "00", "MESSAGESERVER", TRUE), I("D01", "01", "ABAP", FALSE)}
AllStopped == {I("ASCS00", "00", "MESSAGESERVER", FALSE)}

(* A database with so many tenants that their order matters.               *)
Tenants(h) ==
  [k \in 1 .. 11 |-> [database |-> IF k = 11 THEN "PRD" ELSE IF k = 1 THEN "SYSTEMDB" ELSE "",
                      host |-> h]]
Database(h, id, tenants) ==
  [sid |-> "PRD", kind |-> "Database", profile |-> << <<<<"SAPGLOBALHOST">>, "">> >>, unique |-> id,
   instances |-> {I("HDB00", "00", "HDB", TRUE)}, tenants |-> tenants]

(* One of its instances stops; all stop, so that it has the same           *)
(* identifier as another system that is stopped; or nothing is left.       *)
AppDisks ==
  {<<App("a1", TwoInstances), Database("app1", "d1", Tenants("app1"))>>,
   <<App("a1", OneStopped)>>,
   <<App("a1", AllStopped), [App(noid, AllStopped) EXCEPT !.sid = "HA2"]>>, <<>>}

HanaDisks(h) ==
  {<<Database(h, "d1", Tenants(h))>>, <<Database(h, noid, Tenants(h))>>,
   <<Database(h, "d1", unreadable)>>}

SomeAddresses == ("app1" :> "10.0.0.1") @@ ("hana1" :> "10.0.0.2")
SameText == {<<a, a>> : a \in {"10.0.0.1", "10.0.0.2", "10.0.0.20"}}
SomeNames == "hana1" :> "10.0.0.2"
SomeDisks == ("app1" :> AppDisks) @@ ("hana1" :> HanaDisks("hana1"))
=============================================================================
