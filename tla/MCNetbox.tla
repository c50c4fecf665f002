------------------------------ MODULE MCNetbox ------------------------------
EXTENDS Netbox

Dmi(k, s) == [kind |-> k, serial |-> s]
Files(p, b) == [product |-> p, board |-> b]

\* d2 carries a placeholder as its serial; d3 and d4 share one; S3 is no device's.
MCSerialOf == [d1 |-> "S1", d2 |-> "n/a", d3 |-> "S2", d4 |-> "S2"]
MCFilter ==
  [S1 |-> {"d1"}, S2 |-> {"d3", "d4"}, S3 |-> {"d2"}] @@ ("n/a" :> {"d2"})
MCHardware ==
  [h1 |-> {Files(Dmi("serial", "S1"), Dmi("missing", NoSerial))},
   h2 |-> {Files(Dmi("placeholder", "n/a"), Dmi("serial", "S1")),
           Files(Dmi("corrupt", NoSerial), Dmi("serial", "S3")),
           Files(Dmi("denied", NoSerial), Dmi("serial", "S2")),
           Files(Dmi("placeholder", "n/a"), Dmi("blank", NoSerial))}]
MCOneHost == [h1 |-> {Files(Dmi("serial", "S1"), Dmi("missing", NoSerial))}]
\* Of h1: an address is on two interfaces, or on one of them, beside another one.
MCNetworks ==
  [h1 |-> {[eth0 |-> {"a"}, eth1 |-> {"a"}], [eth0 |-> {}, eth1 |-> {"a", "b", "junk"}]}, h2 |-> {<<>>}]
\* An address moves to another interface and is never on two.
MCMoving == [h1 |-> {[eth0 |-> {"a"}], [eth1 |-> {"a", "b", "junk"}]}]
\* Three snapshots of h1, or two of which h2 sends one at least.
MCBudgets == {[h1 |-> 3, h2 |-> 0], [h1 |-> 1, h2 |-> 1], [h1 |-> 0, h2 |-> 2]}
MCThree == {[h1 |-> 3]}
=============================================================================
