------------------------------ MODULE MCNetwork ------------------------------
\* Two tasks on a host with two interfaces, three addresses and three tables.
EXTENDS Network, TLC

NoRows   == [rows |-> [i \in Iface |-> None], rev |-> [i \in Iface |-> 0]]
Row(addrs, enabled, table) == [addrs |-> addrs, enabled |-> enabled, table |-> table]
Rows2(r1, r2) == [rows |-> <<r1, r2>>, rev |-> <<1, 1>>]
St(a, table)  == [addrs |-> {a}, table |-> table]

Linked(xinas, foreign, up) ==
    Bound([xinas |-> xinas, foreign |-> foreign, addrs |-> [i \in Iface |-> {}], rules |-> {},
           linked |-> up], up)

Ours  == <<St(1, 1), St(2, 2)>>
Empty == <<None, None>>
DayOne == Linked(Ours, Empty, {1, 2})
Half   == Linked(Ours, Empty, {1})
Twice  == Linked(Ours, <<St(3, None), None>>, {1, 2})
Others == Linked(None, <<None, St(2, None)>>, {1, 2})
Off    == Linked(<<St(1, 1), None>>, Empty, {1, 2})
OffRows == Rows2(Row({1}, TRUE, 1), Row({2}, FALSE, 2))
DayRows == Rows2(Row({1}, TRUE, 1), Row({2}, TRUE, 2))

Update(i, addrs, enabled, cleanup) ==
    [kind |-> "net.iface.update", iface |-> i, addrs |-> addrs, enabled |-> enabled, cleanup |-> cleanup]
Pool(start, cleanup) == [kind |-> "net.pool.apply", start |-> start, cleanup |-> cleanup]

U1    == Update(1, {2}, None, FALSE)
U1c   == Update(1, {3}, None, TRUE)
U2    == Update(2, {3}, None, FALSE)
Off2  == Update(2, None, FALSE, FALSE)
Pool2 == Pool(2, TRUE)
Pool3 == Pool(3, FALSE)

Case(h, d, j1, j2) == [host |-> h, desired |-> d, job |-> [t \in Task |-> IF t = "t1" THEN j1 ELSE j2]]
AllCases ==
    {Case(DayOne, NoRows, U1c, U2), Case(DayOne, DayRows, U1c, U2), Case(DayOne, NoRows, U1, Off2), Case(DayOne, NoRows, U2, Pool2),
     Case(Half, NoRows, U1c, Off2), Case(Twice, NoRows, U1c, U2), Case(Twice, NoRows, Off2, Pool2),
     Case(Others, NoRows, U1, U2), Case(Others, NoRows, U1c, Pool3),
     Case(Off, OffRows, U1, U2), Case(Off, OffRows, Off2, Pool3)}

\* An address that is taken by an interface switched off, which then changes it.
OffCases == {Case(Off, OffRows, U1, U2)}

Hand == {St(2, None)}
=============================================================================
