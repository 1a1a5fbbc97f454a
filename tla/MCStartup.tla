----------------------------- MODULE MCStartup -----------------------------
(* Small instances of Startup: root, a user, and one with a name that      *)
(* starts with "root"; two links; an installed zone and one that is not.   *)
EXTENDS Startup

CONSTANTS root, u1, root2, k1, k2, h1, b1, b2, l2, d1, d2, x4, y4, x6, n1, eth, wlan,
          z1, z2

MCFirstBytes == [a \in V6 |-> x4]
MCFirstWords == [c \in LongFiles |-> b2]

WithKeys(p, ks) == [pw |-> p, keys |-> [k \in Keys |-> IF k \in ks THEN b1 ELSE NONE]]
Files(f) == [k \in Keys |-> IF k \in DOMAIN f THEN f[k] ELSE NONE]

UserData(r, u, v) == [i \in Users |-> IF i = root THEN r ELSE IF i = u1 THEN u ELSE v]
Datum(tz, ds, x, n, us) ==
    [tz |-> tz, search |-> ds, users |-> us,
     server |-> [s \in ServerNames |-> IF s = n1 THEN n
                                     ELSE IF s = x4 THEN x ELSE NONE]]

\* Users with and without keys, and nothing else.
AccountStartups ==
    {Datum(NONE, {}, NONE, NONE, UserData(r, u, v)) :
        r \in {NONE, WithKeys(NULL, {k1})},
        u \in {NONE, WithKeys(h1, {}), WithKeys(h1, {k1, k2}), WithKeys(NULL, {k2})},
        v \in {NONE, WithKeys(h1, {k1})}}

\* Search domains and servers.
ResolverStartups ==
    {Datum(NONE, ds, x, n, NoList) :
        ds \in SUBSET {d1, d2}, x \in {NONE, x4}, n \in {NONE, y4, x6}}

TimezoneStartups ==
    {Datum(tz, ds, NONE, NONE, UserData(NONE, u, NONE)) :
        tz \in Zones, ds \in {{}, {d1}}, u \in {NONE, WithKeys(h1, {})}}

MCStartups == AccountStartups \cup ResolverStartups \cup TimezoneStartups

Accounts0 ==
    /\ db = [u \in Users |-> IF u = root THEN Locked ELSE NONE]
    /\ home = {}
    /\ ssh = [u \in Users |-> NoDir]
    /\ hidden = {}
Resolver0 ==
    /\ domains = [l \in Links |-> {}]
    /\ servers = [l \in Links |-> {}]
Timezone0 == localtime = z1

AccountInstances ==
    /\ startup \in AccountStartups
    /\ db \in {[u \in Users |-> IF u = root THEN Locked
                                ELSE IF u \in S THEN h1 ELSE NONE] :
               S \in SUBSET {u1, root2}}
    /\ home \in SUBSET {u1, root2}
    /\ ssh \in {[u \in Users |-> IF u = root THEN r
                                 ELSE IF u \notin home THEN NoDir
                                 ELSE IF u = u1 THEN f ELSE v] :
                r \in {NoDir, Files([k \in {k1} |-> b2])},
                f \in {NoDir, Files(<<>>), Files([k \in {k1} |-> l2]),
                       Files([k \in {k1} |-> Torn]), Files([k \in {k2} |-> b2])},
                v \in {NoDir, Files([k \in {k2} |-> b2])}}
    /\ hidden \in {{}, {u1} \cap In(db)}
    /\ Resolver0 /\ Timezone0

ResolverInstances ==
    /\ startup \in ResolverStartups
    /\ domains \in {[l \in Links |-> IF l = eth THEN S ELSE T] :
                     S \in SUBSET {d1, d2}, T \in SUBSET {d1}}
    /\ servers \in {[l \in Links |-> IF l = eth THEN S ELSE T] :
                     S \in SUBSET {x4}, T \in SUBSET {x4, x6}}
    /\ Accounts0 /\ Timezone0

TimezoneInstances ==
    /\ startup \in TimezoneStartups
    /\ localtime \in Zones \cup {NoFile, Foreign}
    /\ Accounts0 /\ Resolver0

SmallInit ==
    /\ AccountInstances \/ ResolverInstances \/ TimezoneInstances
    /\ group = In(db) /\ errno = "other"
    /\ Init

SmallSpec == SmallInit /\ [][Next]_vars /\ WF_vars(Step)

\* /etc/localtime is a link to an installed zone.
ZoneSpec == TimezoneInstances /\ localtime = z1 /\ group = In(db)
              /\ errno = "other" /\ Init /\ [][Next]_vars
=============================================================================
