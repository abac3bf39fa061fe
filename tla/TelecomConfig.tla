----------------------------- MODULE TelecomConfig -----------------------------
(***************************************************************************)
(* ci/telecom_cfg.py, telecom_ran.py, telecom_rf.py and the adapters: an   *)
(* artifact (Helm values, or the NRM's XML) is projected onto one model of *)
(* the network, the declared rules look for breaches in it, waivers cover  *)
(* some, and what is left decides the verdict.  What a section does not    *)
(* state is Unset.  An address block is its first and last address.         *)
(***************************************************************************)
EXTENDS Integers, Sequences, FiniteSets, SequencesExt, FiniteSetsExt

CONSTANTS Graded,      \* by family of cases, what is graded: [artifact, spec]
          Params,      \* the rules' parameters
          Today,
          Nrb,         \* per <<bandwidth, spacing>>: resource blocks
          MaxCosite,   \* _MAX_COSITE
          Unset

VARIABLE cfg

Overlap(a, b) == a[1] <= b[2] /\ b[1] <= a[2]
Addresses(a) == a[1]..a[2]
Breach(rule, check, sev, at) == [rule |-> rule, check |-> check, severity |-> sev, at |-> at]

-----------------------------------------------------------------------------
(* The adapters.                                                           *)

\* SD ffffff means there is none; without an SST there is no slice.
canonical_snssai(s) == IF s[1] = Unset THEN {} ELSE IF s[2] \in {Unset, 16777215} THEN {<<s[1]>>} ELSE {s}
Slices(ss) == UNION {canonical_snssai(s) : s \in ss}

\* Relations under an NRCellDU are that cell's.  Those under an NRCellCU name a
\* gNB and a local id, which is unique in the gNB only; of two cells with the
\* same pair the last has them, and a relation without a target is dropped.
AttachByLocal(cells, r) ==   \* bug: a local id is taken to be unique
  IF r.du # Unset THEN {r.du}
  ELSE LET named == {i \in DOMAIN cells : cells[i].local = r.local}
       IN  IF r.target = Unset \/ named = {} THEN {} ELSE {Max(named)}

_attach_relations(cells, r) ==
  IF r.du # Unset THEN {r.du}
  ELSE LET named == {i \in DOMAIN cells : cells[i].gnb = r.gnb /\ cells[i].local = r.local}
       IN  IF r.target = Unset \/ named = {} THEN {} ELSE {Max(named)}

\* The first cell of that name or local id, else the first with that PCI.
_resolve(cells, target) ==
  LET named == {i \in DOMAIN cells : target \in {cells[i].name, cells[i].local}}
      byPci == {i \in DOMAIN cells : target # Unset /\ cells[i].pci = target}
  IN  IF named # {} THEN Min(named) ELSE IF byPci # {} THEN Min(byPci) ELSE Unset

\* Slices, PLMNs and tracking areas that cannot be read are left out; the
\* slices of an AMF are kept per PLMN, which the NRM's adapter does not do.
_amf(a) ==
  IF a.amf = Unset THEN Unset
  ELSE [a.amf EXCEPT !.slices = IF a.nrm THEN {} ELSE UNION {Slices(p.slices) : p \in {p \in @ : p.plmn # Unset}},
                     !.tais = {t \in @ : Unset \notin {t[1], t[2]}}]

_walk(a) ==
  [i \in DOMAIN a.cells |->
     {[to |-> _resolve(a.cells, r.target), ho |-> r.ho] : r \in {r \in a.rels : i \in _attach_relations(a.cells, r)}}]

\* The model of the network.
normalize(a) ==
  [a EXCEPT
     !.smf = IF @ = Unset THEN Unset ELSE [@ EXCEPT !.slices =
               [s \in Slices(DOMAIN a.smf.slices) |->
                  UNION {a.smf.slices[r] : r \in {r \in DOMAIN a.smf.slices : s \in canonical_snssai(r)}}]],
     !.nssf = IF @ = Unset THEN Unset ELSE Slices(@),
     !.amf = _amf(a),
     !.rels = _walk(a)]

Neighbours(n, c) == {r.to : r \in n.rels[c]} \ {Unset}

-----------------------------------------------------------------------------
(* The Core rules.                                                         *)

Served(n) == IF n.smf = Unset THEN {} ELSE DOMAIN n.smf.slices
rule_snssai_consistency(n, sev) ==
  IF Served(n) = {} THEN {}
  ELSE (IF n.nssf = Unset
          THEN {Breach("snssai", "no-nssf", IF Params.require_nssf THEN sev ELSE "warning", Unset)}
        ELSE {Breach("snssai", "smf-vs-nssf", sev, s) : s \in Served(n) \ n.nssf})
       \cup (IF n.amf = Unset THEN {}
             ELSE {Breach("snssai", "smf-vs-amf", sev, s) : s \in Served(n) \ n.amf.slices}
                  \cup {Breach("snssai", "nssf-vs-amf", "warning", s)
                          : s \in (IF n.nssf = Unset THEN {} ELSE n.nssf) \ n.amf.slices})
       \cup {Breach("snssai", "slice-upf", sev, s) :
               s \in {s \in Served(n) : \E d \in n.smf.slices[s] : \A u \in n.smf.pool : u # {} /\ d \notin u}}

\* One sweep over the pools by their first address, the wider first; the one
\* that reaches furthest is remembered.
BySize(ss) == SortSeq(ss, LAMBDA x, y : x.net[1] < y.net[1] \/ (x.net[1] = y.net[1] /\ x.net[2] > y.net[2]))
Agree(x, y) == x.dnn # "" /\ x.dnn = y.dnn /\ x.net = y.net
Sweep(ss) ==
  FoldLeft(LAMBDA acc, s :
             [clash |-> acc.clash \/ (acc.active # Unset /\ s.net[1] <= acc.active.net[2] /\ ~Agree(acc.active, s)),
              active |-> IF acc.active = Unset THEN s ELSE IF s.net[2] > acc.active.net[2] THEN s ELSE acc.active],
           [clash |-> FALSE, active |-> Unset], BySize(ss))

rule_ue_pool_sanity(n, sev) ==
  IF n.smf = Unset THEN {}
  ELSE LET used == UNION (Range(n.smf.slices) \cup n.smf.pool)
           pooled == {s.dnn : s \in {s \in ToSet(n.sessions) : s.of = "smf"}}
       IN  (IF "" \in pooled THEN {} ELSE {Breach("pool", "dnn-pool", sev, d) : d \in used \ pooled})
           \cup (IF Sweep(n.sessions).clash THEN {Breach("pool", "pool-overlap", sev, Unset)} ELSE {})
           \cup {Breach("pool", "pool-size", "warning", s.dnn)
                   : s \in {s \in ToSet(n.sessions) : s.net[2] - s.net[1] - 1 < Params.min_pool_hosts}}

rule_upf_interface_separation(n, sev) ==
  IF n.upf = Unset THEN {}
  ELSE LET Meet(x, y) == \E a \in x, b \in y : Overlap(a, b) IN
       (IF {} \in {n.upf.n3, n.upf.n6} THEN {Breach("iface", "N3/N6", "info", Unset)}
        ELSE IF Meet(n.upf.n3, n.upf.n6) THEN {Breach("iface", "N3/N6", sev, Unset)} ELSE {})
       \cup (IF Meet(n.upf.n6, Params.mgmt_subnets) THEN {Breach("iface", "N6/mgmt", sev, Unset)} ELSE {})
       \cup (IF Meet(n.upf.n4, n.upf.n3 \cup n.upf.n6) THEN {Breach("iface", "N4-shared", "warning", Unset)} ELSE {})

\* A replica count that is not stated is one.
Replicas(r) == IF r = Unset THEN 1 ELSE r
rule_redundancy_floor(n, sev) ==
  {Breach("redundancy", "replicas", sev, k) :
     k \in {k \in DOMAIN Params.floors : n[k] # Unset /\ Replicas(n[k].replicas) < Params.floors[k]}}

rule_suci_security_posture(n, sev) ==
  (IF ~Params.require_hnet THEN {}
   ELSE IF n.udm = Unset THEN {Breach("suci", "hnet", "info", Unset)}
   ELSE IF \A h \in n.udm : ~h.key THEN {Breach("suci", "hnet", sev, Unset)} ELSE {})
  \cup (IF n.udm = Unset THEN {}
        ELSE {Breach("suci", "scheme", IF h.scheme = 0 THEN sev ELSE "warning", Unset)
                : h \in {h \in n.udm : h.scheme \notin {1, 2}}})
  \cup (IF n.amf = Unset THEN {}
        ELSE IF n.amf.integrity = <<>> /\ n.amf.ciphering = <<>> THEN {Breach("suci", "algos", "info", Unset)}
        ELSE (IF "NIA0" \in ToSet(n.amf.integrity) THEN {Breach("suci", "nia0", sev, Unset)} ELSE {})
             \cup (IF n.amf.ciphering # <<>> /\ Head(n.amf.ciphering) = "NEA0" /\ ~Params.allow_nea0_priority
                     THEN {Breach("suci", "nea0-priority", sev, Unset)} ELSE {}))

rule_sbi_tls(n, sev) ==
  {Breach("sbi", "client-uri", IF Params.assume_mesh_mtls THEN "warning" ELSE sev, k)
     : k \in {k \in DOMAIN n.uris : k \notin Params.exempt_nfs /\ "http" \in n.uris[k]}}

\* Open5GS's default is 1400; a value that is no number is only reported.
NotANumber == -1
rule_mtu_coherence(n, sev) ==
  IF n.smf = Unset THEN {}
  ELSE IF n.smf.mtu = NotANumber THEN {Breach("mtu", "mtu", "warning", Unset)}
  ELSE IF (IF n.smf.mtu = Unset THEN 1400 ELSE n.smf.mtu) > Params.n3_transport_mtu - Params.encap_overhead
         THEN {Breach("mtu", "mtu", sev, Unset)} ELSE {}

-----------------------------------------------------------------------------
(* The RF tables.                                                          *)

_NCS_839_125 == <<0, 13, 15, 18, 22, 26, 32, 38, 46, 59, 76, 93, 119, 167, 279, 419>>
_NCS_839_5 == <<0, 13, 26, 33, 38, 41, 49, 55, 64, 76, 93, 119, 139, 209, 279, 419>>
_NCS_139 == <<0, 2, 4, 6, 8, 10, 12, 13, 15, 17, 19, 23, 27, 34, 46, 69>>

LongFormats == {"0", "1", "2", "3"}
ShortFormats == {"A1", "A2", "A3", "B1", "B2", "B3", "B4", "C0", "C2", "A1/B1", "A2/B2", "A3/B3"}
l_ra_of(f) == IF f \in LongFormats THEN 839 ELSE IF f \in ShortFormats THEN 139 ELSE Unset
ncs_of(f, zcz) ==
  IF zcz \notin 0..15 \/ l_ra_of(f) = Unset THEN Unset
  ELSE (IF f = "3" THEN _NCS_839_5 ELSE IF l_ra_of(f) = 839 THEN _NCS_839_125 ELSE _NCS_139)[zcz + 1]

\* A root yields L_RA / N_CS preambles, or one, and a cell needs 64.
roots_needed(l_ra, ncs) == LET each == IF ncs > 0 THEN l_ra \div ncs ELSE 1 IN (64 + each - 1) \div each
root_modulus(l_ra) == IF l_ra = 839 THEN 838 ELSE 138

root_ranges_overlap(a, na, b, nb, mod) == (b - a) % mod < na \/ (a - b) % mod < nb

arfcn_to_khz(n) ==
  IF n \in 0..599999 THEN 5 * n
  ELSE IF n \in 600000..2016666 THEN 3000000 + 15 * (n - 600000)
  ELSE IF n \in 2016667..3279165 THEN 24250080 + 60 * (n - 2016667)
  ELSE Unset

gscn_of(khz) ==
  IF khz < 3000000
    THEN LET fits == {m \in {1, 3, 5} : (khz - 50 * m) % 1200 = 0 /\ (khz - 50 * m) \div 1200 \in 1..2499}
         IN  IF fits = {} THEN Unset ELSE 3 * ((khz - 50 * Min(fits)) \div 1200) + (Min(fits) - 3) \div 2
  ELSE IF khz < 24250080
    THEN IF (khz - 3000000) % 1440 = 0 /\ (khz - 3000000) \div 1440 <= 14756
           THEN 7499 + (khz - 3000000) \div 1440 ELSE Unset
  ELSE IF (khz - 24250080) % 17280 = 0 /\ (khz - 24250080) \div 17280 <= 4383
         THEN 22256 + (khz - 24250080) \div 17280 ELSE Unset

-----------------------------------------------------------------------------
(* The RAN rules.                                                          *)

Broadcast(n) == UNION {{<<p, c.tac>> : p \in c.plmns} : c \in {c \in ToSet(n.cells) : c.tac # Unset}}
rule_tac_plmn_consistency(n, sev) ==
  LET served == IF n.amf = Unset THEN {} ELSE n.amf.tais IN
  IF Broadcast(n) = {} THEN {}
  ELSE IF served = {}
    THEN {Breach("tac", "no-amf-tai", IF Params.require_amf_tai THEN sev ELSE "warning", Unset)}
  ELSE {Breach("tac", "tai-not-served", sev, t) : t \in Broadcast(n) \ served}

rule_pci_collision_confusion(n, sev) ==
  LET Cells == DOMAIN n.cells
      Pci(c) == n.cells[c].pci
  IN  {Breach("pci", "pci-range", sev, c) : c \in {c \in Cells : Pci(c) # Unset /\ Pci(c) \notin 0..1007}}
      \cup {Breach("pci", "pci-invalid", sev, c) : c \in {c \in Cells : n.cells[c].pci_invalid}}
      \cup {Breach("pci", "collision", sev, c)
              : c \in {c \in Cells : \E t \in Neighbours(n, c) : Pci(c) # Unset /\ Pci(t) = Pci(c)}}
      \cup {Breach("pci", "confusion", sev, c)
              : c \in {c \in Cells : \E t, u \in Neighbours(n, c) :
                         Pci(t) # Unset /\ Pci(t) = Pci(u) /\ n.cells[t].name # n.cells[u].name}}
      \cup {Breach("pci", "external-neighbors", "info", Unset)
              : c \in {c \in Cells : \E r \in n.rels[c] : r.to = Unset}}

\* One neighbour declared twice with two values of isHOAllowed is an error
\* whatever the rule's severity.
rule_neighbor_symmetry(n, sev) ==
  UNION {{Breach("nbr", "asymmetry", sev, c) : t \in {t \in Neighbours(n, c) : c \notin Neighbours(n, t)}}
         \cup {Breach("nbr", "contradiction", "error", c)
                 : r \in {r \in n.rels[c] : r.to # Unset /\ \E q \in n.rels[c] : q.to = r.to /\ q.ho # r.ho}}
           : c \in DOMAIN n.cells}

\* No adapter reads a cell's band, so a licence for one band is never applied.
rule_eirp_cap(n, sev) ==
  IF Params.licenses = {} THEN {Breach("eirp", "no-license", "info", Unset)}
  ELSE LET For(c) == {l \in Params.licenses : l.cells = {} \/ c.name \in l.cells}
           Checks(c) == {l \in For(c) : l.band = Unset}
       IN  {Breach("eirp", "eirp", sev, c.name) : c \in {c \in ToSet(n.cells) :
              \E l \in Checks(c) : c.tx # Unset /\ c.tx + l.gain - l.loss > l.cap}}
           \cup {Breach("eirp", "band", "info", c.name) : c \in {c \in ToSet(n.cells) : For(c) # Checks(c)}}
           \cup {Breach("eirp", "no-power", "info", c.name) : c \in {c \in ToSet(n.cells) : c.tx = Unset /\ Checks(c) # {}}}

\* The cells whose roots can be compared: a root, a zone, the unrestricted set
\* and a format the tables know.
Occupied(n) ==
  {i \in DOMAIN n.cells :
     LET p == n.cells[i].prach IN
     p # Unset /\ ~p.restricted /\ ncs_of(p.format, p.zcz) # Unset /\ p.root \in 0..(root_modulus(l_ra_of(p.format)) - 1)}
Layer(c) == <<l_ra_of(c.prach.format), c.arfcn>>
Cosited(n, i) == {j \in Occupied(n) : n.cells[j].gnb = n.cells[i].gnb /\ Layer(n.cells[j]) = Layer(n.cells[i])}
Crowd(n, i) == n.cells[i].arfcn # Unset /\ Cardinality(Cosited(n, i)) > MaxCosite

RootsClash(c, d) ==
  LET l == l_ra_of(c.prach.format)
      Needs(x) == roots_needed(l, ncs_of(x.prach.format, x.prach.zcz))
  IN  root_ranges_overlap(c.prach.root, Needs(c), d.prach.root, Needs(d), root_modulus(l))

rule_prach_root_nonoverlap(n, sev) ==
  LET At(c, check, s) == Breach("prach", check, s, c)
      Declared == {i \in DOMAIN n.cells : n.cells[i].prach # Unset}
      Paired(i, j) == \/ j \in Cosited(n, i) /\ ~Crowd(n, i)
                      \/ j \in Neighbours(n, i)
                      \/ i \in Neighbours(n, j)
      Clash == {p \in Occupied(n) \X Occupied(n) :
                  LET c == n.cells[p[1]]
                      d == n.cells[p[2]]
                  IN  p[1] < p[2] /\ Paired(p[1], p[2]) /\ c.arfcn # Unset /\ Layer(c) = Layer(d) /\ RootsClash(c, d)}
  IN  {At(i, "restricted-set", "info") : i \in {i \in Declared : n.cells[i].prach.restricted}}
      \cup {At(i, "format", "info") : i \in {i \in Declared : ~n.cells[i].prach.restricted
                                             /\ ncs_of(n.cells[i].prach.format, n.cells[i].prach.zcz) = Unset}}
      \cup {At(i, "prach-domain", sev) : i \in {i \in Declared \ Occupied(n) : ~n.cells[i].prach.restricted
                                             /\ ncs_of(n.cells[i].prach.format, n.cells[i].prach.zcz) # Unset}}
      \cup {At(i, "no-layer", "info") : i \in {i \in Occupied(n) : n.cells[i].arfcn = Unset}}
      \cup {At(i, "too-many-cosited", sev) : i \in {i \in Occupied(n) : Crowd(n, i)}}
      \cup {At(p[1], "root-overlap", IF n.cells[p[1]].gnb = n.cells[p[2]].gnb THEN sev ELSE Params.neighbor_severity) : p \in Clash}

\* The block must be on the raster, and a BWP in its carrier; a start at or
\* beyond the carrier's blocks is taken to count from elsewhere.  Without a band
\* the band's part of the raster is not looked at.
BwpBreaches(i, c, sev) ==
  UNION {LET at == <<c.bw, b.scs>> IN
         IF c.bw = Unset \/ b.scs = Unset THEN {}
         ELSE IF at \notin DOMAIN Nrb THEN {Breach("ssb", "bwp-scs", sev, i)}
         ELSE IF b.num # Unset /\ (b.num > Nrb[at] \/ (b.start \in 0..(Nrb[at] - 1) /\ b.start + b.num > Nrb[at]))
           THEN {Breach("ssb", "bwp-fit", sev, i)} ELSE {}
           : b \in c.bwps}
SsbBreaches(i, c, sev) ==
  LET khz == arfcn_to_khz(c.ssb) IN
  IF c.ssb = Unset THEN {}
  ELSE IF khz = Unset THEN {Breach("ssb", "arfcn", sev, i)}
  ELSE IF gscn_of(khz) = Unset THEN {Breach("ssb", "sync-raster", sev, i)}
  ELSE {Breach("ssb", "band", "info", i)}
rule_ssb_raster(n, sev) ==
  UNION {BwpBreaches(i, n.cells[i], sev) \cup SsbBreaches(i, n.cells[i], sev) : i \in DOMAIN n.cells}

-----------------------------------------------------------------------------
(* The rules file, the waivers and the verdict.                            *)

RULES == {"snssai", "pool", "iface", "redundancy", "suci", "sbi", "mtu", "tac", "pci", "nbr", "eirp", "prach", "ssb"}
DefaultSeverity(id) == IF id \in {"redundancy", "nbr"} THEN "warning" ELSE "error"

\* A file that cannot be taken at its word is refused whole; an entry for a
\* disabled rule is not read further, and "enabled" without a value enables.
Declared(spec, id) == {i \in DOMAIN spec.entries : spec.entries[i].id = id}
Enabled(spec, id) == IF Declared(spec, id) = {} THEN spec.default
                     ELSE spec.entries[Min(Declared(spec, id))].enabled \in {TRUE, Unset}
_cfg_rule(spec, id) ==
  IF Declared(spec, id) = {} THEN [severity |-> DefaultSeverity(id), waivers |-> {}]
  ELSE LET e == spec.entries[Min(Declared(spec, id))]
       IN  [severity |-> IF e.severity = Unset THEN DefaultSeverity(id) ELSE e.severity, waivers |-> e.waivers]
load_cfg_rules(spec) == [id \in {id \in RULES : Enabled(spec, id)} |-> _cfg_rule(spec, id)]
Refused(spec) ==
  \/ \E i \in DOMAIN spec.entries : spec.entries[i].id \notin RULES
  \/ \E id \in RULES : Cardinality(Declared(spec, id)) > 1
  \/ \E id \in DOMAIN load_cfg_rules(spec) :
       LET r == load_cfg_rules(spec)[id] IN
       r.severity \notin {"error", "warning"} \/ \E w \in r.waivers : w.expiry = Unset \/ ~w.reasoned

RuleFindings(n, rules) ==
  LET Of(id, sev) ==
        CASE id = "snssai" -> rule_snssai_consistency(n, sev)
          [] id = "pool" -> rule_ue_pool_sanity(n, sev)
          [] id = "iface" -> rule_upf_interface_separation(n, sev)
          [] id = "redundancy" -> rule_redundancy_floor(n, sev)
          [] id = "suci" -> rule_suci_security_posture(n, sev)
          [] id = "sbi" -> rule_sbi_tls(n, sev)
          [] id = "mtu" -> rule_mtu_coherence(n, sev)
          [] id = "tac" -> rule_tac_plmn_consistency(n, sev)
          [] id = "pci" -> rule_pci_collision_confusion(n, sev)
          [] id = "nbr" -> rule_neighbor_symmetry(n, sev)
          [] id = "eirp" -> rule_eirp_cap(n, sev)
          [] id = "prach" -> rule_prach_root_nonoverlap(n, sev)
          [] id = "ssb" -> rule_ssb_raster(n, sev)
  IN  UNION {Of(id, rules[id].severity) : id \in DOMAIN rules}

\* A waiver in force makes what it matches an info; one that has expired, or
\* matches nothing, is itself reported.
Matches(w, issue) == w.check \in {Unset, issue.check}
InForce(w) == w.expiry >= Today
Covered(rules, issue) == \E w \in rules[issue.rule].waivers : Matches(w, issue) /\ InForce(w)
apply_waivers(issues, rules) ==
  {IF Covered(rules, i) THEN [i EXCEPT !.severity = "info"] ELSE i : i \in issues}
  \cup UNION {{Breach(id, IF w.expiry < Today THEN "waiver-expired" ELSE "waiver-stale", "warning", Unset) :
                 w \in {w \in rules[id].waivers :
                           \/ w.expiry < Today
                           \/ ~\E i \in issues : i.rule = id /\ Matches(w, i)}}
              : id \in DOMAIN rules}

grade_cfg(a, spec) ==
  LET rules == load_cfg_rules(spec)
      left == apply_waivers(RuleFindings(normalize(a), rules), rules)
      Is(sev) == \E i \in left : i.severity = sev
  IN  IF Refused(spec) THEN "refused"
      ELSE IF Is("error") THEN "fail"
      ELSE IF Is("warning") \/ DOMAIN rules = {} THEN "warn" ELSE "pass"

CfgInit == cfg = [at |-> "new"]
CfgNext ==
  /\ cfg.at = "new"
  /\ \E k \in DOMAIN Graded : \E g \in Graded[k] :
       cfg' = [at |-> "graded", artifact |-> g.artifact, spec |-> g.spec, verdict |-> grade_cfg(g.artifact, g.spec)]

-----------------------------------------------------------------------------
(* What a report that does not fail is worth, from the artifact itself.    *)

\* The relations written under a cell, and those written under its twin in the
\* same gNB's CU; and the cells it hands over to.
WrittenUnder(a, i) == {r \in a.rels : IF r.du # Unset THEN r.du = i
                                 ELSE r.gnb = a.cells[i].gnb /\ r.local = a.cells[i].local}
Hands(a, i) == {_resolve(a.cells, r.target) : r \in WrittenUnder(a, i)} \ {Unset}

\* The roots the standard gives a cell: one after the other, until they yield 64.
Roots(c) ==
  LET l == l_ra_of(c.prach.format)
      each == IF ncs_of(c.prach.format, c.prach.zcz) = 0 THEN 1 ELSE l \div ncs_of(c.prach.format, c.prach.zcz)
  IN  {(c.prach.root + k) % root_modulus(l) : k \in {k \in 0..63 : k * each < 64}}
Shares(c, d) == c.arfcn # Unset /\ Layer(c) = Layer(d) /\ Roots(c) \cap Roots(d) # {}

OnRaster(khz) ==
  \/ khz < 3000000 /\ \E n \in 1..2499, m \in {1, 3, 5} : khz = 1200 * n + 50 * m
  \/ khz \in 3000000..24250079 /\ \E n \in 0..14756 : khz = 3000000 + 1440 * n
  \/ khz >= 24250080 /\ \E n \in 0..4383 : khz = 24250080 + 17280 * n

\* What each rule is for.
Kept(a, id) ==
  CASE id = "pool" ->
         \A i, j \in DOMAIN a.sessions :
            LET x == a.sessions[i]
                y == a.sessions[j]
            IN  i # j => Agree(x, y) \/ Addresses(x.net) \cap Addresses(y.net) = {}
    [] id = "iface" ->
         a.upf = Unset \/ UNION {Addresses(x) : x \in a.upf.n6} \cap
                            UNION {Addresses(x) : x \in a.upf.n3 \cup Params.mgmt_subnets} = {}
    [] id = "snssai" ->
         \A r \in (IF a.smf = Unset THEN {} ELSE DOMAIN a.smf.slices) : r[1] # Unset =>
            /\ a.nssf # Unset => \E q \in a.nssf : canonical_snssai(q) = canonical_snssai(r)
            /\ a.amf # Unset => \E p \in a.amf.slices : \E q \in p.slices : canonical_snssai(q) = canonical_snssai(r)
            /\ \A d \in a.smf.slices[r] : \E u \in a.smf.pool : u = {} \/ d \in u
    [] id = "tac" ->
         a.amf # Unset /\ (\E t \in a.amf.tais : t[2] # Unset) => \A c \in ToSet(a.cells) : c.tac = Unset \/ c.plmns \X {c.tac} \subseteq a.amf.tais
    [] id = "pci" ->
         \A i \in DOMAIN a.cells : \A j, k \in Hands(a, i) \cup {i} :
            a.cells[j].pci # Unset /\ a.cells[j].pci = a.cells[k].pci => j = k
    [] id = "prach" ->
         \A i, j \in Occupied(a) :
            i # j /\ a.cells[i].gnb = a.cells[j].gnb => ~Shares(a.cells[i], a.cells[j])
    [] id = "ssb" ->
         \A c \in ToSet(a.cells) : c.ssb = Unset \/ (arfcn_to_khz(c.ssb) # Unset /\ OnRaster(arfcn_to_khz(c.ssb)))
    [] id = "redundancy" ->
         \A k \in DOMAIN Params.floors :
            a[k] = Unset \/ Params.floors[k] <= 1 \/ (a[k].replicas # Unset /\ a[k].replicas >= Params.floors[k])
    [] id = "suci" ->
         /\ a.udm # Unset => /\ Params.require_hnet => \E h \in a.udm : h.key
                             /\ ~\E h \in a.udm : h.scheme = 0
         /\ a.amf # Unset => /\ "NIA0" \notin ToSet(a.amf.integrity)
                             /\ \A i \in DOMAIN a.amf.ciphering :
                                  a.amf.ciphering[i] = "NEA0" => i > 1 \/ Params.allow_nea0_priority
    [] id = "sbi" ->
         Params.assume_mesh_mtls \/ \A k \in DOMAIN a.uris \ Params.exempt_nfs : a.uris[k] \subseteq {"https"}
    [] id = "mtu" ->
         LET packet == (IF a.smf.mtu = Unset THEN 1400 ELSE a.smf.mtu) + Params.encap_overhead
         IN  a.smf # Unset => packet <= Params.n3_transport_mtu
    [] id = "nbr" ->
         \A i \in DOMAIN a.cells : \A j \in Hands(a, i) : i \in Hands(a, j)
    [] id = "eirp" ->
         \A c \in ToSet(a.cells), l \in Params.licenses :
            (c.tx # Unset /\ l.band = Unset /\ (l.cells = {} \/ c.name \in l.cells))
              => c.tx + l.gain <= l.cap + l.loss

\* No cell declares one neighbour twice with two values of isHOAllowed.
OfOneMind(a) ==
  \A i \in DOMAIN a.cells : \A r, q \in WrittenUnder(a, i) :
     _resolve(a.cells, r.target) = _resolve(a.cells, q.target) /\ _resolve(a.cells, r.target) # Unset => r.ho = q.ho

\* A report that does not fail is earned: whatever rule the file leaves on as an
\* error, by name or by default, and does not waive today, holds in the artifact
\* as written: slices have a path, pools and interfaces are apart, a cell and its
\* true neighbours have distinct PCIs, cells of a site share no PRACH root, the
\* SSB is on the raster, the keys are there and null protection is not preferred,
\* packets fit their tunnel, power is within the licences that name no band; and
\* no neighbour is contradicted, whatever the severity (telecom_cfg.py grade_cfg
\* and the rules).
ConfigPassIsEarned ==
  cfg.at = "graded" /\ cfg.verdict \in {"pass", "warn"} =>
    LET s == cfg.spec IN
    \A id \in RULES :
       LET es == {e \in ToSet(s.entries) : e.id = id}
           off == IF es = {} THEN ~s.default ELSE \E e \in es : e.enabled = FALSE
           waived == \E e \in es : \E w \in e.waivers : w.expiry >= Today
           gates == IF \A e \in es : e.severity = Unset THEN DefaultSeverity(id) = "error"
                    ELSE \E e \in es : e.severity = "error"
       IN  ~off /\ ~waived =>
             /\ gates => Kept(cfg.artifact, id)
             /\ id = "nbr" => OfOneMind(cfg.artifact)
=============================================================================
