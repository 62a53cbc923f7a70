-------------------------- MODULE ZuulConfigProofs --------------------------
(***************************************************************************)
(* What holds of zuul.conf and of the services that run with it, whatever  *)
(* the resources, the secrets, the commands that were cut short and the    *)
(* pods that were restarted before:                                        *)
(*   - deploy only reports success when Zuul's services run with what the  *)
(*     last zuul.conf has for them, and the files that it names are there; *)
(*   - a service only gets another template when an input of its own       *)
(*     changed;                                                            *)
(*   - no section that the CR asks for is lost among the others;           *)
(*   - a remote executor whose secrets were copied has those of the        *)
(*     control plane.                                                      *)
(* The module first goes through the command (the invariant and its        *)
(* steps), then through zuul.conf (which sections are where, and what of   *)
(* them stays), and then puts the two together, one theorem at a time.     *)
(***************************************************************************)
EXTENDS ZuulConfig, TLAPS, NaturalsInduction, FiniteSetTheorems

-----------------------------------------------------------------------------
(* The invariant. *)

\* The last pods that Kubernetes started for w are of its template, or are being
\* replaced (zuul-web), and that is one that the zuul.conf of this pass asks for.
Fit(w) ==
    /\ pod[w].template = template[w] \/ Rolling(w)
    /\ template[w].annotations =
          Annotations(Service(w), conf[Site(cr)], ComputeLoggingConfig(cr)[Service(w)],
                      ConfigRepo(cr))

\* The pass has gone through EnsureService(w).
Checked(w) ==
    \E i \in DOMAIN Order(cr) :
       /\ Order(cr)[i] = w
       /\ pc = "end" \/ \E j \in DOMAIN Order(cr) : i < j /\ pc = Order(cr)[j]

ShapeInv ==
    /\ DOMAIN template = Workloads
    /\ DOMAIN pod = Workloads

\* A pass is only ever at a service that it goes through.
WalkInv == pc \in Workloads => \E i \in DOMAIN Order(cr) : Order(cr)[i] = pc

\* As long as the pass takes the services for ready, those that it has checked
\* fit: neither a pod that starts or restarts nor a later step undoes that.
ServedInv == ready => \A w \in Workloads : Checked(w) => Fit(w)

Inv == ready \in BOOLEAN /\ ShapeInv /\ WalkInv /\ ServedInv

-----------------------------------------------------------------------------
(* The services that a pass goes through. *)

LEMMA OrderShape ==
    ASSUME NEW c
    PROVE  /\ Len(Order(c)) \in {1, 3, 4} /\ DOMAIN Order(c) = 1..Len(Order(c))
           /\ \A i \in DOMAIN Order(c) : Order(c)[i] \in Workloads
           /\ \A i, j \in DOMAIN Order(c) : Order(c)[i] = Order(c)[j] => i = j
<1>1. CASE c.standalone
  BY <1>1 DEF Order, Workloads
<1>2. CASE ~c.standalone /\ c.executor
  BY <1>2 DEF Order, Workloads
<1>3. CASE ~c.standalone /\ ~c.executor
  BY <1>3 DEF Order, Workloads
<1> QED BY <1>1, <1>2, <1>3

LEMMA AfterShape ==
    ASSUME NEW i \in DOMAIN Order(cr)
    PROVE  After(Order(cr)[i]) = IF i = Len(Order(cr)) THEN "end" ELSE Order(cr)[i + 1]
<1>1. i = CHOOSE k \in DOMAIN Order(cr) : Order(cr)[k] = Order(cr)[i]
  BY OrderShape
<1> QED BY <1>1 DEF After

LEMMA ServicesArePlaces ==
    Workloads \cap {"idle", "ok", "copy", "validate", "conf", "end"} = {}
BY DEF Workloads

\* At a step before the services, a pass has checked none.
LEMMA NothingChecked ==
    ASSUME pc \notin Workloads, pc # "end"
    PROVE  \A w \in Workloads : ~Checked(w)
BY OrderShape DEF Checked

-----------------------------------------------------------------------------
(* The invariant holds in the first state, and every step keeps it. *)

LEMMA InitInv == Init => Inv
<1> SUFFICES ASSUME Init PROVE Inv
  OBVIOUS
<1>1. pc = "idle" /\ ready = FALSE
  BY DEF Init
<1>2. ShapeInv
  BY DEF Init, ShapeInv
<1> QED BY <1>1, <1>2, ServicesArePlaces DEF Inv, WalkInv, ServedInv

\* What is before the services in a pass, and what ends a command.
LEMMA OutsideServices ==
    ASSUME ShapeInv', ready' \in BOOLEAN, pc' \notin Workloads, pc' # "end"
    PROVE  Inv'
<1>1. \A w \in Workloads : ~Checked(w)'
  <2> SUFFICES ASSUME NEW w \in Workloads, Checked(w)' PROVE FALSE
    OBVIOUS
  <2>1. PICK i \in DOMAIN Order(cr') : \E j \in DOMAIN Order(cr') : pc' = Order(cr')[j]
    BY DEF Checked
  <2> QED BY <2>1, OrderShape
<1> QED BY <1>1 DEF Inv, WalkInv, ServedInv

\* What changes neither the templates nor zuul.conf, nor what a pod was made from.
LEMMA ServedIsKept ==
    ASSUME Inv, UNCHANGED <<pc, cr, ready, conf, template>>, DOMAIN pod' = Workloads,
           \A w \in Workloads : pod'[w].template \in {pod[w].template, template[w]}
    PROVE  Inv'
<1>1. WalkInv' /\ ShapeInv' /\ ready' \in BOOLEAN
  BY DEF Inv, WalkInv, ShapeInv
<1>2. ASSUME NEW w \in Workloads, ready', Checked(w)' PROVE Fit(w)'
  <2>1. Checked(w) /\ ready
    BY <1>2 DEF Checked
  <2>2. Fit(w)
    BY <2>1 DEF Inv, ServedInv
  <2> QED BY <2>2 DEF Fit, Rolling
<1> QED BY <1>1, <1>2 DEF Inv, ServedInv

LEMMA EnsureServiceInv ==
    ASSUME Inv, NEW w \in Workloads, EnsureService(w)
    PROVE  Inv'
<1>1. PICK i \in DOMAIN Order(cr) : Order(cr)[i] = w
  BY DEF EnsureService, Inv, WalkInv
<1> DEFINE new == Template(Service(w), cr, conf[Site(cr)])
<1>2. new.annotations =
         Annotations(Service(w), conf[Site(cr)], ComputeLoggingConfig(cr)[Service(w)],
                     ConfigRepo(cr))
  BY DEF Template
<1> HIDE DEF new
<1>3. pc = w /\ UNCHANGED <<conf, pod>>
  BY DEF EnsureService, cluster
<1>4. CASE pc' = "idle"
  <2>1. ready' = FALSE /\ UNCHANGED template
    BY <1>3, <1>4, ServicesArePlaces, AfterShape, <1>1, OrderShape DEF EnsureService, Forget
  <2> QED BY <1>3, <1>4, <2>1, OutsideServices, ServicesArePlaces DEF Inv, ShapeInv
<1>5. CASE pc' # "idle"
  <2>1. pc' = After(w) /\ UNCHANGED cr
    BY <1>5 DEF EnsureService
  <2>2. pc' = IF i = Len(Order(cr)) THEN "end" ELSE Order(cr)[i + 1]
    BY <1>1, <2>1, AfterShape
  <2>3. WalkInv'
    BY <2>1, <2>2, OrderShape, ServicesArePlaces DEF WalkInv
  <2>4. CASE template[w].annotations = new.annotations
    <3>1. /\ UNCHANGED template /\ ready' \in BOOLEAN
          /\ ready' => ready /\ (pod[w].template = template[w] \/ Rolling(w))
      BY <1>5, <2>4 DEF EnsureService, new, Inv
    <3>2. ASSUME NEW v \in Workloads, ready', Checked(v)' PROVE Fit(v)'
      <4>1. PICK k \in DOMAIN Order(cr) : /\ Order(cr)[k] = v
                                          /\ \/ pc' = "end"
                                             \/ \E j \in DOMAIN Order(cr) : k < j /\ pc' = Order(cr)[j]
        BY <2>1, <3>2 DEF Checked
      <4>2. k <= i
        BY <1>1, <2>2, <4>1, OrderShape, ServicesArePlaces
      <4>3. CASE k = i
        <5>1. Fit(w)
          BY <1>2, <2>4, <3>1, <3>2 DEF Fit
        <5> QED BY <1>1, <1>3, <2>1, <3>1, <4>1, <4>3, <5>1 DEF Fit, Rolling
      <4>4. CASE k < i
        <5>1. Checked(v) /\ ready
          BY <1>1, <1>3, <3>1, <3>2, <4>1, <4>4 DEF Checked
        <5>2. Fit(v)
          BY <5>1 DEF Inv, ServedInv
        <5> QED BY <1>3, <2>1, <3>1, <5>2 DEF Fit, Rolling
      <4> QED BY <1>1, <4>1, <4>2, <4>3, <4>4, OrderShape
    <3> QED BY <1>3, <2>3, <3>1, <3>2 DEF Inv, ServedInv, ShapeInv
  <2>5. CASE template[w].annotations # new.annotations
    <3>1. ready' = FALSE /\ template' = [template EXCEPT ![w] = new]
      BY <1>5, <2>5 DEF EnsureService, new
    <3> QED BY <1>3, <2>3, <3>1 DEF Inv, ServedInv, ShapeInv
  <2> QED BY <2>4, <2>5
<1> QED BY <1>4, <1>5

LEMMA NextInv == Inv /\ [Next]_vars => Inv'
<1> SUFFICES ASSUME Inv, [Next]_vars PROVE Inv'
  OBVIOUS
<1>0. ShapeInv /\ ready \in BOOLEAN
  BY DEF Inv
<1>1. ASSUME NEW c \in CRs, NEW copy \in BOOLEAN, Start(c, copy) PROVE Inv'
  <2>1. pc' \in {"idle", "ok", "copy", "validate"} /\ UNCHANGED <<ready, template, pod>>
    BY <1>1 DEF Start, Running
  <2> QED BY <1>0, <2>1, OutsideServices, ServicesArePlaces DEF ShapeInv
<1>2. CASE CopySecret
  BY <1>0, <1>2, ServedIsKept DEF CopySecret, ShapeInv
<1>3. CASE CopyEnds
  <2>1. pc' \in {"idle", "validate"} /\ ready' \in BOOLEAN /\ UNCHANGED <<template, pod>>
    BY <1>0, <1>3 DEF CopyEnds, Forget
  <2> QED BY <1>0, <2>1, OutsideServices, ServicesArePlaces DEF ShapeInv
<1>4. CASE Validate
  <2>1. pc' = "conf" /\ ready' = TRUE /\ UNCHANGED <<template, pod>>
    BY <1>4 DEF Validate
  <2> QED BY <1>0, <2>1, OutsideServices, ServicesArePlaces DEF ShapeInv
<1>5. CASE EnsureZuulConfigSecret
  <2>1. pc' = Order(cr')[1] /\ UNCHANGED <<cr, ready>>
    BY <1>5 DEF EnsureZuulConfigSecret, command
  <2>2. ShapeInv'
    BY <1>0, <1>5 DEF EnsureZuulConfigSecret, ShapeInv
  <2>3. 1 \in DOMAIN Order(cr') /\ pc' \in Workloads
    BY <2>1, OrderShape
  <2>4. ASSUME NEW w \in Workloads, Checked(w)' PROVE FALSE
    BY <2>1, <2>3, <2>4, OrderShape, ServicesArePlaces DEF Checked
  <2> QED BY <1>0, <2>1, <2>2, <2>3, <2>4 DEF Inv, WalkInv, ServedInv
<1>6. CASE Finish
  <2>1. pc' \in {"ok", "validate"} /\ ready' \in BOOLEAN /\ UNCHANGED <<template, pod>>
    BY <1>0, <1>6 DEF Finish, Forget
  <2> QED BY <1>0, <2>1, OutsideServices, ServicesArePlaces DEF ShapeInv
<1>7. ASSUME NEW w \in Workloads, EnsureService(w) PROVE Inv'
  BY <1>7, EnsureServiceInv
<1>8. CASE Kill
  <2>1. pc' = "idle" /\ ready' = FALSE /\ UNCHANGED <<template, pod>>
    BY <1>8 DEF Kill, Forget
  <2> QED BY <1>0, <2>1, OutsideServices, ServicesArePlaces DEF ShapeInv
<1>9. ASSUME NEW w \in Workloads, PodStart(w) PROVE Inv'
  <2>1. /\ UNCHANGED <<pc, cr, ready, conf, template>> /\ pod[w].template # template[w]
        /\ pod' = [pod EXCEPT ![w] = [template |-> template[w], conf |-> conf[SiteOf(w)],
                                      level |-> logging[SiteOf(w)][Service(w)]]]
    BY <1>9 DEF PodStart, Load, command, cluster
  <2>2. \A v \in Workloads : pod'[v].template \in {pod[v].template, template[v]}
    BY <1>0, <2>1 DEF ShapeInv
  <2> QED BY <1>0, <2>1, <2>2, ServedIsKept DEF ShapeInv
<1>10. ASSUME NEW w \in Workloads, PodRestart(w) PROVE Inv'
  <2>1. /\ UNCHANGED <<pc, cr, ready, conf, template>>
        /\ pod' = [pod EXCEPT ![w] = [template |-> pod[w].template, conf |-> conf[SiteOf(w)],
                                      level |-> logging[SiteOf(w)][Service(w)]]]
    BY <1>10 DEF PodRestart, Load, command, cluster
  <2>2. \A v \in Workloads : pod'[v].template = pod[v].template
    BY <1>0, <2>1 DEF ShapeInv
  <2> QED BY <1>0, <2>1, <2>2, ServedIsKept DEF ShapeInv
<1>11. ASSUME NEW n \in Editable, Edit(n) PROVE Inv'
  BY <1>0, <1>11, ServedIsKept DEF Edit, command, ShapeInv
<1>12. CASE UNCHANGED vars
  BY <1>0, <1>12, ServedIsKept DEF vars, command, cluster, ShapeInv
<1> QED BY <1>1, <1>2, <1>3, <1>4, <1>5, <1>6, <1>7, <1>8, <1>9, <1>10, <1>11, <1>12
        DEF Next, Deploy

-----------------------------------------------------------------------------
(* What the annotations say. *)

\* Two configurations that give a service the same annotations are the same to it:
\* the checksums leave out nothing that it reads.
LEMMA AnnotationsDetermine ==
    ASSUME NEW w \in Workloads, NEW c1, NEW c2, NEW l1, NEW l2, NEW r1, NEW r2,
           Annotations(Service(w), c1, l1, r1) = Annotations(Service(w), c2, l2, r2)
    PROVE  /\ Bodies(c1, Reads(Service(w))) = Bodies(c2, Reads(Service(w)))
           /\ l1 = l2
           /\ w = "scheduler" => r1 = r2
<1> DEFINE common    == <<"zookeeper", "keystore", "database">>
           component == ComponentSections(Service(w))
<1>1. /\ Bodies(c1, common) = Bodies(c2, common)
      /\ Bodies(c1, component) = Bodies(c2, component)
      /\ l1 = l2
      /\ Service(w) = "scheduler" => r1 = r2
  BY DEF Annotations
<1>2. ASSUME NEW prefixes, Bodies(c1, prefixes) = Bodies(c2, prefixes), NEW k \in DOMAIN prefixes
      PROVE  Body(c1, prefixes[k]) = Body(c2, prefixes[k])
  BY <1>2 DEF Bodies
<1>3. \A k \in DOMAIN common : Body(c1, common[k]) = Body(c2, common[k])
  BY <1>1, <1>2
<1>4. \A k \in DOMAIN component : Body(c1, component[k]) = Body(c2, component[k])
  BY <1>1, <1>2
<1>5. /\ Body(c1, "zookeeper") = Body(c2, "zookeeper")
      /\ Body(c1, "keystore") = Body(c2, "keystore")
      /\ Body(c1, "database") = Body(c2, "database")
  <2>1. {1, 2, 3} \subseteq DOMAIN common
    OBVIOUS
  <2>2. common[1] = "zookeeper" /\ common[2] = "keystore" /\ common[3] = "database"
    OBVIOUS
  <2> QED BY <1>3, <2>1, <2>2
<1>6. \A k \in DOMAIN Reads(Service(w)) :
         Body(c1, Reads(Service(w))[k]) = Body(c2, Reads(Service(w))[k])
  <2>1. CASE Service(w) \in {"scheduler", "web"}
    <3>1. component = <<"connection", "auth", Service(w)>>
      BY <2>1 DEF ComponentSections
    <3>2. /\ Body(c1, "connection") = Body(c2, "connection")
          /\ Body(c1, "auth") = Body(c2, "auth")
          /\ Body(c1, Service(w)) = Body(c2, Service(w))
      <4>1. {1, 2, 3} \subseteq DOMAIN component
        BY <3>1
      <4>2. component[1] = "connection" /\ component[2] = "auth" /\ component[3] = Service(w)
        BY <3>1
      <4> QED BY <1>4, <4>1, <4>2
    <3>3. \A k \in DOMAIN Reads(Service(w)) :
             Reads(Service(w))[k] \in {"connection", "zookeeper", "keystore", Service(w),
                                       "auth", "database"}
      <4> DEFINE all == <<"connection", "zookeeper", "keystore", Service(w)>>
                 two == <<"auth", "database">>
      <4>1. Reads(Service(w)) = all \o two
        BY <2>1 DEF Reads
      <4> DEFINE names == {"connection", "zookeeper", "keystore", Service(w), "auth", "database"}
      <4>2. all \in Seq(names) /\ two \in Seq(names)
        OBVIOUS
      <4>3. /\ \A k \in 1..4 : (all \o two)[k] = all[k]
            /\ \A k \in 5..6 : (all \o two)[k] = two[k - 4]
            /\ DOMAIN (all \o two) = 1..6
        BY <4>2
      <4> QED BY <4>1, <4>3
    <3> QED BY <1>5, <3>2, <3>3
  <2>2. CASE Service(w) \notin {"scheduler", "web"}
    <3>1. component = <<"connection", Service(w)>>
      BY <2>2 DEF ComponentSections
    <3>2. /\ Body(c1, "connection") = Body(c2, "connection")
          /\ Body(c1, Service(w)) = Body(c2, Service(w))
      <4>1. {1, 2} \subseteq DOMAIN component
        BY <3>1
      <4>2. component[1] = "connection" /\ component[2] = Service(w)
        BY <3>1
      <4> QED BY <1>4, <4>1, <4>2
    <3>3. Reads(Service(w)) = <<"connection", "zookeeper", "keystore", Service(w)>>
      BY <2>2 DEF Reads
    <3> QED BY <1>5, <3>2, <3>3
  <2> QED BY <2>1, <2>2
<1>7. Bodies(c1, Reads(Service(w))) = Bodies(c2, Reads(Service(w)))
  BY <1>6 DEF Bodies
<1>8. w = "scheduler" => Service(w) = "scheduler"
  BY DEF Service
<1> QED BY <1>1, <1>7, <1>8

-----------------------------------------------------------------------------
(* The theorem. *)

\* When a pass ends well, every service that it goes through fits.
LEMMA SuccessFits ==
    ASSUME Inv, [Next]_vars, Succeeds
    PROVE  \A i \in DOMAIN Order(cr) : Fit(Order(cr)[i])
<1>1. pc = "end" /\ pc' = "ok"
  BY DEF Succeeds
<1>2. ready
  <2>1. ASSUME NEW w \in Workloads PROVE pc # w
    BY <1>1, ServicesArePlaces
  <2>2. Finish
    BY <1>1, <2>1
       DEF Next, Deploy, Start, Running, CopySecret, CopyEnds, Validate, EnsureZuulConfigSecret,
           EnsureService, Kill, PodStart, PodRestart, Edit, vars
  <2> QED BY <1>1, <2>2 DEF Finish
<1>3. \A i \in DOMAIN Order(cr) : Order(cr)[i] \in Workloads /\ Checked(Order(cr)[i])
  BY <1>1, OrderShape DEF Checked
<1> QED BY <1>2, <1>3 DEF Inv, ServedInv

LEMMA SuccessStep ==
    ASSUME Inv, [Next]_vars, Succeeds, NEW i \in DOMAIN Order(cr)
    PROVE  LET w == Order(cr)[i] IN
           \/ Unsettled(w)
           \/ /\ Bodies(pod[w].conf, Reads(Service(w))) = Bodies(conf[Site(cr)], Reads(Service(w)))
              /\ pod[w].level = ComputeLoggingConfig(cr)[Service(w)]
              /\ w = "scheduler" => pod[w].template.repo = ConfigRepo(cr)
<1> DEFINE w == Order(cr)[i]
<1>1. w \in Workloads /\ Fit(w)
  BY SuccessFits, OrderShape
<1> HIDE DEF w
<1>2. ASSUME ~Unsettled(w)
      PROVE  Annotations(Service(w), pod[w].conf, pod[w].level, pod[w].template.repo)
                = Annotations(Service(w), conf[Site(cr)], ComputeLoggingConfig(cr)[Service(w)],
                              ConfigRepo(cr))
  BY <1>1, <1>2 DEF Unsettled, Ahead, Fit
<1>3. ~Unsettled(w) =>
         /\ Bodies(pod[w].conf, Reads(Service(w))) = Bodies(conf[Site(cr)], Reads(Service(w)))
         /\ pod[w].level = ComputeLoggingConfig(cr)[Service(w)]
         /\ w = "scheduler" => pod[w].template.repo = ConfigRepo(cr)
  BY <1>1, <1>2, AnnotationsDetermine
<1> QED BY <1>3 DEF w

\* When deploy succeeds, every service runs with what zuul.conf and the CR have
\* for it, except a pod that restarted on the zuul.conf of a command that was cut
\* short, and a zuul-web that is being replaced.  It is the checksums of EnsureZuulScheduler and its like that this rests
\* on, and that a pass which changes a template never ends well.
THEOREM DeployServesTheConfig == Spec => SuccessIsServed
<1>1. Init /\ [][Next]_vars => []Inv
  BY InitInv, NextInv, PTL
<1>2. Inv /\ [Next]_vars =>
         [Succeeds => \A i \in DOMAIN Order(cr) :
            LET w == Order(cr)[i] IN
            \/ Unsettled(w)
            \/ /\ Bodies(pod[w].conf, Reads(Service(w))) = Bodies(conf[Site(cr)], Reads(Service(w)))
               /\ pod[w].level = ComputeLoggingConfig(cr)[Service(w)]
               /\ w = "scheduler" => pod[w].template.repo = ConfigRepo(cr)]_vars
  BY SuccessStep
<1> QED BY <1>1, <1>2, PTL DEF Spec, SuccessIsServed

-----------------------------------------------------------------------------
(* Sections that are added with a name, and what comes of them. *)

\* The largest of some numbers is one of them.
LEMMA MaxOf == ASSUME NEW S, NEW n \in Nat, S \subseteq 1..n, S # {}
  PROVE Max(S) \in S /\ \A x \in S : x <= Max(S)
<1> DEFINE T == {n - x : x \in S}
<1>1. T \subseteq Nat /\ T # {}
  <2>1. \A x \in S : x \in 1..n
    OBVIOUS
  <2>2. \A x \in S : n - x \in Nat
    BY <2>1
  <2> QED BY <2>2
<1>2. PICK m \in T : \A y \in T : ~(<<y, m>> \in OpToRel(<, Nat))
  BY <1>1, NatLessThanWellFounded, WFMin
<1>3. PICK x \in S : m = n - x
  OBVIOUS
<1>4. m \in Nat /\ x \in 1..n
  BY <1>1
<1>5. \A y \in Nat : y < m => <<y, m>> \in OpToRel(<, Nat)
  BY <1>4 DEF OpToRel
<1>6. \A y \in S : ~(n - y < m) /\ y \in 1..n
  BY <1>1, <1>2, <1>5
<1>7. \A y \in S : x >= y
  BY <1>3, <1>4, <1>6
<1> QED BY <1>4, <1>6, <1>7 DEF Max
\* InTurn lists the members of a set of places, and all of them.
LEMMA InTurnOf == ASSUME NEW n \in Nat, NEW S, S \subseteq 1..n
  PROVE InTurn(S) \in Seq(S) /\ \A x \in S : \E k \in DOMAIN InTurn(S) : InTurn(S)[k] = x
<1> DEFINE upto(i) == {j \in S : j <= i}
           rank == [i \in S |-> Cardinality(upto(i))]
<1>1. IsFiniteSet(S) /\ Cardinality(S) \in Nat
  <2>1. IsFiniteSet(1..n)
    BY FS_Interval
  <2> QED BY <2>1, FS_Subset, FS_CardinalityType
<1>2. \A i \in S : IsFiniteSet(upto(i)) /\ Cardinality(upto(i)) \in 1..Cardinality(S)
  <2> TAKE i \in S
  <2>1. IsFiniteSet(upto(i)) /\ Cardinality(upto(i)) \in Nat /\ Cardinality(upto(i)) <= Cardinality(S)
     <3>1. upto(i) \subseteq S OBVIOUS
     <3> QED BY <1>1, <3>1, FS_Subset, FS_CardinalityType
  <2>2. i \in upto(i) OBVIOUS
  <2> HIDE DEF upto
  <2>3. Cardinality(upto(i)) # 0 BY <2>1, <2>2, FS_EmptySet
  <2> QED BY <1>1, <2>1, <2>3
<1>3. ASSUME NEW i \in S, NEW j \in S, i < j PROVE Cardinality(upto(i)) < Cardinality(upto(j))
  <2>1. upto(i) \subseteq upto(j) /\ j \in upto(j) /\ j \notin upto(i)
     <3>1. i \in 1..n /\ j \in 1..n
       BY <1>3
     <3>2. \A x \in S : x \in 1..n
       OBVIOUS
     <3>3. i < j
       BY <1>3
     <3>4. \A x \in upto(i) : x \in upto(j)
       BY <3>1, <3>2, <3>3
     <3>5. j \in upto(j) /\ j \notin upto(i)
       BY <3>1, <3>3
     <3> QED BY <3>4, <3>5
  <2>2. upto(i) # upto(j) BY <2>1
  <2> QED BY <1>2, <2>1, <2>2, FS_Subset
<1>4. rank \in Injection(S, 1..Cardinality(S))
  <2> HIDE DEF upto
  <2>1. rank \in [S -> 1..Cardinality(S)] BY <1>2
  <2>2. \A i, j \in S : rank[i] = rank[j] => i = j
     BY <1>2, <1>3
  <2> QED BY <2>1, <2>2 DEF Injection, IsInjective
<1>5. rank \in Surjection(S, 1..Cardinality(S))
  <2>1. IsFiniteSet(1..Cardinality(S)) /\ Cardinality(1..Cardinality(S)) = Cardinality(S)
    BY <1>1, FS_Interval
  <2> QED BY <1>4, <2>1, FS_Injection
<1>6. \A k \in 1..Cardinality(S) : \E i \in S : Cardinality(upto(i)) = k
  <2> HIDE DEF upto
  <2> QED BY <1>5 DEF Surjection
<1>7. \A k \in 1..Cardinality(S) : InTurn(S)[k] \in S /\ Cardinality(upto(InTurn(S)[k])) = k
  BY <1>6 DEF InTurn
<1>8. InTurn(S) \in Seq(S)
  <2> HIDE DEF upto
  <2>1. DOMAIN InTurn(S) = 1..Cardinality(S) /\ InTurn(S) = [k \in 1..Cardinality(S) |-> InTurn(S)[k]]
    BY DEF InTurn
  <2> QED BY <1>1, <1>7, <2>1
<1>9. \A x \in S : InTurn(S)[Cardinality(upto(x))] = x
  <2> HIDE DEF upto
  <2> TAKE x \in S
  <2> DEFINE y == InTurn(S)[Cardinality(upto(x))]
  <2>1. y \in S /\ Cardinality(upto(y)) = Cardinality(upto(x))
    BY <1>2, <1>7
  <2>2. x \in 1..n /\ y \in 1..n
    BY <2>1
  <2> HIDE DEF y
  <2>3. ~(x < y) /\ ~(y < x)
    BY <1>2, <1>3, <2>1
  <2>4. x = y
    BY <2>2, <2>3
  <2> QED BY <2>4 DEF y
<1> HIDE DEF upto
<1>10. DOMAIN InTurn(S) = 1..Cardinality(S)
  BY DEF InTurn
<1> QED BY <1>2, <1>8, <1>9, <1>10

\* A set of numbers has a least one.
LEMMA LeastOf ==
    ASSUME NEW S, S \subseteq Nat, S # {}
    PROVE  \E m \in S : \A y \in S : m <= y
<1>1. PICK m \in S : \A y \in S : ~(<<y, m>> \in OpToRel(<, Nat))
  BY NatLessThanWellFounded, WFMin
<1>2. \A y \in Nat : y < m => <<y, m>> \in OpToRel(<, Nat)
  BY DEF OpToRel
<1>3. \A y \in S : y \in Nat /\ ~(y < m)
  BY <1>1, <1>2
<1>4. m \in Nat
  OBVIOUS
<1>5. \A y \in S : m <= y
  BY <1>3, <1>4
<1> QED BY <1>5

\* NewSections has each name once, with all the keys that were added to it.
LEMMA SectionsShape ==
    ASSUME NEW n \in Nat, NEW added, DOMAIN added = 1..n
    PROVE  LET conf1 == NewSections(added) IN
           /\ DOMAIN conf1 \subseteq 1..n
           /\ \A i \in DOMAIN conf1 : /\ conf1[i].name = added[i].name
                                      /\ conf1[i].keys = Merged(added, added[i].name)
           /\ \A i, j \in DOMAIN conf1 : conf1[i].name = conf1[j].name => i = j
<1> DEFINE conf1 == NewSections(added)
<1>1. DOMAIN conf1 = {i \in 1..n : \A j \in 1..(i - 1) : added[j].name # added[i].name}
  BY DEF NewSections
<1>2. \A i \in DOMAIN conf1 : /\ conf1[i].name = added[i].name
                              /\ conf1[i].keys = Merged(added, added[i].name)
  BY DEF NewSections, Section
<1>3. ASSUME NEW i \in DOMAIN conf1, NEW j \in DOMAIN conf1, added[i].name = added[j].name
      PROVE  i = j
  <2>1. i \in 1..n /\ j \in 1..n
    BY <1>1
  <2>2. ~(i < j) /\ ~(j < i)
    BY <1>1, <1>3, <2>1
  <2> QED BY <2>1, <2>2
<1> HIDE DEF conf1
<1>4. \A i, j \in DOMAIN conf1 : conf1[i].name = conf1[j].name => i = j
  BY <1>2, <1>3
<1> QED BY <1>1, <1>2, <1>4 DEF conf1

\* Every section that was added is in NewSections, at the first place of its name.
LEMMA SectionOf ==
    ASSUME NEW n \in Nat, NEW added, DOMAIN added = 1..n, NEW i \in 1..n
    PROVE  \E k \in DOMAIN NewSections(added) : k <= i /\ added[k].name = added[i].name
<1> DEFINE same == {j \in 1..n : added[j].name = added[i].name}
<1>1. same \subseteq Nat /\ i \in same
  OBVIOUS
<1>2. PICK k \in same : \A j \in same : k <= j
  BY <1>1, LeastOf
<1>3. \A j \in 1..(k - 1) : added[j].name # added[k].name
  BY <1>2
<1>4. k \in DOMAIN NewSections(added)
  BY <1>2, <1>3 DEF NewSections
<1> QED BY <1>1, <1>2, <1>4

\* The value of a key is the one that was added last.
LEMMA MergedKey ==
    ASSUME NEW n \in Nat, NEW added, DOMAIN added = 1..n, NEW name,
           NEW key \in DOMAIN Merged(added, name)
    PROVE  \E m \in 1..n :
              /\ added[m].name = name /\ key \in DOMAIN added[m].keys
              /\ Merged(added, name)[key] = added[m].keys[key]
              /\ \A i \in 1..n : added[i].name = name /\ key \in DOMAIN added[i].keys => i <= m
<1> DEFINE having == {i \in {i \in DOMAIN added : added[i].name = name} :
                        key \in DOMAIN added[i].keys}
<1>1. having \subseteq 1..n /\ having # {}
  BY DEF Merged
<1>2. Merged(added, name)[key] = added[Max(having)].keys[key]
  BY DEF Merged
<1>3. Max(having) \in having /\ \A i \in having : i <= Max(having)
  BY <1>1, MaxOf
<1> QED BY <1>1, <1>2, <1>3

\* No key that was added is lost.
LEMMA MergedDomain ==
    ASSUME NEW added, NEW i \in DOMAIN added, NEW key \in DOMAIN added[i].keys
    PROVE  key \in DOMAIN Merged(added, added[i].name)
BY DEF Merged

\* Some keys with their values
IsKeys(f) == f = [key \in DOMAIN f |-> f[key]]

\* A name that keys were added to once has those.
LEMMA MergedOnce ==
    ASSUME NEW n \in Nat, NEW added, DOMAIN added = 1..n, NEW i \in 1..n,
           \A j \in 1..n : added[j].name = added[i].name => j = i \/ DOMAIN added[j].keys = {},
           IsKeys(added[i].keys)
    PROVE  Merged(added, added[i].name) = added[i].keys
<1> DEFINE all == Merged(added, added[i].name)
<1>1. DOMAIN all = DOMAIN added[i].keys
  BY DEF Merged
<1>2. ASSUME NEW key \in DOMAIN all PROVE all[key] = added[i].keys[key]
  BY <1>2, MergedKey
<1>3. all = [key \in DOMAIN all |-> all[key]]
  BY DEF Merged
<1> HIDE DEF all
<1>4. all = added[i].keys
  BY <1>1, <1>2, <1>3 DEF IsKeys
<1> QED BY <1>4 DEF all

\* What is in the body of a prefix: the keys of its sections.
LEMMA BodyHas ==
    ASSUME NEW n \in Nat, NEW c, DOMAIN c \subseteq 1..n, NEW p
    PROVE  /\ \A i \in DOMAIN c : c[i].name[1] = p =>
                \E k \in DOMAIN Body(c, p) : Body(c, p)[k] = c[i].keys
           /\ \A k \in DOMAIN Body(c, p) :
                \E i \in DOMAIN c : c[i].name[1] = p /\ c[i].keys = Body(c, p)[k]
<1> DEFINE S == {i \in DOMAIN c : c[i].name[1] = p}
<1>1. S \subseteq 1..n
  OBVIOUS
<1>2. InTurn(S) \in Seq(S) /\ \A x \in S : \E k \in DOMAIN InTurn(S) : InTurn(S)[k] = x
  BY <1>1, InTurnOf
<1>3. Body(c, p) = [k \in DOMAIN InTurn(S) |-> c[InTurn(S)[k]].keys]
  BY DEF Body
<1>4. \A k \in DOMAIN InTurn(S) : InTurn(S)[k] \in S
  BY <1>2
<1>5. ASSUME NEW i \in DOMAIN c, c[i].name[1] = p
      PROVE  \E k \in DOMAIN Body(c, p) : Body(c, p)[k] = c[i].keys
  <2>1. PICK k \in DOMAIN InTurn(S) : InTurn(S)[k] = i
    BY <1>2, <1>5
  <2> QED BY <1>3, <2>1
<1>6. ASSUME NEW k \in DOMAIN Body(c, p)
      PROVE  \E i \in DOMAIN c : c[i].name[1] = p /\ c[i].keys = Body(c, p)[k]
  BY <1>3, <1>4
<1> QED BY <1>5, <1>6

\* With the same body, a section of one zuul.conf has its like in the other.
LEMMA SameBody ==
    ASSUME NEW n1 \in Nat, NEW c1, DOMAIN c1 \subseteq 1..n1,
           NEW n2 \in Nat, NEW c2, DOMAIN c2 \subseteq 1..n2,
           NEW p, Body(c1, p) = Body(c2, p), NEW i \in DOMAIN c1, c1[i].name[1] = p
    PROVE  \E j \in DOMAIN c2 : c2[j].name[1] = p /\ c2[j].keys = c1[i].keys
<1>1. PICK k \in DOMAIN Body(c1, p) : Body(c1, p)[k] = c1[i].keys
  BY BodyHas
<1>2. PICK j \in DOMAIN c2 : c2[j].name[1] = p /\ c2[j].keys = Body(c2, p)[k]
  BY BodyHas
<1> QED BY <1>1, <1>2

\* The same sections at the same places have the same body.
LEMMA BodyAgree ==
    ASSUME NEW n \in Nat, NEW c1, DOMAIN c1 \subseteq 1..n, NEW c2, NEW p,
           {i \in DOMAIN c1 : c1[i].name[1] = p} = {i \in DOMAIN c2 : c2[i].name[1] = p},
           \A i \in DOMAIN c1 : c1[i].name[1] = p => c1[i].keys = c2[i].keys
    PROVE  Body(c1, p) = Body(c2, p)
<1> DEFINE S == {i \in DOMAIN c1 : c1[i].name[1] = p}
<1>0. S \subseteq 1..n
  OBVIOUS
<1>1. \A k \in DOMAIN InTurn(S) : InTurn(S)[k] \in S
  BY <1>0, InTurnOf
<1>2. /\ Body(c1, p) = [k \in DOMAIN InTurn(S) |-> c1[InTurn(S)[k]].keys]
      /\ Body(c2, p) = [k \in DOMAIN InTurn(S) |-> c2[InTurn(S)[k]].keys]
  BY DEF Body
<1> QED BY <1>1, <1>2

\* The same holds for the sections as they were added.
LEMMA SectionsAgree ==
    ASSUME NEW n1 \in Nat, NEW a1, DOMAIN a1 = 1..n1,
           NEW n2 \in Nat, NEW a2, DOMAIN a2 = 1..n2, NEW p,
           \A i \in 1..n1 : a1[i].name[1] = p => i \in 1..n2 /\ a2[i] = a1[i],
           \A i \in 1..n2 : a2[i].name[1] = p => i \in 1..n1 /\ a2[i] = a1[i]
    PROVE  Body(NewSections(a1), p) = Body(NewSections(a2), p)
<1> DEFINE b1 == NewSections(a1)
           b2 == NewSections(a2)
           S1 == {i \in DOMAIN b1 : b1[i].name[1] = p}
           S2 == {i \in DOMAIN b2 : b2[i].name[1] = p}
<1>1. /\ S1 = {i \in 1..n1 : a1[i].name[1] = p /\ \A j \in 1..(i - 1) : a1[j].name # a1[i].name}
      /\ S2 = {i \in 1..n2 : a2[i].name[1] = p /\ \A j \in 1..(i - 1) : a2[j].name # a2[i].name}
  BY DEF NewSections, Section
<1>2. S1 \subseteq S2
  <2> SUFFICES ASSUME NEW i \in S1 PROVE i \in S2
    OBVIOUS
  <2>1. i \in 1..n1 /\ i \in 1..n2 /\ a2[i] = a1[i] /\ a2[i].name[1] = p
    BY <1>1
  <2>2. ASSUME NEW j \in 1..(i - 1), a2[j].name = a2[i].name PROVE FALSE
    BY <1>1, <2>1, <2>2
  <2> QED BY <1>1, <2>1, <2>2
<1>3. S2 \subseteq S1
  <2> SUFFICES ASSUME NEW i \in S2 PROVE i \in S1
    OBVIOUS
  <2>1. i \in 1..n1 /\ i \in 1..n2 /\ a2[i] = a1[i] /\ a1[i].name[1] = p
    BY <1>1
  <2>2. ASSUME NEW j \in 1..(i - 1), a1[j].name = a1[i].name PROVE FALSE
    BY <1>1, <2>1, <2>2
  <2> QED BY <1>1, <2>1, <2>2
<1>4. ASSUME NEW name, name[1] = p PROVE Merged(a1, name) = Merged(a2, name)
  <2> DEFINE N1 == {i \in DOMAIN a1 : a1[i].name = name}
             N2 == {i \in DOMAIN a2 : a2[i].name = name}
  <2>1. N1 = N2 /\ \A i \in N1 : a1[i] = a2[i]
    BY <1>4
  <2>2. Merged(a1, name) = [key \in UNION {DOMAIN a1[i].keys : i \in N1} |->
              a1[Max({i \in N1 : key \in DOMAIN a1[i].keys})].keys[key]]
    BY DEF Merged
  <2>3. Merged(a2, name) = [key \in UNION {DOMAIN a2[i].keys : i \in N2} |->
              a2[Max({i \in N2 : key \in DOMAIN a2[i].keys})].keys[key]]
    BY DEF Merged
  <2>4. N1 \subseteq 1..n1
    OBVIOUS
  <2> HIDE DEF N1, N2
  <2>5. UNION {DOMAIN a1[i].keys : i \in N1} = UNION {DOMAIN a2[i].keys : i \in N2}
    BY <2>1
  <2>6. ASSUME NEW key \in UNION {DOMAIN a1[i].keys : i \in N1}
        PROVE  a1[Max({i \in N1 : key \in DOMAIN a1[i].keys})].keys[key]
                  = a2[Max({i \in N2 : key \in DOMAIN a2[i].keys})].keys[key]
    <3> DEFINE H == {i \in N1 : key \in DOMAIN a1[i].keys}
    <3>1. H = {i \in N2 : key \in DOMAIN a2[i].keys}
      BY <2>1
    <3>2. H \subseteq 1..n1 /\ H # {} /\ H \subseteq N1
      BY <2>4
    <3> HIDE DEF H
    <3>3. Max(H) \in N1
      BY <3>2, MaxOf
    <3>4. a1[Max(H)].keys[key] = a2[Max(H)].keys[key]
      BY <2>1, <3>3
    <3> QED BY <3>1, <3>4 DEF H
  <2> QED BY <2>2, <2>3, <2>5, <2>6
<1>5. \A i \in S1 : b1[i].keys = b2[i].keys
  <2> TAKE i \in S1
  <2>1. i \in S2 /\ a1[i].name = a2[i].name /\ a1[i].name[1] = p
    BY <1>1, <1>2
  <2>2. b1[i].keys = Merged(a1, a1[i].name) /\ b2[i].keys = Merged(a2, a2[i].name)
    BY <2>1, SectionsShape
  <2> QED BY <1>4, <2>1, <2>2
<1>6. S1 = S2 /\ S1 \subseteq 1..n1
  BY <1>1, <1>2, <1>3
<1> HIDE DEF b1, b2
<1>7. Body(b1, p) = Body(b2, p)
  <2>1. DOMAIN b1 \subseteq 1..n1
    BY SectionsShape DEF b1
  <2>2. \A i \in DOMAIN b1 : b1[i].name[1] = p => b1[i].keys = b2[i].keys
    BY <1>5
  <2> QED BY <1>6, <2>1, <2>2, BodyAgree
<1> QED BY <1>7 DEF b1, b2

-----------------------------------------------------------------------------
(* The connections of a CR and their sections. *)

\* Two lists, one after the other.
LEMMA Concat ==
    ASSUME NEW A, NEW B, NEW s \in Seq(A), NEW t \in Seq(B)
    PROVE  /\ s \o t \in Seq(A \cup B) /\ Len(s \o t) = Len(s) + Len(t)
           /\ Len(s) \in Nat /\ Len(t) \in Nat
           /\ DOMAIN s = 1..Len(s) /\ DOMAIN t = 1..Len(t)
           /\ DOMAIN (s \o t) = 1..(Len(s) + Len(t))
           /\ \A i \in 1..Len(s) : (s \o t)[i] = s[i]
           /\ \A i \in 1..Len(t) : (s \o t)[Len(s) + i] = t[i]
<1>1. s \in Seq(A \cup B) /\ t \in Seq(A \cup B)
  OBVIOUS
<1>2. s \o t \in Seq(A \cup B) /\ Len(s \o t) = Len(s) + Len(t)
  BY <1>1
<1>3. \A i \in 1..Len(s) : (s \o t)[i] = s[i]
  BY <1>1
<1>4. \A i \in 1..Len(t) : (s \o t)[Len(s) + i] = t[i]
  BY <1>1
<1> QED BY <1>1, <1>2, <1>3, <1>4

LEMMA ConcatRange ==
    ASSUME NEW A, NEW B, NEW s \in Seq(A), NEW t \in Seq(B)
    PROVE  Range(s \o t) = Range(s) \cup Range(t)
<1>1. /\ \A i \in 1..Len(s) : (s \o t)[i] = s[i] /\ i \in 1..(Len(s) + Len(t))
      /\ \A i \in 1..Len(t) : (s \o t)[Len(s) + i] = t[i] /\ Len(s) + i \in 1..(Len(s) + Len(t))
  BY Concat
<1>2. DOMAIN s = 1..Len(s) /\ DOMAIN t = 1..Len(t) /\ DOMAIN (s \o t) = 1..(Len(s) + Len(t))
  BY Concat
<1>3. Len(s) \in Nat /\ Len(t) \in Nat
  BY Concat
<1>4. \A i \in 1..(Len(s) + Len(t)) : i \in 1..Len(s) \/ (i - Len(s) \in 1..Len(t) /\ i = Len(s) + (i - Len(s)))
  BY <1>3
<1>5. ASSUME NEW x \in Range(s \o t) PROVE x \in Range(s) \cup Range(t)
  <2>1. PICK i \in 1..(Len(s) + Len(t)) : x = (s \o t)[i]
    BY <1>2 DEF Range
  <2>2. CASE i \in 1..Len(s)
    BY <1>1, <1>2, <2>1, <2>2 DEF Range
  <2>3. CASE i \notin 1..Len(s)
    <3>1. PICK j \in 1..Len(t) : i = Len(s) + j
      BY <1>4, <2>3
    <3> QED BY <1>1, <1>2, <2>1, <3>1 DEF Range
  <2> QED BY <2>2, <2>3
<1>6. ASSUME NEW x \in Range(s) \cup Range(t) PROVE x \in Range(s \o t)
  BY <1>1, <1>2 DEF Range
<1> QED BY <1>5, <1>6

\* The connections in the order of EnsureZuulConfigSecret are those of the seven
\* lists, each of its driver.
LEMMA InOrderOf ==
    ASSUME NEW c \in CRType
    PROVE  /\ InOrder(c) \in Seq(ConnectionType(Drivers))
           /\ ConnectionsOf(c) =
                 Range(c.conns.gerrit) \cup Range(c.conns.github) \cup Range(c.conns.gitlab)
                 \cup Range(c.conns.pagure) \cup Range(c.conns.git)
                 \cup Range(c.conns.elasticsearch) \cup Range(c.conns.smtp)
           /\ \A d \in Drivers : \A x \in Range(c.conns[d]) : x.driver = d
<1> DEFINE T == ConnectionType(Drivers)
           s1 == c.conns.gerrit
           s2 == c.conns.github
           s3 == c.conns.gitlab
           s4 == c.conns.pagure
           s5 == c.conns.git
           s6 == c.conns.elasticsearch
           s7 == c.conns.smtp
<1>1. /\ s1 \in Connections("gerrit") /\ s2 \in Connections("github")
      /\ s3 \in Connections("gitlab") /\ s4 \in Connections("pagure")
      /\ s5 \in Connections("git") /\ s6 \in Connections("elasticsearch")
      /\ s7 \in Connections("smtp")
  BY DEF CRType
<1>2. ASSUME NEW d \in Drivers, NEW s \in Connections(d)
      PROVE  s \in Seq(T) /\ \A x \in Range(s) : x.driver = d
  <2>1. ConnectionType({d}) \subseteq T
    BY DEF ConnectionType
  <2>2. \A x \in ConnectionType({d}) : x.driver = d
    BY DEF ConnectionType
  <2>3. s \in Seq(ConnectionType({d}))
    BY DEF Connections
  <2>4. \A x \in Range(s) : x \in ConnectionType({d})
    BY <2>3 DEF Range
  <2>5. s \in Seq(T)
    BY <2>1, <2>3
  <2> QED BY <2>2, <2>4, <2>5
<1>3. /\ s1 \in Seq(T) /\ s2 \in Seq(T) /\ s3 \in Seq(T) /\ s4 \in Seq(T)
      /\ s5 \in Seq(T) /\ s6 \in Seq(T) /\ s7 \in Seq(T)
  BY <1>1, <1>2 DEF Drivers
<1>4. \A d \in Drivers : \A x \in Range(c.conns[d]) : x.driver = d
  BY <1>1, <1>2 DEF Drivers
<1>5. InOrder(c) = s1 \o s2 \o s3 \o s4 \o s5 \o s6 \o s7
  BY DEF InOrder
<1> HIDE DEF s1, s2, s3, s4, s5, s6, s7, T
<1>6. ASSUME NEW s \in Seq(T), NEW t \in Seq(T)
      PROVE  s \o t \in Seq(T) /\ Range(s \o t) = Range(s) \cup Range(t)
  BY <1>6, ConcatRange
<1>7. s1 \o s2 \in Seq(T) /\ Range(s1 \o s2) = Range(s1) \cup Range(s2)
  BY <1>3, <1>6
<1>8. s1 \o s2 \o s3 \in Seq(T) /\ Range(s1 \o s2 \o s3) = Range(s1 \o s2) \cup Range(s3)
  BY <1>3, <1>6, <1>7
<1>9. /\ s1 \o s2 \o s3 \o s4 \in Seq(T)
      /\ Range(s1 \o s2 \o s3 \o s4) = Range(s1 \o s2 \o s3) \cup Range(s4)
  BY <1>3, <1>6, <1>8
<1>10. /\ s1 \o s2 \o s3 \o s4 \o s5 \in Seq(T)
       /\ Range(s1 \o s2 \o s3 \o s4 \o s5) = Range(s1 \o s2 \o s3 \o s4) \cup Range(s5)
  BY <1>3, <1>6, <1>9
<1>11. /\ s1 \o s2 \o s3 \o s4 \o s5 \o s6 \in Seq(T)
       /\ Range(s1 \o s2 \o s3 \o s4 \o s5 \o s6) = Range(s1 \o s2 \o s3 \o s4 \o s5) \cup Range(s6)
  BY <1>3, <1>6, <1>10
<1>12. /\ s1 \o s2 \o s3 \o s4 \o s5 \o s6 \o s7 \in Seq(T)
       /\ Range(s1 \o s2 \o s3 \o s4 \o s5 \o s6 \o s7)
            = Range(s1 \o s2 \o s3 \o s4 \o s5 \o s6) \cup Range(s7)
  BY <1>3, <1>6, <1>11
<1>13. Range(InOrder(c)) = Range(s1) \cup Range(s2) \cup Range(s3) \cup Range(s4) \cup Range(s5)
                           \cup Range(s6) \cup Range(s7)
  BY <1>5, <1>7, <1>8, <1>9, <1>10, <1>11, <1>12
<1> QED BY <1>4, <1>5, <1>12, <1>13 DEF ConnectionsOf, s1, s2, s3, s4, s5, s6, s7, T

\* The keys of a Gerrit, an Elasticsearch and an SMTP connection.
LEMMA GerritKeysOf ==
    ASSUME NEW conn \in ConnectionType(Drivers), NEW s
    PROVE  LET keys == AddGerritConnection(conn, s).keys IN
           /\ AddGerritConnection(conn, s).name = Connection(conn.name)
           /\ keys = [k \in DOMAIN keys |-> keys[k]]
           /\ {"driver", "url", "sshkey"} \subseteq DOMAIN keys
           /\ DOMAIN keys \subseteq {"driver", "url", "sshkey", "token"}
           /\ keys.driver = "gerrit" /\ keys.url = conn.url
           /\ \/ keys.sshkey = "zuul-ssh"
              \/ conn.sshkey # Empty /\ keys.sshkey = conn.sshkey
BY DEF AddGerritConnection, Section, Plus

LEMMA ElasticSearchKeysOf ==
    ASSUME NEW conn \in ConnectionType(Drivers), NEW s
    PROVE  LET keys == AddElasticSearchConnection(conn, s).keys IN
           /\ AddElasticSearchConnection(conn, s).name = Connection(conn.name)
           /\ keys = [k \in DOMAIN keys |-> keys[k]]
           /\ {"driver", "url"} \subseteq DOMAIN keys
           /\ DOMAIN keys \subseteq {"driver", "url", "token"}
           /\ keys.driver = "elasticsearch" /\ keys.url = conn.url
BY DEF AddElasticSearchConnection, Section, Plus

LEMMA SMTPKeysOf ==
    ASSUME NEW conn \in ConnectionType(Drivers), NEW s
    PROVE  LET keys == AddSMTPConnection(conn, s).keys IN
           /\ AddSMTPConnection(conn, s).name = Connection(conn.name)
           /\ keys = [k \in DOMAIN keys |-> keys[k]]
           /\ {"driver", "url"} \subseteq DOMAIN keys
           /\ DOMAIN keys \subseteq {"driver", "url", "token"}
           /\ keys.driver = "smtp" /\ keys.url = conn.url
BY DEF AddSMTPConnection, Section, Plus

\* The keys of a connection: its driver and its url, the app_key of a GitHub
\* application, an sshkey that is the one of Zuul or one that the CR names, and the
\* token when the secret has one.
LEMMA ConnectionKeys ==
    ASSUME NEW conn \in ConnectionType(Drivers), NEW s
    PROVE  LET keys == AddConnection(conn, s).keys IN
           /\ AddConnection(conn, s).name = Connection(conn.name)
           /\ {"driver", "url"} \subseteq DOMAIN keys
           /\ DOMAIN keys \subseteq {"driver", "url", "sshkey", "app_key", "token"}
           /\ keys.driver = conn.driver /\ keys.url = conn.url
           /\ keys = [k \in DOMAIN keys |-> keys[k]]
           /\ "app_key" \in DOMAIN keys <=> conn.driver = "github" /\ conn.app
           /\ "app_key" \in DOMAIN keys => keys["app_key"] = conn.secret
           /\ "sshkey" \in DOMAIN keys =>
                 \/ keys["sshkey"] = "zuul-ssh"
                 \/ conn.driver = "gerrit" /\ conn.sshkey # Empty /\ keys["sshkey"] = conn.sshkey
           /\ conn.driver \in {"github", "gitlab", "pagure"} /\ Token(s, conn.secret) # 0 =>
                 "token" \in DOMAIN keys /\ keys["token"] = Token(s, conn.secret)
<1>0. conn.driver \in Drivers /\ conn.app \in BOOLEAN
  BY DEF ConnectionType
<1>1. CASE conn.driver = "gerrit"
  <2>1. AddConnection(conn, s) = AddGerritConnection(conn, s)
    BY <1>1 DEF AddConnection
  <2> DEFINE x == AddGerritConnection(conn, s)
  <2>2. /\ x.name = Connection(conn.name)
        /\ x.keys = [k \in DOMAIN x.keys |-> x.keys[k]]
        /\ x.keys["driver"] = "gerrit" /\ x.keys["url"] = conn.url
        /\ {"driver", "url", "sshkey"} \subseteq DOMAIN x.keys
        /\ DOMAIN x.keys \subseteq {"driver", "url", "sshkey", "token"}
    BY GerritKeysOf
  <2>3. \/ x.keys["sshkey"] = "zuul-ssh"
        \/ conn.sshkey # Empty /\ x.keys["sshkey"] = conn.sshkey
    BY GerritKeysOf
  <2> HIDE DEF x
  <2>4. AddConnection(conn, s) = x
    BY <2>1 DEF x
  <2>5. "app_key" \notin DOMAIN x.keys
    BY <2>2
  <2> QED BY <1>1, <2>2, <2>3, <2>4, <2>5
<1>2. CASE conn.driver = "github"
  <2>1. AddConnection(conn, s) = AddGitHubConnection(conn, s)
    BY <1>2 DEF AddConnection
  <2> DEFINE tok == Token(s, conn.secret)
             first == Plus([driver |-> "github", url |-> conn.url, sshkey |-> "zuul-ssh"],
                           conn.app, "app_key", conn.secret)
  <2>2. /\ DOMAIN first = {"driver", "url", "sshkey"} \cup (IF conn.app THEN {"app_key"} ELSE {})
        /\ first["driver"] = "github" /\ first["url"] = conn.url /\ first["sshkey"] = "zuul-ssh"
        /\ conn.app => first["app_key"] = conn.secret
    BY <1>0 DEF Plus
  <2>3. /\ AddConnection(conn, s).name = Connection(conn.name)
        /\ AddConnection(conn, s).keys = Plus(first, tok # 0, "token", tok)
    BY <2>1 DEF AddGitHubConnection, Section
  <2> HIDE DEF first, tok
  <2> QED BY <1>0, <1>2, <2>2, <2>3 DEF Plus, tok
<1>3. CASE conn.driver = "gitlab"
  <2>1. AddConnection(conn, s) = AddGitLabConnection(conn, s)
    BY <1>3 DEF AddConnection
  <2> QED BY <1>3, <2>1 DEF AddGitLabConnection, Section
<1>4. CASE conn.driver = "pagure"
  <2>1. AddConnection(conn, s) = AddPagureConnection(conn, s)
    BY <1>4 DEF AddConnection
  <2> QED BY <1>4, <2>1 DEF AddPagureConnection, Section, Plus
<1>5. CASE conn.driver = "git"
  <2>1. AddConnection(conn, s) = AddGitConnection(conn.name, conn.url)
    BY <1>5 DEF AddConnection
  <2> QED BY <1>5, <2>1 DEF AddGitConnection, Section
<1>6. CASE conn.driver = "elasticsearch"
  <2>1. AddConnection(conn, s) = AddElasticSearchConnection(conn, s)
    BY <1>6 DEF AddConnection
  <2> QED BY <1>6, <2>1, ElasticSearchKeysOf
<1>7. CASE conn.driver = "smtp"
  <2>1. AddConnection(conn, s) = AddSMTPConnection(conn, s)
    BY <1>7 DEF AddConnection
  <2> QED BY <1>7, <2>1, SMTPKeysOf
<1> QED BY <1>0, <1>1, <1>2, <1>3, <1>4, <1>5, <1>6, <1>7 DEF Drivers

-----------------------------------------------------------------------------
(* The parts of zuul.conf, in the order in which they are added. *)

\* The last place before each part
FromDefaults(c) == 9 + Len(InOrder(c))
FromAuths(c)    == FromDefaults(c) + Len(AddDefaultConnections(c))
FromDefault(c)  == FromAuths(c) + Len(c.auths)
FromSettings(c) == FromDefault(c) + Len(AddDefaultAuth(c))
NumSettings(c)  == IF c.standalone THEN 6 ELSE 8
Total(c)        == FromSettings(c) + NumSettings(c)

\* The sections of the template that get settings
Plain == <<"keystore", "zookeeper", "database", "scheduler", "web", "executor", "merger">>

\* The sections of the template zuul.conf.
LEMMA ZuulDotConfOf ==
    /\ ZuulDotConf \in Seq({ZuulDotConf[i] : i \in 1..9}) /\ Len(ZuulDotConf) = 9
    /\ \A i \in 1..7 : ZuulDotConf[i].name = <<Plain[i]>> /\ ZuulDotConf[i].keys = NoKeys
    /\ ZuulDotConf[8].name = Auth("zuul_client") /\ ZuulDotConf[8].keys = [driver |-> "HS256"]
    /\ ZuulDotConf[9].name = <<"statsd">> /\ ZuulDotConf[9].keys = NoKeys
<1>1. ZuulDotConf \in Seq({ZuulDotConf[i] : i \in 1..9}) /\ Len(ZuulDotConf) = 9
  BY DEF ZuulDotConf
<1>2. \A i \in 1..7 : ZuulDotConf[i].name = <<Plain[i]>> /\ ZuulDotConf[i].keys = NoKeys
  BY DEF ZuulDotConf, Plain, Section
<1>3. /\ ZuulDotConf[8].name = Auth("zuul_client") /\ ZuulDotConf[8].keys = [driver |-> "HS256"]
      /\ ZuulDotConf[9].name = <<"statsd">> /\ ZuulDotConf[9].keys = NoKeys
  BY DEF ZuulDotConf, Section
<1> QED BY <1>1, <1>2, <1>3

\* The sections of AddDefaultConnections: git-server, opendev.org unless the CR has
\* one, and webclient.
LEMMA DefaultsOf ==
    ASSUME NEW c
    PROVE  LET D == AddDefaultConnections(c) IN
           /\ D \in Seq(Range(D)) /\ Len(D) \in {2, 3} /\ DOMAIN D = 1..Len(D)
           /\ \/ D[1] = AddGitConnection("git-server", "git://public/")
              \/ D[1] = AddGitConnection("git-server", "git://git-server/")
           /\ D[Len(D)] = Section(<<"webclient">>, NoKeys)
           /\ "opendev.org" \in ConnNames(c) => Len(D) = 2
           /\ "opendev.org" \notin ConnNames(c) =>
                 Len(D) = 3 /\ D[2] = AddGitConnection("opendev.org", "https://opendev.org/")
<1> DEFINE g == AddGitConnection("git-server", IF c.standalone THEN "git://public/"
                                     ELSE "git://git-server/")
           o == AddGitConnection("opendev.org", "https://opendev.org/")
           w == Section(<<"webclient">>, NoKeys)
           D == AddDefaultConnections(c)
<1>0. \/ g = AddGitConnection("git-server", "git://public/")
      \/ g = AddGitConnection("git-server", "git://git-server/")
  BY DEF AddGitConnection
<1>1. CASE "opendev.org" \in ConnNames(c)
  <2>1. D = <<g>> \o << >> \o <<w>>
    BY <1>1 DEF AddDefaultConnections
  <2> HIDE DEF g, w, D
  <2>2. /\ <<g>> \o << >> \in Seq({g}) /\ Len(<<g>> \o << >>) = 1 /\ (<<g>> \o << >>)[1] = g
    OBVIOUS
  <2>3. <<w>> \in Seq({w}) /\ Len(<<w>>) = 1 /\ <<w>>[1] = w
    OBVIOUS
  <2>4. Len(D) = 2 /\ D[1] = g /\ D[2] = w /\ D \in Seq({g, w})
    BY <2>1, <2>2, <2>3, Concat
  <2>5. D \in Seq(Range(D)) /\ DOMAIN D = 1..Len(D)
    BY <2>4 DEF Range
  <2> QED BY <1>0, <1>1, <2>4, <2>5 DEF w, D
<1>2. CASE "opendev.org" \notin ConnNames(c)
  <2>1. D = <<g>> \o <<o>> \o <<w>>
    BY <1>2 DEF AddDefaultConnections
  <2> HIDE DEF g, o, w, D
  <2>2. /\ <<g>> \o <<o>> \in Seq({g, o}) /\ Len(<<g>> \o <<o>>) = 2
        /\ (<<g>> \o <<o>>)[1] = g /\ (<<g>> \o <<o>>)[2] = o
    <3>1. <<g>> \in Seq({g}) /\ <<o>> \in Seq({o}) /\ Len(<<g>>) = 1 /\ Len(<<o>>) = 1
      OBVIOUS
    <3> QED BY <3>1, Concat
  <2>3. <<w>> \in Seq({w}) /\ Len(<<w>>) = 1 /\ <<w>>[1] = w
    OBVIOUS
  <2>4. Len(D) = 3 /\ D[1] = g /\ D[2] = o /\ D[3] = w
        /\ D \in Seq({g, o} \cup {w})
    <3> DEFINE h == <<g>> \o <<o>>
               v == <<w>>
    <3> HIDE DEF h, v
    <3>1. h \in Seq({g, o}) /\ Len(h) = 2 /\ h[1] = g /\ h[2] = o
      BY <2>2 DEF h
    <3>2. v \in Seq({w}) /\ Len(v) = 1 /\ v[1] = w
      BY <2>3 DEF v
    <3>3. D = h \o v
      BY <2>1 DEF h, v
    <3>4. /\ D \in Seq({g, o} \cup {w}) /\ Len(D) = 2 + 1
          /\ \A i \in 1..2 : D[i] = h[i]
          /\ \A i \in 1..1 : D[2 + i] = v[i]
      <4>1. /\ h \o v \in Seq({g, o} \cup {w}) /\ Len(h \o v) = Len(h) + Len(v)
            /\ \A i \in 1..Len(h) : (h \o v)[i] = h[i]
            /\ \A i \in 1..Len(v) : (h \o v)[Len(h) + i] = v[i]
        <5>1. h \in Seq({g, o}) /\ v \in Seq({w})
          BY <3>1, <3>2
        <5> QED BY <5>1, Concat
      <4> QED BY <3>1, <3>2, <3>3, <4>1, Zenon
    <3>5. D[2 + 1] = w
      BY <3>2, <3>4
    <3> QED BY <3>1, <3>4, <3>5
  <2>5. D \in Seq(Range(D)) /\ DOMAIN D = 1..Len(D)
    BY <2>4 DEF Range
  <2> QED BY <1>0, <1>2, <2>4, <2>5 DEF w, D, o
<1> QED BY <1>1, <1>2

\* AddDefaultAuth adds one key, to one section, or nothing.
LEMMA DefaultAuthOf ==
    ASSUME NEW c
    PROVE  LET E == AddDefaultAuth(c) IN
           /\ E \in Seq(Range(E)) /\ Len(E) \in {0, 1} /\ DOMAIN E = 1..Len(E)
           /\ Len(E) = 1 => \E name : E[1].name = Auth(name) /\ E[1].keys = [default |-> TRUE]
<1> DEFINE name == IF Len(c.auths) = 1 THEN c.auths[1].name ELSE c.defaultAuth
           E == AddDefaultAuth(c)
<1>1. E = IF name = Empty THEN << >> ELSE <<Section(Auth(name), [default |-> TRUE])>>
  BY DEF AddDefaultAuth
<1> HIDE DEF name, E
<1>2. CASE name = Empty
  <2>1. E = << >>
    BY <1>1, <1>2
  <2> QED BY <2>1 DEF E, Range
<1>3. CASE name # Empty
  <2> DEFINE x == Section(Auth(name), [default |-> TRUE])
  <2>1. x.name = Auth(name) /\ x.keys = [default |-> TRUE]
    BY DEF Section
  <2>2. E = <<x>>
    BY <1>1, <1>3
  <2> HIDE DEF x
  <2>3. E \in Seq(Range(E)) /\ Len(E) = 1 /\ DOMAIN E = 1..Len(E) /\ E[1] = x
    BY <2>2 DEF Range
  <2> QED BY <2>1, <2>3 DEF E
<1> QED BY <1>2, <1>3

\* The settings that are added last.
LEMMA SettingsOf ==
    ASSUME NEW c \in CRType, NEW s
    PROVE  LET T == AddSettings(c, s) IN
           /\ T \in Seq(Range(T)) /\ Len(T) = NumSettings(c)
           /\ T[1].name = <<"scheduler">> /\ T[1].keys = [option |-> c.option["scheduler"]]
           /\ T[2].name = <<"executor">>  /\ T[2].keys = [option |-> c.option["executor"]]
           /\ T[3].name = <<"merger">>    /\ T[3].keys = [option |-> c.option["merger"]]
           /\ T[4].name = <<"web">>       /\ T[4].keys = [root |-> c.fqdn]
           /\ T[5].name = <<"zookeeper">> /\ T[5].keys = [public |-> c.standalone]
           /\ T[6].name = <<"keystore">>  /\ T[6].keys = [password |-> s["zuul-keystore-password"]]
           /\ ~c.standalone =>
                /\ T[7].name = <<"database">> /\ T[7].keys = [dburi |-> s["zuul-db-connection"]]
                /\ T[8].name = Auth("zuul_client")
                /\ T[8].keys = [secret |-> s["zuul-auth-secret"], realm |-> c.fqdn]
<1> DEFINE T  == AddSettings(c, s)
           t1 == Section(<<"scheduler">>, [option |-> c.option["scheduler"]])
           t2 == Section(<<"executor">>, [option |-> c.option["executor"]])
           t3 == Section(<<"merger">>, [option |-> c.option["merger"]])
           t4 == Section(<<"web">>, [root |-> c.fqdn])
           t5 == Section(<<"zookeeper">>, [public |-> c.standalone])
           t6 == Section(<<"keystore">>, [password |-> s["zuul-keystore-password"]])
           t7 == Section(<<"database">>, [dburi |-> s["zuul-db-connection"]])
           t8 == Section(Auth("zuul_client"), [secret |-> s["zuul-auth-secret"], realm |-> c.fqdn])
<1>0. c.standalone \in BOOLEAN
  BY DEF CRType
<1>1. /\ t1.name = <<"scheduler">> /\ t1.keys = [option |-> c.option["scheduler"]]
      /\ t2.name = <<"executor">>  /\ t2.keys = [option |-> c.option["executor"]]
      /\ t3.name = <<"merger">>    /\ t3.keys = [option |-> c.option["merger"]]
      /\ t4.name = <<"web">>       /\ t4.keys = [root |-> c.fqdn]
      /\ t5.name = <<"zookeeper">> /\ t5.keys = [public |-> c.standalone]
      /\ t6.name = <<"keystore">>  /\ t6.keys = [password |-> s["zuul-keystore-password"]]
      /\ t7.name = <<"database">>  /\ t7.keys = [dburi |-> s["zuul-db-connection"]]
      /\ t8.name = Auth("zuul_client")
      /\ t8.keys = [secret |-> s["zuul-auth-secret"], realm |-> c.fqdn]
  BY DEF Section
<1>2. T = <<t1, t2, t3, t4, t5, t6>> \o (IF c.standalone THEN << >> ELSE <<t7, t8>>)
  BY DEF AddSettings
<1> HIDE DEF T, t1, t2, t3, t4, t5, t6, t7, t8
<1> DEFINE six == <<t1, t2, t3, t4, t5, t6>>
           two == <<t7, t8>>
<1>3. /\ six \in Seq({t1, t2, t3, t4, t5, t6}) /\ Len(six) = 6
      /\ six[1] = t1 /\ six[2] = t2 /\ six[3] = t3 /\ six[4] = t4 /\ six[5] = t5 /\ six[6] = t6
  OBVIOUS
<1>4. two \in Seq({t7, t8}) /\ Len(two) = 2 /\ two[1] = t7 /\ two[2] = t8
  OBVIOUS
<1> HIDE DEF six, two
<1>5. CASE c.standalone
  <2>1. T = six \o << >>
    BY <1>0, <1>2, <1>5 DEF six
  <2>2. T = six
    BY <1>3, <2>1
  <2>3. T \in Seq(Range(T))
    BY <1>3, <2>2 DEF Range
  <2>4. Len(T) = NumSettings(c)
    BY <1>3, <1>5, <2>2 DEF NumSettings
  <2> QED BY <1>1, <1>3, <1>5, <2>2, <2>3, <2>4 DEF T
<1>6. CASE ~c.standalone
  <2>1. T = six \o two
    BY <1>0, <1>2, <1>6 DEF six, two
  <2>2. /\ T \in Seq({t1, t2, t3, t4, t5, t6} \cup {t7, t8}) /\ Len(T) = 8
        /\ \A i \in 1..6 : T[i] = six[i]
        /\ \A i \in 1..2 : T[6 + i] = two[i]
    <3> DEFINE A == {t1, t2, t3, t4, t5, t6}
               B == {t7, t8}
    <3> HIDE DEF A, B
    <3>1. six \in Seq(A) /\ two \in Seq(B) /\ Len(six) = 6 /\ Len(two) = 2
      BY <1>3, <1>4 DEF A, B
    <3>2. /\ T \in Seq(A \cup B) /\ Len(T) = 6 + 2
          /\ \A i \in 1..6 : T[i] = six[i]
          /\ \A i \in 1..2 : T[6 + i] = two[i]
      <4>1. /\ six \o two \in Seq(A \cup B) /\ Len(six \o two) = Len(six) + Len(two)
            /\ \A i \in 1..Len(six) : (six \o two)[i] = six[i]
            /\ \A i \in 1..Len(two) : (six \o two)[Len(six) + i] = two[i]
        <5>1. six \in Seq(A) /\ two \in Seq(B)
          BY <3>1
        <5> QED BY <5>1, Concat
      <4> QED BY <2>1, <3>1, <4>1, Zenon
    <3> QED BY <3>2 DEF A, B
  <2>3. T \in Seq(Range(T))
    <3> DEFINE A == {t1, t2, t3, t4, t5, t6} \cup {t7, t8}
    <3> HIDE DEF A
    <3>1. T \in Seq(A)
      BY <2>2 DEF A
    <3> QED BY <3>1 DEF Range
  <2>4. Len(T) = NumSettings(c)
    BY <1>6, <2>2 DEF NumSettings
  <2>5. /\ T[1] = t1 /\ T[2] = t2 /\ T[3] = t3 /\ T[4] = t4 /\ T[5] = t5 /\ T[6] = t6
    BY <1>3, <2>2
  <2>6. T[6 + 1] = t7 /\ T[6 + 2] = t8
    BY <1>4, <2>2
  <2>7. T[7] = t7 /\ T[8] = t8
    BY <2>6
  <2> QED BY <1>1, <1>6, <2>3, <2>4, <2>5, <2>7 DEF T
<1> QED BY <1>0, <1>5, <1>6

\* The parts follow each other.
LEMMA OffsetsOf ==
    ASSUME NEW c \in CRType
    PROVE  /\ Len(InOrder(c)) \in Nat /\ DOMAIN InOrder(c) = 1..Len(InOrder(c))
           /\ Len(AddDefaultConnections(c)) \in {2, 3}
           /\ DOMAIN AddDefaultConnections(c) = 1..Len(AddDefaultConnections(c))
           /\ Len(c.auths) \in Nat /\ DOMAIN c.auths = 1..Len(c.auths)
           /\ Len(AddDefaultAuth(c)) \in {0, 1}
           /\ DOMAIN AddDefaultAuth(c) = 1..Len(AddDefaultAuth(c))
           /\ NumSettings(c) \in {6, 8} /\ c.standalone \in BOOLEAN
           /\ FromDefaults(c) \in Nat /\ FromAuths(c) \in Nat /\ FromDefault(c) \in Nat
           /\ FromSettings(c) \in Nat /\ Total(c) \in Nat
           /\ 9 <= FromDefaults(c) /\ FromDefaults(c) < FromAuths(c)
           /\ FromAuths(c) <= FromDefault(c) /\ FromDefault(c) <= FromSettings(c)
           /\ FromSettings(c) < Total(c)
<1>1. Len(InOrder(c)) \in Nat /\ DOMAIN InOrder(c) = 1..Len(InOrder(c))
  BY InOrderOf
<1>2. /\ Len(AddDefaultConnections(c)) \in {2, 3}
      /\ DOMAIN AddDefaultConnections(c) = 1..Len(AddDefaultConnections(c))
  BY DefaultsOf
<1>3. Len(c.auths) \in Nat /\ DOMAIN c.auths = 1..Len(c.auths)
  <2>1. c.auths \in Seq([name : STRING, realm : STRING])
    BY DEF CRType
  <2> QED BY <2>1
<1>4. /\ Len(AddDefaultAuth(c)) \in {0, 1}
      /\ DOMAIN AddDefaultAuth(c) = 1..Len(AddDefaultAuth(c))
  BY DefaultAuthOf
<1>5. NumSettings(c) \in {6, 8} /\ c.standalone \in BOOLEAN
  BY DEF NumSettings, CRType
<1>6. /\ FromDefaults(c) \in Nat /\ 9 <= FromDefaults(c)
  BY <1>1 DEF FromDefaults
<1>7. FromAuths(c) \in Nat /\ FromDefaults(c) < FromAuths(c)
  BY <1>2, <1>6 DEF FromAuths
<1>8. FromDefault(c) \in Nat /\ FromAuths(c) <= FromDefault(c)
  BY <1>3, <1>7 DEF FromDefault
<1>9. FromSettings(c) \in Nat /\ FromDefault(c) <= FromSettings(c)
  BY <1>4, <1>8 DEF FromSettings
<1>10. Total(c) \in Nat /\ FromSettings(c) < Total(c)
  BY <1>5, <1>9 DEF Total
<1> QED BY <1>1, <1>2, <1>3, <1>4, <1>5, <1>6, <1>7, <1>8, <1>9, <1>10, Zenon

\* Which section is added at which place.
LEMMA ConfShape ==
    ASSUME NEW c \in CRType, NEW s
    PROVE  LET a == ZuulConf(c, s) IN
           /\ DOMAIN a = 1..Total(c)
           /\ \A i \in 1..9 : a[i] = ZuulDotConf[i]
           /\ \A i \in 1..Len(InOrder(c)) : a[9 + i] = AddConnection(InOrder(c)[i], s)
           /\ \A i \in 1..Len(AddDefaultConnections(c)) :
                 a[FromDefaults(c) + i] = AddDefaultConnections(c)[i]
           /\ \A i \in 1..Len(c.auths) : a[FromAuths(c) + i] = AddOIDCAuthenticator(c.auths[i])
           /\ \A i \in 1..Len(AddDefaultAuth(c)) : a[FromDefault(c) + i] = AddDefaultAuth(c)[i]
           /\ \A i \in 1..NumSettings(c) : a[FromSettings(c) + i] = AddSettings(c, s)[i]
<1> DEFINE n2 == Len(InOrder(c))
           n3 == Len(AddDefaultConnections(c))
           n4 == Len(c.auths)
           n5 == Len(AddDefaultAuth(c))
           n6 == NumSettings(c)
           s1 == ZuulDotConf
           s2 == [i \in DOMAIN InOrder(c) |-> AddConnection(InOrder(c)[i], s)]
           s3 == AddDefaultConnections(c)
           s4 == [i \in DOMAIN c.auths |-> AddOIDCAuthenticator(c.auths[i])]
           s5 == AddDefaultAuth(c)
           s6 == AddSettings(c, s)
           T1 == {s1[i] : i \in 1..9}
           T2 == {s2[i] : i \in 1..n2}
           T3 == Range(s3)
           T4 == {s4[i] : i \in 1..n4}
           T5 == Range(s5)
           T6 == Range(s6)
           u2 == s1 \o s2
           u3 == u2 \o s3
           u4 == u3 \o s4
           u5 == u4 \o s5
           u6 == u5 \o s6
<1>0. ZuulConf(c, s) = u6
  BY DEF ZuulConf
<1>1. s1 \in Seq(T1) /\ Len(s1) = 9
  BY ZuulDotConfOf
<1>2. s2 \in Seq(T2) /\ Len(s2) = n2 /\ \A i \in 1..n2 : s2[i] = AddConnection(InOrder(c)[i], s)
  <2>1. n2 \in Nat /\ DOMAIN InOrder(c) = 1..n2
    BY OffsetsOf
  <2> HIDE DEF n2
  <2> QED BY <2>1
<1>3. s3 \in Seq(T3)
  BY DefaultsOf
<1>4. s4 \in Seq(T4) /\ Len(s4) = n4 /\ \A i \in 1..n4 : s4[i] = AddOIDCAuthenticator(c.auths[i])
  <2>1. n4 \in Nat /\ DOMAIN c.auths = 1..n4
    BY OffsetsOf
  <2> HIDE DEF n4
  <2>2. s4 = [i \in 1..n4 |-> AddOIDCAuthenticator(c.auths[i])]
    BY <2>1
  <2> HIDE DEF s4
  <2> QED BY <2>1, <2>2
<1>5. s5 \in Seq(T5)
  BY DefaultAuthOf
<1>6. s6 \in Seq(T6) /\ Len(s6) = n6
  BY SettingsOf
<1>7. /\ FromDefaults(c) = 9 + n2 /\ FromAuths(c) = FromDefaults(c) + n3
      /\ FromDefault(c) = FromAuths(c) + n4 /\ FromSettings(c) = FromDefault(c) + n5
      /\ Total(c) = FromSettings(c) + n6
  BY DEF FromDefaults, FromAuths, FromDefault, FromSettings, Total
<1>8. n3 = Len(s3) /\ n5 = Len(s5)
  OBVIOUS
<1>9. n2 \in Nat /\ n3 \in Nat /\ n4 \in Nat /\ n5 \in Nat /\ n6 \in Nat
  BY OffsetsOf
<1> HIDE DEF n2, n3, n4, n5, n6, s1, s2, s3, s4, s5, s6, T1, T2, T3, T4, T5, T6
<1>10. /\ u2 \in Seq(T1 \cup T2) /\ Len(u2) = FromDefaults(c)
       /\ \A i \in 1..9 : u2[i] = s1[i]
       /\ \A i \in 1..n2 : u2[9 + i] = s2[i]
  <2>1. s1 \in Seq(T1) /\ s2 \in Seq(T2)
    BY <1>1, <1>2
  <2>2. /\ s1 \o s2 \in Seq((T1) \cup T2) /\ Len(s1 \o s2) = Len(s1) + Len(s2)
        /\ \A i \in 1..Len(s1) : (s1 \o s2)[i] = s1[i]
        /\ \A i \in 1..Len(s2) : (s1 \o s2)[Len(s1) + i] = s2[i]
    BY <2>1, Concat
  <2> QED BY <1>1, <1>2, <1>7, <2>2, Zenon
<1> HIDE DEF u2
<1>11. /\ u3 \in Seq(T1 \cup T2 \cup T3) /\ Len(u3) = FromAuths(c)
       /\ \A i \in 1..FromDefaults(c) : u3[i] = u2[i]
       /\ \A i \in 1..n3 : u3[FromDefaults(c) + i] = s3[i]
  <2>1. u2 \in Seq(T1 \cup T2) /\ s3 \in Seq(T3)
    BY <1>10, <1>3
  <2>2. /\ u2 \o s3 \in Seq((T1 \cup T2) \cup T3) /\ Len(u2 \o s3) = Len(u2) + Len(s3)
        /\ \A i \in 1..Len(u2) : (u2 \o s3)[i] = u2[i]
        /\ \A i \in 1..Len(s3) : (u2 \o s3)[Len(u2) + i] = s3[i]
    BY <2>1, Concat
  <2> QED BY <1>10, <1>3, <1>7, <1>8, <2>2, Zenon
<1> HIDE DEF u3
<1>12. /\ u4 \in Seq(T1 \cup T2 \cup T3 \cup T4) /\ Len(u4) = FromDefault(c)
       /\ \A i \in 1..FromAuths(c) : u4[i] = u3[i]
       /\ \A i \in 1..n4 : u4[FromAuths(c) + i] = s4[i]
  <2>1. u3 \in Seq(T1 \cup T2 \cup T3) /\ s4 \in Seq(T4)
    BY <1>11, <1>4
  <2>2. /\ u3 \o s4 \in Seq((T1 \cup T2 \cup T3) \cup T4) /\ Len(u3 \o s4) = Len(u3) + Len(s4)
        /\ \A i \in 1..Len(u3) : (u3 \o s4)[i] = u3[i]
        /\ \A i \in 1..Len(s4) : (u3 \o s4)[Len(u3) + i] = s4[i]
    BY <2>1, Concat
  <2> QED BY <1>11, <1>4, <1>7, <2>2, Zenon
<1> HIDE DEF u4
<1>13. /\ u5 \in Seq(T1 \cup T2 \cup T3 \cup T4 \cup T5) /\ Len(u5) = FromSettings(c)
       /\ \A i \in 1..FromDefault(c) : u5[i] = u4[i]
       /\ \A i \in 1..n5 : u5[FromDefault(c) + i] = s5[i]
  <2>1. u4 \in Seq(T1 \cup T2 \cup T3 \cup T4) /\ s5 \in Seq(T5)
    BY <1>12, <1>5
  <2>2. /\ u4 \o s5 \in Seq((T1 \cup T2 \cup T3 \cup T4) \cup T5) /\ Len(u4 \o s5) = Len(u4) + Len(s5)
        /\ \A i \in 1..Len(u4) : (u4 \o s5)[i] = u4[i]
        /\ \A i \in 1..Len(s5) : (u4 \o s5)[Len(u4) + i] = s5[i]
    BY <2>1, Concat
  <2> QED BY <1>12, <1>5, <1>7, <1>8, <2>2, Zenon
<1> HIDE DEF u5
<1>14. /\ u6 \in Seq(T1 \cup T2 \cup T3 \cup T4 \cup T5 \cup T6) /\ Len(u6) = Total(c)
       /\ \A i \in 1..FromSettings(c) : u6[i] = u5[i]
       /\ \A i \in 1..n6 : u6[FromSettings(c) + i] = s6[i]
  <2>1. u5 \in Seq(T1 \cup T2 \cup T3 \cup T4 \cup T5) /\ s6 \in Seq(T6)
    BY <1>13, <1>6
  <2>2. /\ u5 \o s6 \in Seq((T1 \cup T2 \cup T3 \cup T4 \cup T5) \cup T6) /\ Len(u5 \o s6) = Len(u5) + Len(s6)
        /\ \A i \in 1..Len(u5) : (u5 \o s6)[i] = u5[i]
        /\ \A i \in 1..Len(s6) : (u5 \o s6)[Len(u5) + i] = s6[i]
    BY <2>1, Concat
  <2> QED BY <1>13, <1>6, <1>7, <2>2, Zenon
<1> HIDE DEF u6
<1>15. DOMAIN u6 = 1..Total(c)
  <2> DEFINE T == T1 \cup T2 \cup T3 \cup T4 \cup T5 \cup T6
  <2>1. u6 \in Seq(T)
    BY <1>14
  <2> HIDE DEF T
  <2>2. DOMAIN u6 = 1..Len(u6)
    BY <2>1
  <2> QED BY <1>14, <2>2, Zenon
<1>16. /\ 1..9 \subseteq 1..FromDefaults(c) /\ 1..FromDefaults(c) \subseteq 1..FromAuths(c)
       /\ 1..FromAuths(c) \subseteq 1..FromDefault(c)
       /\ 1..FromDefault(c) \subseteq 1..FromSettings(c)
  BY OffsetsOf
<1>17. /\ \A i \in 1..FromDefault(c) : u6[i] = u4[i]
       /\ \A i \in 1..FromAuths(c) : u6[i] = u3[i]
       /\ \A i \in 1..FromDefaults(c) : u6[i] = u2[i]
  <2>1. \A i \in 1..FromDefault(c) : u6[i] = u4[i]
    BY <1>13, <1>14, <1>16, Zenon
  <2>2. \A i \in 1..FromAuths(c) : u6[i] = u3[i]
    BY <1>12, <1>16, <2>1, Zenon
  <2>3. \A i \in 1..FromDefaults(c) : u6[i] = u2[i]
    BY <1>11, <1>16, <2>2, Zenon
  <2> QED BY <2>1, <2>2, <2>3
<1>18. /\ \A i \in 1..n2 : 9 + i \in 1..FromDefaults(c)
       /\ \A i \in 1..n3 : FromDefaults(c) + i \in 1..FromAuths(c)
       /\ \A i \in 1..n4 : FromAuths(c) + i \in 1..FromDefault(c)
       /\ \A i \in 1..n5 : FromDefault(c) + i \in 1..FromSettings(c)
  <2>1. FromDefaults(c) \in Nat /\ FromAuths(c) \in Nat /\ FromDefault(c) \in Nat
    BY OffsetsOf
  <2> QED BY <1>7, <1>9, <2>1
<1>19. \A i \in 1..9 : u6[i] = s1[i]
  BY <1>10, <1>16, <1>17, Zenon
<1>20. \A i \in 1..n2 : u6[9 + i] = s2[i]
  BY <1>10, <1>17, <1>18, Zenon
<1>21. \A i \in 1..n3 : u6[FromDefaults(c) + i] = s3[i]
  BY <1>11, <1>17, <1>18, Zenon
<1>22. \A i \in 1..n4 : u6[FromAuths(c) + i] = s4[i]
  BY <1>12, <1>17, <1>18, Zenon
<1>23. \A i \in 1..n5 : u6[FromDefault(c) + i] = s5[i]
  BY <1>13, <1>14, <1>18, Zenon
<1> QED BY <1>0, <1>2, <1>4, <1>14, <1>15, <1>19, <1>20, <1>21, <1>22, <1>23
        DEF n2, n3, n4, n5, n6, s1, s3, s5, s6

\* Every place belongs to one of the parts.
LEMMA PlaceOf ==
    ASSUME NEW c \in CRType, NEW i \in 1..Total(c)
    PROVE  \/ i \in 1..9
           \/ \E k \in 1..Len(InOrder(c)) : i = 9 + k
           \/ \E k \in 1..Len(AddDefaultConnections(c)) : i = FromDefaults(c) + k
           \/ \E k \in 1..Len(c.auths) : i = FromAuths(c) + k
           \/ \E k \in 1..Len(AddDefaultAuth(c)) : i = FromDefault(c) + k
           \/ \E k \in 1..NumSettings(c) : i = FromSettings(c) + k
<1> DEFINE n2 == Len(InOrder(c))
           n3 == Len(AddDefaultConnections(c))
           n4 == Len(c.auths)
           n5 == Len(AddDefaultAuth(c))
           n6 == NumSettings(c)
<1>1. n2 \in Nat /\ n3 \in Nat /\ n4 \in Nat /\ n5 \in Nat /\ n6 \in Nat
  BY OffsetsOf
<1>2. /\ FromDefaults(c) = 9 + n2 /\ FromAuths(c) = FromDefaults(c) + n3
      /\ FromDefault(c) = FromAuths(c) + n4 /\ FromSettings(c) = FromDefault(c) + n5
      /\ Total(c) = FromSettings(c) + n6
  BY DEF FromDefaults, FromAuths, FromDefault, FromSettings, Total
<1> HIDE DEF n2, n3, n4, n5, n6
<1>3. ASSUME NEW x \in Nat, NEW y \in Nat, x < i, i <= x + y
      PROVE  \E k \in 1..y : i = x + k
  <2>1. i - x \in 1..y /\ i = x + (i - x)
    BY <1>3
  <2> QED BY <2>1
<1>4. /\ FromDefaults(c) \in Nat /\ FromAuths(c) \in Nat /\ FromDefault(c) \in Nat
      /\ FromSettings(c) \in Nat /\ Total(c) \in Nat
  BY OffsetsOf
<1>5. CASE i <= 9
  BY <1>5
<1>6. CASE 9 < i /\ i <= FromDefaults(c)
  BY <1>1, <1>2, <1>3, <1>6 DEF n2
<1>7. CASE FromDefaults(c) < i /\ i <= FromAuths(c)
  BY <1>1, <1>2, <1>3, <1>4, <1>7 DEF n3
<1>8. CASE FromAuths(c) < i /\ i <= FromDefault(c)
  BY <1>1, <1>2, <1>3, <1>4, <1>8 DEF n4
<1>9. CASE FromDefault(c) < i /\ i <= FromSettings(c)
  BY <1>1, <1>2, <1>3, <1>4, <1>9 DEF n5
<1>10. CASE FromSettings(c) < i /\ i <= Total(c)
  BY <1>1, <1>2, <1>3, <1>4, <1>10 DEF n6
<1>11. i \in Nat /\ i <= Total(c)
  BY <1>4
<1> QED BY <1>4, <1>5, <1>6, <1>7, <1>8, <1>9, <1>10, <1>11

\* A name determines the prefix and what follows it.
LEMMA NamePrefixes ==
    /\ \A x : Connection(x)[1] = "connection" /\ Auth(x)[1] = "auth" /\ <<x>>[1] = x
    /\ \A x, y : Connection(x) = Connection(y) => x = y
    /\ \A x, y : Auth(x) = Auth(y) => x = y
<1>1. \A x : Connection(x)[1] = "connection" /\ Connection(x)[2] = x
  BY DEF Connection
<1>2. \A x : Auth(x)[1] = "auth" /\ Auth(x)[2] = x
  BY DEF Auth
<1>3. \A x : <<x>>[1] = x
  OBVIOUS
<1>4. ASSUME NEW x, NEW y, Connection(x) = Connection(y) PROVE x = y
  <2>1. Connection(x)[2] = Connection(y)[2]
    BY <1>4
  <2> QED BY <1>1, <2>1
<1>5. ASSUME NEW x, NEW y, Auth(x) = Auth(y) PROVE x = y
  <2>1. Auth(x)[2] = Auth(y)[2]
    BY <1>5
  <2> QED BY <1>2, <2>1
<1> QED BY <1>1, <1>2, <1>3, <1>4, <1>5

\* The section of a connection of the CR.
LEMMA ConnectionOf ==
    ASSUME NEW c \in CRType, NEW s, NEW k \in 1..Len(InOrder(c))
    PROVE  /\ InOrder(c)[k] \in ConnectionType(Drivers) /\ InOrder(c)[k] \in ConnectionsOf(c)
           /\ ZuulConf(c, s)[9 + k].name = Connection(InOrder(c)[k].name)
           /\ ZuulConf(c, s)[9 + k].keys = AddConnection(InOrder(c)[k], s).keys
<1>1. k \in DOMAIN InOrder(c)
  BY OffsetsOf
<1>2. InOrder(c)[k] \in ConnectionType(Drivers)
  BY <1>1, InOrderOf
<1>3. InOrder(c)[k] \in ConnectionsOf(c)
  BY <1>1 DEF ConnectionsOf, Range
<1>4. ZuulConf(c, s)[9 + k] = AddConnection(InOrder(c)[k], s)
  BY ConfShape
<1>5. AddConnection(InOrder(c)[k], s).name = Connection(InOrder(c)[k].name)
  BY <1>2, ConnectionKeys
<1> QED BY <1>2, <1>3, <1>4, <1>5

\* The names of git-server, opendev.org and webclient
LEMMA DefaultsNames ==
    ASSUME NEW c \in CRType
    PROVE  LET D == AddDefaultConnections(c) IN
           /\ D[1].name = Connection("git-server") /\ D[1].keys.driver = "git"
           /\ DOMAIN D[1].keys = {"driver", "url"}
           /\ D[1].keys.url \in {"git://git-server/", "git://public/"}
           /\ D[Len(D)].name = <<"webclient">> /\ DOMAIN D[Len(D)].keys = {}
           /\ "opendev.org" \in ConnNames(c) => Len(D) = 2
           /\ "opendev.org" \notin ConnNames(c) =>
                 /\ Len(D) = 3 /\ D[2].name = Connection("opendev.org")
                 /\ DOMAIN D[2].keys = {"driver", "url"}
                 /\ D[2].keys.url = "https://opendev.org/"
<1> DEFINE D == AddDefaultConnections(c)
<1>1. ASSUME NEW name, NEW url
      PROVE  /\ AddGitConnection(name, url).name = Connection(name)
             /\ AddGitConnection(name, url).keys.driver = "git"
             /\ AddGitConnection(name, url).keys.url = url
             /\ DOMAIN AddGitConnection(name, url).keys = {"driver", "url"}
  BY DEF AddGitConnection, Section
<1>2. /\ Section(<<"webclient">>, NoKeys).name = <<"webclient">>
      /\ DOMAIN Section(<<"webclient">>, NoKeys).keys = {}
  BY DEF Section, NoKeys
<1>3. /\ \/ D[1] = AddGitConnection("git-server", "git://public/")
         \/ D[1] = AddGitConnection("git-server", "git://git-server/")
      /\ D[Len(D)] = Section(<<"webclient">>, NoKeys)
      /\ "opendev.org" \in ConnNames(c) => Len(D) = 2
      /\ "opendev.org" \notin ConnNames(c) =>
            Len(D) = 3 /\ D[2] = AddGitConnection("opendev.org", "https://opendev.org/")
  BY DefaultsOf
<1> HIDE DEF D
<1>4. /\ D[1].name = Connection("git-server") /\ D[1].keys.driver = "git"
      /\ DOMAIN D[1].keys = {"driver", "url"}
      /\ D[1].keys.url \in {"git://git-server/", "git://public/"}
  BY <1>1, <1>3
<1>5. D[Len(D)].name = <<"webclient">> /\ DOMAIN D[Len(D)].keys = {}
  BY <1>2, <1>3
<1>6. "opendev.org" \notin ConnNames(c) =>
         /\ Len(D) = 3 /\ D[2].name = Connection("opendev.org")
         /\ DOMAIN D[2].keys = {"driver", "url"}
         /\ D[2].keys.url = "https://opendev.org/"
  BY <1>1, <1>3
<1> QED BY <1>3, <1>4, <1>5, <1>6 DEF D

\* The section of an authenticator.
LEMMA AuthOf ==
    ASSUME NEW auth
    PROVE  LET x == AddOIDCAuthenticator(auth) IN
           /\ x.name = Auth(auth.name) /\ DOMAIN x.keys = {"driver", "realm"}
           /\ x.keys.driver = "OpenIDConnect" /\ x.keys.realm = auth.realm
BY DEF AddOIDCAuthenticator, Section

\* Where the sections of AddSettings are, for those of zuul.conf
SettingOf == <<6, 5, 7, 1, 4, 2, 3>>

\* The settings fill the sections of the template, and zuul_client.
LEMMA SettingsNames ==
    ASSUME NEW c \in CRType, NEW s
    PROVE  LET T == AddSettings(c, s) IN
           /\ \A b \in 1..7 : (b = 3 /\ c.standalone) \/ T[SettingOf[b]].name = <<Plain[b]>>
           /\ ~c.standalone => T[8].name = Auth("zuul_client")
           /\ \A k \in 1..NumSettings(c) :
                 \/ \E b \in 1..7 : k = SettingOf[b] /\ (b = 3 => ~c.standalone)
                 \/ k = 8 /\ ~c.standalone
<1> DEFINE T == AddSettings(c, s)
<1>1. /\ T[1].name = <<"scheduler">> /\ T[2].name = <<"executor">> /\ T[3].name = <<"merger">>
      /\ T[4].name = <<"web">> /\ T[5].name = <<"zookeeper">> /\ T[6].name = <<"keystore">>
      /\ ~c.standalone => T[7].name = <<"database">> /\ T[8].name = Auth("zuul_client")
  BY SettingsOf
<1>2. c.standalone \in BOOLEAN
  BY OffsetsOf
<1> HIDE DEF T
<1>3. \A b \in 1..7 : (b = 3 /\ c.standalone) \/ T[SettingOf[b]].name = <<Plain[b]>>
  BY <1>1, <1>2 DEF SettingOf, Plain
<1>4. \A k \in 1..NumSettings(c) :
         \/ \E b \in 1..7 : k = SettingOf[b] /\ (b = 3 => ~c.standalone)
         \/ k = 8 /\ ~c.standalone
  <2>1. SettingOf[1] = 6 /\ SettingOf[2] = 5 /\ SettingOf[3] = 7 /\ SettingOf[4] = 1
        /\ SettingOf[5] = 4 /\ SettingOf[6] = 2 /\ SettingOf[7] = 3
    BY DEF SettingOf
  <2>2. CASE c.standalone
    BY <2>1, <2>2 DEF NumSettings
  <2>3. CASE ~c.standalone
    BY <2>1, <2>3 DEF NumSettings
  <2> QED BY <1>2, <2>2, <2>3
<1> QED BY <1>1, <1>3, <1>4 DEF T

\* The first parts of the names
LEMMA PrefixOf ==
    ASSUME NEW c \in CRType, NEW s
    PROVE  LET a == ZuulConf(c, s) IN
           /\ \A i \in 1..7 : a[i].name[1] = Plain[i]
           /\ a[8].name[1] = "auth" /\ a[9].name[1] = "statsd"
           /\ \A k \in 1..Len(InOrder(c)) : a[9 + k].name[1] = "connection"
           /\ a[FromDefaults(c) + 1].name[1] = "connection"
           /\ Len(AddDefaultConnections(c)) = 3 => a[FromDefaults(c) + 2].name[1] = "connection"
           /\ a[FromAuths(c)].name[1] = "webclient"
           /\ \A k \in 1..Len(c.auths) : a[FromAuths(c) + k].name[1] = "auth"
           /\ \A k \in 1..Len(AddDefaultAuth(c)) : a[FromDefault(c) + k].name[1] = "auth"
           /\ \A b \in 1..7 : (b = 3 /\ c.standalone) \/ a[FromSettings(c) + SettingOf[b]].name[1] = Plain[b]
           /\ ~c.standalone => a[FromSettings(c) + 8].name[1] = "auth"
<1> DEFINE a == ZuulConf(c, s)
           D == AddDefaultConnections(c)
<1>1. /\ \A i \in 1..7 : a[i].name[1] = Plain[i]
      /\ a[8].name[1] = "auth" /\ a[9].name[1] = "statsd"
  <2>1. \A i \in 1..9 : a[i] = ZuulDotConf[i]
    BY ConfShape
  <2> HIDE DEF a
  <2> QED BY <2>1, ZuulDotConfOf, NamePrefixes
<1>2. \A k \in 1..Len(InOrder(c)) : a[9 + k].name[1] = "connection"
  BY ConnectionOf, NamePrefixes
<1>3. /\ a[FromDefaults(c) + 1].name[1] = "connection"
      /\ Len(D) = 3 => a[FromDefaults(c) + 2].name[1] = "connection"
      /\ a[FromAuths(c)].name[1] = "webclient"
  <2>1. \A i \in 1..Len(D) : a[FromDefaults(c) + i] = D[i]
    BY ConfShape
  <2>2. Len(D) \in {2, 3} /\ FromAuths(c) = FromDefaults(c) + Len(D)
    BY OffsetsOf DEF FromAuths
  <2>3. /\ D[1].name[1] = "connection" /\ D[Len(D)].name[1] = "webclient"
        /\ Len(D) = 3 => D[2].name[1] = "connection"
    BY DefaultsNames, NamePrefixes
  <2> HIDE DEF a, D
  <2> QED BY <2>1, <2>2, <2>3
<1>4. \A k \in 1..Len(c.auths) : a[FromAuths(c) + k].name[1] = "auth"
  BY ConfShape, AuthOf, NamePrefixes
<1>5. \A k \in 1..Len(AddDefaultAuth(c)) : a[FromDefault(c) + k].name[1] = "auth"
  <2>1. \A k \in 1..Len(AddDefaultAuth(c)) : a[FromDefault(c) + k] = AddDefaultAuth(c)[k]
    BY ConfShape
  <2>2. \A k \in 1..Len(AddDefaultAuth(c)) : k = 1 /\ Len(AddDefaultAuth(c)) = 1
    <3> DEFINE e == Len(AddDefaultAuth(c))
    <3>1. e \in {0, 1}
      BY OffsetsOf
    <3> HIDE DEF e
    <3>2. \A k \in 1..e : k = 1 /\ e = 1
      BY <3>1
    <3> QED BY <3>2 DEF e
  <2>3. Len(AddDefaultAuth(c)) = 1 => AddDefaultAuth(c)[1].name[1] = "auth"
    BY DefaultAuthOf, NamePrefixes
  <2> HIDE DEF a
  <2> QED BY <2>1, <2>2, <2>3
<1>6. /\ \A b \in 1..7 : (b = 3 /\ c.standalone) \/ a[FromSettings(c) + SettingOf[b]].name[1] = Plain[b]
      /\ ~c.standalone => a[FromSettings(c) + 8].name[1] = "auth"
  <2>1. \A k \in 1..NumSettings(c) : a[FromSettings(c) + k] = AddSettings(c, s)[k]
    BY ConfShape
  <2>2. /\ \A b \in 1..7 : (b = 3 /\ c.standalone) \/ SettingOf[b] \in 1..NumSettings(c)
        /\ ~c.standalone => 8 \in 1..NumSettings(c)
    BY OffsetsOf DEF SettingOf, NumSettings
  <2> HIDE DEF a
  <2> QED BY <2>1, <2>2, SettingsNames, NamePrefixes
<1> QED BY <1>1, <1>2, <1>3, <1>4, <1>5, <1>6

\* The seven sections of the template that have settings are different ones.
LEMMA PlainNames ==
    /\ \A b \in 1..7 : Plain[b] \notin {"connection", "auth", "statsd", "webclient"}
    /\ \A b, d \in 1..7 : Plain[b] = Plain[d] => b = d
    /\ \A b \in 1..7 : SettingOf[b] \in 1..7
BY DEF Plain, SettingOf

\* Where the sections of each kind are
LEMMA Places ==
    ASSUME NEW c \in CRType, NEW s, NEW i \in 1..Total(c)
    PROVE  LET p == ZuulConf(c, s)[i].name[1] IN
           /\ p = "connection" =>
                \/ \E k \in 1..Len(InOrder(c)) : i = 9 + k
                \/ i = FromDefaults(c) + 1
                \/ Len(AddDefaultConnections(c)) = 3 /\ i = FromDefaults(c) + 2
           /\ p = "auth" =>
                \/ i = 8
                \/ \E k \in 1..Len(c.auths) : i = FromAuths(c) + k
                \/ Len(AddDefaultAuth(c)) = 1 /\ i = FromDefault(c) + 1
                \/ ~c.standalone /\ i = FromSettings(c) + 8
           /\ \A b \in 1..7 : p = Plain[b] =>
                \/ i = b
                \/ (b = 3 => ~c.standalone) /\ i = FromSettings(c) + SettingOf[b]
<1> DEFINE p == ZuulConf(c, s)[i].name[1]
           conns == \E k \in 1..Len(InOrder(c)) : i = 9 + k
           auths == \E k \in 1..Len(c.auths) : i = FromAuths(c) + k
           plain(b) == \/ i = b
                       \/ (b = 3 => ~c.standalone) /\ i = FromSettings(c) + SettingOf[b]
<1>1. CASE i \in 1..9
  <2>1. CASE i \in 1..7
    <3>1. p = Plain[i]
      BY <2>1, PrefixOf
    <3> HIDE DEF p
    <3>2. \A b \in 1..7 : p = Plain[b] => i = b
      BY <2>1, <3>1, PlainNames
    <3>3. p # "connection" /\ p # "auth"
      BY <2>1, <3>1, PlainNames
    <3> QED BY <3>2, <3>3 DEF p
  <2>2. CASE i = 8
    <3>1. p = "auth"
      BY <2>2, PrefixOf
    <3> HIDE DEF p
    <3> QED BY <2>2, <3>1, PlainNames DEF p
  <2>3. CASE i = 9
    <3>1. p = "statsd"
      BY <2>3, PrefixOf
    <3> HIDE DEF p
    <3> QED BY <3>1, PlainNames DEF p
  <2> QED BY <1>1, <2>1, <2>2, <2>3
<1>2. CASE conns
  <2>1. p = "connection"
    BY <1>2, PrefixOf
  <2> HIDE DEF p
  <2> QED BY <1>2, <2>1, PlainNames DEF p
<1>3. CASE \E k \in 1..Len(AddDefaultConnections(c)) : i = FromDefaults(c) + k
  <2>1. /\ Len(AddDefaultConnections(c)) \in {2, 3} /\ FromDefaults(c) \in Nat
        /\ FromAuths(c) = FromDefaults(c) + Len(AddDefaultConnections(c))
    BY OffsetsOf DEF FromAuths
  <2>2. \/ i = FromDefaults(c) + 1
        \/ Len(AddDefaultConnections(c)) = 3 /\ i = FromDefaults(c) + 2
        \/ i = FromAuths(c)
    <3> DEFINE d == Len(AddDefaultConnections(c))
    <3>1. d \in {2, 3}
      BY <2>1
    <3>2. PICK k \in 1..d : i = FromDefaults(c) + k
      BY <1>3
    <3> HIDE DEF d
    <3>3. k = 1 \/ (k = 2 /\ d = 3) \/ k = d
      <4>1. CASE d = 2
        BY <4>1
      <4>2. CASE d = 3
        BY <4>2
      <4> QED BY <3>1, <4>1, <4>2
    <3> QED BY <2>1, <3>2, <3>3 DEF d
  <2>3. CASE i = FromAuths(c)
    <3>1. p = "webclient"
      BY <2>3, PrefixOf
    <3> HIDE DEF p
    <3> QED BY <3>1, PlainNames DEF p
  <2>4. CASE i # FromAuths(c)
    <3>1. p = "connection"
      BY <2>2, <2>4, PrefixOf
    <3> HIDE DEF p
    <3> QED BY <2>2, <2>4, <3>1, PlainNames DEF p
  <2> QED BY <2>3, <2>4
<1>4. CASE auths
  <2>1. p = "auth"
    BY <1>4, PrefixOf
  <2> HIDE DEF p
  <2> QED BY <1>4, <2>1, PlainNames DEF p
<1>5. CASE \E k \in 1..Len(AddDefaultAuth(c)) : i = FromDefault(c) + k
  <2>1. p = "auth"
    BY <1>5, PrefixOf
  <2>2. Len(AddDefaultAuth(c)) = 1 /\ i = FromDefault(c) + 1
    <3> DEFINE e == Len(AddDefaultAuth(c))
    <3>1. e \in {0, 1}
      BY OffsetsOf
    <3>2. PICK k \in 1..e : i = FromDefault(c) + k
      BY <1>5
    <3> HIDE DEF e
    <3>3. k = 1 /\ e = 1
      BY <3>1
    <3> QED BY <3>2, <3>3 DEF e
  <2> HIDE DEF p
  <2> QED BY <2>1, <2>2, PlainNames DEF p
<1>6. CASE \E k \in 1..NumSettings(c) : i = FromSettings(c) + k
  <2>1. PICK k \in 1..NumSettings(c) : i = FromSettings(c) + k
    BY <1>6
  <2>2. CASE k = 8 /\ ~c.standalone
    <3>1. p = "auth"
      BY <2>1, <2>2, PrefixOf
    <3> HIDE DEF p
    <3> QED BY <2>1, <2>2, <3>1, PlainNames DEF p
  <2>3. CASE \E b \in 1..7 : k = SettingOf[b] /\ (b = 3 => ~c.standalone)
    <3>1. PICK b \in 1..7 : k = SettingOf[b] /\ (b = 3 => ~c.standalone)
      BY <2>3
    <3>2. p = Plain[b]
      BY ONLY c \in CRType, <2>1, <3>1, PrefixOf
    <3> HIDE DEF p
    <3>3. p # "connection" /\ p # "auth" /\ \A d \in 1..7 : p = Plain[d] => d = b
      BY <3>2, PlainNames
    <3> QED BY <2>1, <3>1, <3>3 DEF p
  <2> QED BY <2>2, <2>3, SettingsNames
<1> QED BY <1>1, <1>2, <1>3, <1>4, <1>5, <1>6, PlaceOf

\* A section that is added once for its name, at b, and once for its keys, at q
AddedTwice(a, n, p, b, q) ==
    /\ n \in Nat /\ DOMAIN a = 1..n /\ b \in 1..n /\ q \in 1..n /\ b <= q
    /\ a[b].name = a[q].name /\ a[b].name[1] = p
    /\ \A i \in 1..n : a[i].name[1] = p => i \in {b, q}
    /\ b = q \/ DOMAIN a[b].keys = {}
    /\ IsKeys(a[q].keys)

\* The only section of a prefix
OnlySection(new, p, b, keys) ==
    /\ b \in DOMAIN new /\ new[b].name[1] = p /\ new[b].keys = keys
    /\ \A i \in DOMAIN new : new[i].name[1] = p => i = b

\* A section whose keys are all added at one place has those.
LEMMA Twice ==
    ASSUME NEW n, NEW a, NEW p, NEW b, NEW q, AddedTwice(a, n, p, b, q)
    PROVE  OnlySection(NewSections(a), p, b, a[q].keys)
<1> USE DEF AddedTwice
<1> DEFINE new == NewSections(a)
<1>1. DOMAIN new = {i \in 1..n : \A j \in 1..(i - 1) : a[j].name # a[i].name}
  BY DEF NewSections
<1>2. /\ DOMAIN new \subseteq 1..n
      /\ \A i \in DOMAIN new : new[i].name = a[i].name /\ new[i].keys = Merged(a, a[i].name)
  BY SectionsShape
<1> HIDE DEF new
<1>3. b \in DOMAIN new
  <2>1. ASSUME NEW j \in 1..(b - 1), a[j].name = a[b].name PROVE FALSE
    <3>1. j \in 1..n /\ j # b /\ j # q
      OBVIOUS
    <3>2. a[j].name[1] = p
      BY <2>1
    <3> QED BY <3>1, <3>2
  <2> QED BY <1>1, <2>1
<1>4. ASSUME NEW i \in DOMAIN new, new[i].name[1] = p PROVE i = b
  <2>1. i \in {b, q}
    BY <1>2, <1>4
  <2>2. ASSUME b < q PROVE i # q
    <3>1. b \in 1..(q - 1)
      BY <2>2
    <3> QED BY <1>1, <3>1
  <2> QED BY <2>1, <2>2
<1>5. \A j \in 1..n : a[j].name = a[q].name => j = q \/ DOMAIN a[j].keys = {}
  <2> TAKE j \in 1..n
  <2> HAVE a[j].name = a[q].name
  <2>1. j \in {b, q}
    OBVIOUS
  <2> QED BY <2>1
<1>6. Merged(a, a[q].name) = a[q].keys
  BY <1>5, MergedOnce
<1>7. b \in DOMAIN new /\ new[b].name[1] = p /\ new[b].keys = a[q].keys
  BY <1>2, <1>3, <1>6
<1> QED BY <1>4, <1>7 DEF new, OnlySection

\* Each of the seven sections is there once, with its setting.
LEMMA PlainSection ==
    ASSUME NEW c \in CRType, NEW s, NEW b \in 1..7
    PROVE  LET new == NewSections(ZuulConf(c, s)) IN
           /\ b \in DOMAIN new /\ new[b].name[1] = Plain[b]
           /\ \A i \in DOMAIN new : new[i].name[1] = Plain[b] => i = b
           /\ (b = 3 /\ c.standalone) \/ new[b].keys = AddSettings(c, s)[SettingOf[b]].keys
           /\ b = 3 /\ c.standalone => new[b].keys = NoKeys
<1> DEFINE a == ZuulConf(c, s)
           q == FromSettings(c) + SettingOf[b]
<1>1. DOMAIN a = 1..Total(c) /\ a[b].name = <<Plain[b]>> /\ a[b].keys = NoKeys
  BY ConfShape, ZuulDotConfOf
<1>2. Total(c) \in Nat /\ b \in 1..Total(c) /\ FromSettings(c) \in Nat /\ 9 <= FromSettings(c)
      /\ Total(c) = FromSettings(c) + NumSettings(c) /\ NumSettings(c) \in {6, 8}
      /\ c.standalone \in BOOLEAN
  BY OffsetsOf DEF Total
<1>3. DOMAIN NoKeys = {} /\ IsKeys(NoKeys)
  BY DEF NoKeys, IsKeys
<1>4. a[b].name[1] = Plain[b]
  BY <1>1, NamePrefixes
<1>5. CASE b = 3 /\ c.standalone
  <2>1. \A i \in 1..Total(c) : a[i].name[1] = Plain[b] => i \in {b, b}
    BY <1>5, Places
  <2> HIDE DEF a
  <2>2. b <= b /\ IsKeys(a[b].keys)
    BY <1>1, <1>3
  <2>3. AddedTwice(a, Total(c), Plain[b], b, b)
    BY <1>1, <1>2, <1>4, <2>1, <2>2 DEF AddedTwice
  <2>4. OnlySection(NewSections(a), Plain[b], b, a[b].keys)
    BY <2>3, Twice
  <2> QED BY <1>1, <1>5, <2>4 DEF a, OnlySection
<1>6. CASE ~(b = 3 /\ c.standalone)
  <2>1. SettingOf[b] \in 1..NumSettings(c)
    <3>1. c.standalone => NumSettings(c) = 6 /\ SettingOf[b] # 7
      BY <1>6 DEF NumSettings, SettingOf
    <3>2. ~c.standalone => NumSettings(c) = 8
      BY DEF NumSettings
    <3>3. SettingOf[b] \in 1..7
      BY PlainNames
    <3> QED BY <1>2, <3>1, <3>2, <3>3
  <2>2. q \in 1..Total(c) /\ b <= q
    BY <1>2, <2>1
  <2>3. a[q] = AddSettings(c, s)[SettingOf[b]]
    BY <2>1, ConfShape
  <2>4. a[q].name = <<Plain[b]>>
    BY <1>6, <2>3, SettingsNames
  <2>5. \A i \in 1..Total(c) : a[i].name[1] = Plain[b] => i \in {b, q}
    BY Places
  <2>6. IsKeys(AddSettings(c, s)[SettingOf[b]].keys)
    <3> DEFINE T == AddSettings(c, s)
    <3>1. /\ T[1].keys = [option |-> c.option["scheduler"]]
          /\ T[2].keys = [option |-> c.option["executor"]]
          /\ T[3].keys = [option |-> c.option["merger"]]
          /\ T[4].keys = [root |-> c.fqdn]
          /\ T[5].keys = [public |-> c.standalone]
          /\ T[6].keys = [password |-> s["zuul-keystore-password"]]
          /\ ~c.standalone => T[7].keys = [dburi |-> s["zuul-db-connection"]]
      BY SettingsOf
    <3>2. SettingOf[b] \in 1..7 /\ (SettingOf[b] = 7 => ~c.standalone)
      BY <1>6 DEF SettingOf
    <3> HIDE DEF T
    <3>3. \A k \in 1..7 : (k = 7 => ~c.standalone) => IsKeys(T[k].keys)
      BY <3>1 DEF IsKeys
    <3> QED BY <3>2, <3>3 DEF T
  <2> HIDE DEF a, q
  <2>7. IsKeys(a[q].keys)
    BY <2>3, <2>6
  <2>8. AddedTwice(a, Total(c), Plain[b], b, q)
    BY <1>1, <1>2, <1>3, <1>4, <2>2, <2>4, <2>5, <2>7 DEF AddedTwice
  <2>9. OnlySection(NewSections(a), Plain[b], b, a[q].keys)
    BY <2>8, Twice
  <2> QED BY <1>6, <2>3, <2>9 DEF a, OnlySection
<1> QED BY <1>5, <1>6

-----------------------------------------------------------------------------
(* The secrets that a standalone executor gets from the control plane. *)

\* The names that are not empty, and all of them.
LEMMA PresentOf ==
    ASSUME NEW A, NEW names \in Seq(A)
    PROVE  /\ Present(names) \in Seq(A \ {Empty})
           /\ \A i \in DOMAIN names : names[i] # Empty => names[i] \in Range(Present(names))
<1> DEFINE S == {i \in DOMAIN names : names[i] # Empty}
           t == InTurn(S)
<1>1. Len(names) \in Nat /\ S \subseteq 1..Len(names)
  OBVIOUS
<1>2. t \in Seq(S) /\ \A i \in S : \E k \in DOMAIN t : t[k] = i
  BY <1>1, InTurnOf
<1>3. Present(names) = [k \in DOMAIN t |-> names[t[k]]]
  BY DEF Present
<1>4. \A i \in S : names[i] \in A \ {Empty}
  OBVIOUS
<1> HIDE DEF t
<1>5. Present(names) \in Seq(A \ {Empty})
  <2> HIDE DEF S
  <2> QED BY <1>2, <1>3, <1>4
<1>6. ASSUME NEW i \in DOMAIN names, names[i] # Empty PROVE names[i] \in Range(Present(names))
  <2>1. PICK k \in DOMAIN t : t[k] = i
    BY <1>2, <1>6
  <2> QED BY <1>3, <2>1 DEF Range
<1> QED BY <1>5, <1>6

\* The secrets of connections of some drivers
LEMMA SecretsOf ==
    ASSUME NEW d, NEW list \in Connections(d)
    PROVE  LET of == Present([i \in DOMAIN list |-> list[i].secret]) IN
           /\ of \in Seq(Secrets)
           /\ \A conn \in Range(list) : conn.secret # Empty => conn.secret \in Range(of)
<1> DEFINE names == [i \in DOMAIN list |-> list[i].secret]
<1> DEFINE type == ConnectionType({d})
<1>0. list \in Seq(type) /\ \A x \in type : x.secret \in UserSecrets \cup {Empty}
  BY DEF Connections, ConnectionType
<1> HIDE DEF type
<1>1. /\ \A i \in DOMAIN list : list[i].secret \in UserSecrets \cup {Empty}
      /\ Len(list) \in Nat /\ DOMAIN list = 1..Len(list)
  BY <1>0
<1>2. /\ names \in Seq(UserSecrets \cup {Empty}) /\ DOMAIN names = DOMAIN list
      /\ \A i \in DOMAIN list : names[i] = list[i].secret
  BY <1>1
<1> HIDE DEF names
<1>3. /\ Present(names) \in Seq((UserSecrets \cup {Empty}) \ {Empty})
      /\ \A i \in DOMAIN names : names[i] # Empty => names[i] \in Range(Present(names))
  BY <1>2, PresentOf
<1>4. Present(names) \in Seq(Secrets)
  BY <1>3 DEF Secrets
<1> QED BY <1>2, <1>3, <1>4 DEF names, Range

\* The keys that Gerrit connections name.
LEMMA KeysOf ==
    ASSUME NEW list \in Connections("gerrit")
    PROVE  Present([i \in DOMAIN list |-> list[i].sshkey]) \in Seq(Secrets)
<1> DEFINE names == [i \in DOMAIN list |-> list[i].sshkey]
<1> DEFINE type == ConnectionType({"gerrit"})
<1>0. list \in Seq(type) /\ \A x \in type : x.sshkey \in UserSecrets \cup {Empty}
  BY DEF Connections, ConnectionType
<1> HIDE DEF type
<1>1. /\ \A i \in DOMAIN list : list[i].sshkey \in UserSecrets \cup {Empty}
      /\ Len(list) \in Nat /\ DOMAIN list = 1..Len(list)
  BY <1>0
<1>2. names \in Seq(UserSecrets \cup {Empty})
  BY <1>1
<1> HIDE DEF names
<1>3. Present(names) \in Seq((UserSecrets \cup {Empty}) \ {Empty})
  BY <1>2, PresentOf
<1>4. Present(names) \in Seq(Secrets)
  BY <1>3 DEF Secrets
<1> QED BY <1>4 DEF names

\* The tokens of GitHub, GitLab and Pagure connections are among the secrets that
\* are copied.
LEMMA CRSecretsOf ==
    ASSUME NEW c \in CRType
    PROVE  /\ CRSecrets(c) \in Seq(Secrets)
           /\ \A conn \in ConnectionsOf(c) :
                 conn.driver \in {"github", "gitlab", "pagure"} /\ conn.secret # Empty =>
                    conn.secret \in Range(CRSecrets(c))
<1> DEFINE k == Present([i \in DOMAIN c.conns.gerrit |-> c.conns.gerrit[i].sshkey])
           h == Present([i \in DOMAIN c.conns.github |-> c.conns.github[i].secret])
           p == Present([i \in DOMAIN c.conns.pagure |-> c.conns.pagure[i].secret])
           l == Present([i \in DOMAIN c.conns.gitlab |-> c.conns.gitlab[i].secret])
           in(list, of) == \A conn \in Range(list) : conn.secret # Empty => conn.secret \in Range(of)
<1>1. /\ c.conns.gerrit \in Connections("gerrit") /\ c.conns.github \in Connections("github")
      /\ c.conns.gitlab \in Connections("gitlab") /\ c.conns.pagure \in Connections("pagure")
  BY DEF CRType
<1>2. k \in Seq(Secrets)
  BY <1>1, KeysOf
<1>3. h \in Seq(Secrets) /\ in(c.conns.github, h)
  BY <1>1, SecretsOf
<1>4. p \in Seq(Secrets) /\ in(c.conns.pagure, p)
  BY <1>1, SecretsOf
<1>5. l \in Seq(Secrets) /\ in(c.conns.gitlab, l)
  BY <1>1, SecretsOf
<1>6. CRSecrets(c) = k \o h \o p \o l
  BY DEF CRSecrets
<1> HIDE DEF k, h, p, l
<1>7. /\ k \o h \in Seq(Secrets) /\ k \o h \o p \in Seq(Secrets)
      /\ k \o h \o p \o l \in Seq(Secrets)
  <2>1. ASSUME NEW x \in Seq(Secrets), NEW y \in Seq(Secrets) PROVE x \o y \in Seq(Secrets)
    OBVIOUS
  <2> HIDE DEF in
  <2>2. k \o h \in Seq(Secrets)
    BY <1>2, <1>3, <2>1
  <2>3. k \o h \o p \in Seq(Secrets)
    BY <1>4, <2>1, <2>2
  <2> QED BY <1>5, <2>1, <2>2, <2>3
<1>8. /\ Range(k \o h) = Range(k) \cup Range(h)
      /\ Range(k \o h \o p) = Range(k \o h) \cup Range(p)
      /\ Range(k \o h \o p \o l) = Range(k \o h \o p) \cup Range(l)
  <2>1. ASSUME NEW x \in Seq(Secrets), NEW y \in Seq(Secrets)
        PROVE  Range(x \o y) = Range(x) \cup Range(y)
    BY ConcatRange
  <2> HIDE DEF in
  <2>2. Range(k \o h) = Range(k) \cup Range(h)
    BY <1>2, <1>3, <2>1
  <2>3. Range(k \o h \o p) = Range(k \o h) \cup Range(p)
    BY <1>4, <1>7, <2>1
  <2>4. Range(k \o h \o p \o l) = Range(k \o h \o p) \cup Range(l)
    BY <1>5, <1>7, <2>1
  <2> QED BY <2>2, <2>3, <2>4
<1>9. ASSUME NEW conn \in ConnectionsOf(c), conn.driver \in {"github", "gitlab", "pagure"}
      PROVE  conn \in Range(c.conns.github) \cup Range(c.conns.pagure) \cup Range(c.conns.gitlab)
  <2>1. \A d \in Drivers : \A x \in Range(c.conns[d]) : x.driver = d
    BY InOrderOf
  <2>2. /\ \A x \in Range(c.conns.gerrit) : x.driver = "gerrit"
        /\ \A x \in Range(c.conns.git) : x.driver = "git"
        /\ \A x \in Range(c.conns.elasticsearch) : x.driver = "elasticsearch"
        /\ \A x \in Range(c.conns.smtp) : x.driver = "smtp"
    BY <2>1 DEF Drivers
  <2> QED BY <1>9, <2>2, InOrderOf
<1> QED BY <1>3, <1>4, <1>5, <1>6, <1>7, <1>8, <1>9

-----------------------------------------------------------------------------
(* Type correctness. *)

TypeInv == TypeOK /\ WalkInv

\* The parts of TypeOK.
CommandType ==
    /\ pc \in PCs /\ cr \in CRs /\ controlCR \in CRs
    /\ copied \in BOOLEAN /\ todo \in Seq(Secrets) /\ ready \in BOOLEAN
    /\ edited \subseteq Secrets /\ read \in [Secrets -> Nat]
    /\ runs \in 0..MaxRuns /\ faults \in 0..MaxFaults
SecretsType == secrets \in [Sites -> [Secrets -> Nat]]
NamedOnce(f) == \A i, j \in DOMAIN f : f[i].name = f[j].name => i = j
ConfType == DOMAIN conf = Sites /\ \A s \in Sites : NamedOnce(conf[s])
TemplateType ==
    /\ DOMAIN logging = Sites /\ DOMAIN input = Workloads
    /\ DOMAIN template = Workloads /\ DOMAIN pod = Workloads
    /\ \A w \in Workloads : DOMAIN template[w] = DOMAIN NoTemplate /\ DOMAIN pod[w] = DOMAIN NoPod

LEMMA TypeParts ==
    /\ TypeOK <=> CommandType /\ SecretsType /\ ConfType /\ TemplateType
    /\ TypeOK' <=> CommandType' /\ SecretsType' /\ ConfType' /\ TemplateType'
BY DEF TypeOK, CommandType, SecretsType, NamedOnce, ConfType, TemplateType

LEMMA PartsUnchanged ==
    /\ SecretsType /\ UNCHANGED secrets => SecretsType'
    /\ ConfType /\ UNCHANGED conf => ConfType'
    /\ TemplateType /\ UNCHANGED <<logging, input, template, pod>> => TemplateType'
BY DEF SecretsType, ConfType, NamedOnce, TemplateType

\* No zuul.conf has two sections of one name.
LEMMA ConfNamedOnce ==
    ASSUME NEW c \in CRType, NEW s
    PROVE  NamedOnce(NewSections(ZuulConf(c, s)))
<1>1. DOMAIN ZuulConf(c, s) = 1..Total(c) /\ Total(c) \in Nat
  BY ConfShape, OffsetsOf
<1> QED BY <1>1, SectionsShape DEF NamedOnce

LEMMA InitType == Init => TypeInv
<1> SUFFICES ASSUME Init PROVE TypeInv
  OBVIOUS
<1>1. cr \in CRs /\ controlCR \in CRs
  BY FirstCRAssumption DEF Init
<1>2. CommandType
  <2>1. pc = "idle" /\ "idle" \in PCs
    BY DEF Init, PCs
  <2>2. /\ read \in [Secrets -> Nat] /\ todo \in Seq(Secrets) /\ edited = {}
        /\ copied = FALSE /\ ready = FALSE
    BY DEF Init
  <2>3. runs \in 0..MaxRuns /\ faults \in 0..MaxFaults
    BY BoundsAssumption DEF Init
  <2> QED BY <1>1, <2>1, <2>2, <2>3 DEF CommandType
<1>3. SecretsType
  BY DEF Init, SecretsType
<1>4. ConfType
  BY DEF Init, ConfType, NamedOnce
<1>5. TemplateType
  BY DEF Init, TemplateType
<1>6. WalkInv
  BY InitInv DEF Inv
<1> QED BY <1>2, <1>3, <1>4, <1>5, <1>6, TypeParts DEF TypeInv

\* What ends a command.
LEMMA ForgetType ==
    ASSUME CommandType, Forget, pc' \in {"idle", "ok"}, UNCHANGED <<controlCR, runs>>,
           faults' \in 0..MaxFaults
    PROVE  CommandType'
<1>1. pc' \in PCs
  BY DEF PCs
<1>2. read' \in [Secrets -> Nat] /\ todo' \in Seq(Secrets)
  BY DEF Forget
<1> QED BY <1>1, <1>2 DEF CommandType, Forget

LEMMA StartType ==
    ASSUME TypeOK, NEW c \in CRs, NEW copy \in BOOLEAN, Start(c, copy)
    PROVE  TypeOK'
<1> DEFINE three == <<"zuul-keystore-password", "zookeeper-client-tls", "zuul-ssh-key">>
<1>1. three \o CRSecrets(c) \in Seq(Secrets)
  <2>1. CRSecrets(c) \in Seq(Secrets)
    BY CRSecretsOf, CRsAssumption
  <2>2. three \in Seq(Secrets)
    BY DEF Secrets, OpSecrets
  <2> HIDE DEF three
  <2> QED BY <2>1, <2>2
<1> HIDE DEF three
<1>2. runs' \in 0..MaxRuns /\ UNCHANGED <<faults, edited, read, ready>>
  BY TypeParts, BoundsAssumption DEF Start, CommandType, history
<1>3. cr' \in CRs /\ controlCR' \in CRs /\ copied' \in BOOLEAN /\ todo' \in Seq(Secrets)
  BY <1>1, TypeParts DEF Start, CommandType, three
<1>4. pc' \in PCs
  BY TypeParts DEF Start, CommandType, PCs
<1>5. CommandType'
  BY <1>2, <1>3, <1>4, TypeParts DEF CommandType
<1>6. UNCHANGED <<secrets, conf, logging, template, pod, input>>
  BY DEF Start, cluster, history
<1> QED BY <1>5, <1>6, TypeParts, PartsUnchanged

LEMMA CopyType == TypeOK /\ (CopySecret \/ CopyEnds \/ Validate) => TypeOK'
<1> SUFFICES ASSUME TypeOK, CopySecret \/ CopyEnds \/ Validate PROVE TypeOK'
  OBVIOUS
<1>0. CommandType /\ SecretsType /\ ConfType /\ TemplateType
  BY TypeParts
<1>1. UNCHANGED <<conf, logging, template, pod, input>>
  BY DEF CopySecret, CopyEnds, Validate, cluster, history
<1>2. SecretsType'
  <2>1. CASE CopySecret
    <3>1. Head(todo) \in Secrets
      BY <1>0, <2>1 DEF CommandType, CopySecret
    <3> QED BY <1>0, <2>1, <3>1 DEF CopySecret, SecretsType, Sites
  <2>2. CASE CopyEnds
    BY <1>0, <2>2, PartsUnchanged DEF CopyEnds, cluster
  <2>3. CASE Validate
    BY <1>0, <2>3 DEF Validate, SecretsType, Sites
  <2> QED BY <2>1, <2>2, <2>3
<1>3. CommandType'
  <2>1. CASE CopySecret
    <3>1. todo' \in Seq(Secrets)
      BY <1>0, <2>1 DEF CommandType, CopySecret
    <3> QED BY <1>0, <2>1, <3>1 DEF CommandType, CopySecret, history, counts
  <2>2. CASE CopyEnds
    <3>1. CASE pc' = "idle"
      <4>1. Forget
        BY <2>2, <3>1 DEF CopyEnds
      <4> QED BY <1>0, <2>2, <3>1, <4>1, ForgetType DEF CopyEnds, counts, CommandType
    <3>2. CASE pc' # "idle"
      <4>1. pc' \in PCs
        BY <2>2, <3>2 DEF CopyEnds, PCs
      <4> QED BY <1>0, <2>2, <3>2, <4>1 DEF CopyEnds, CommandType, counts
    <3> QED BY <3>1, <3>2
  <2>3. CASE Validate
    <3>1. pc' \in PCs
      BY <2>3 DEF Validate, PCs
    <3> QED BY <1>0, <2>3, <3>1 DEF CommandType, Validate, history, counts
  <2> QED BY <2>1, <2>2, <2>3
<1> QED BY <1>0, <1>1, <1>2, <1>3, TypeParts, PartsUnchanged

LEMMA ConfStepType == TypeOK /\ EnsureZuulConfigSecret => TypeOK'
<1> SUFFICES ASSUME TypeOK, EnsureZuulConfigSecret PROVE TypeOK'
  OBVIOUS
<1>0. CommandType /\ SecretsType /\ ConfType /\ TemplateType
  BY TypeParts
<1>1. CommandType'
  <2>1. pc' \in PCs
    BY OrderShape DEF EnsureZuulConfigSecret, PCs
  <2>2. read' \in [Secrets -> Nat]
    BY <1>0 DEF EnsureZuulConfigSecret, SecretsType, Site, Sites
  <2> QED BY <1>0, <2>1, <2>2 DEF EnsureZuulConfigSecret, CommandType, command, counts
<1>2. SecretsType'
  BY <1>0, PartsUnchanged DEF EnsureZuulConfigSecret
<1>3. ConfType'
  <2> DEFINE new == NewSections(ZuulConf(cr, secrets[Site(cr)]))
  <2>1. NamedOnce(new)
    BY <1>0, CRsAssumption, ConfNamedOnce DEF CommandType
  <2>2. conf' = [conf EXCEPT ![Site(cr)] = new]
    BY DEF EnsureZuulConfigSecret
  <2> HIDE DEF new
  <2> QED BY <1>0, <2>1, <2>2 DEF ConfType
<1>4. TemplateType'
  BY <1>0 DEF EnsureZuulConfigSecret, TemplateType
<1> QED BY <1>1, <1>2, <1>3, <1>4, TypeParts

LEMMA TemplateFields ==
    ASSUME NEW service, NEW c, NEW f
    PROVE  DOMAIN Template(service, c, f) = DOMAIN NoTemplate
BY DEF Template, NoTemplate

LEMMA ServiceType ==
    ASSUME TypeOK, WalkInv, NEW w \in Workloads, EnsureService(w)
    PROVE  TypeOK'
<1>0. CommandType /\ SecretsType /\ ConfType /\ TemplateType
  BY TypeParts
<1> DEFINE new == Template(Service(w), cr, conf[Site(cr)])
<1>1. DOMAIN new = DOMAIN NoTemplate
  BY TemplateFields
<1>2. /\ pc = w /\ UNCHANGED <<controlCR, secrets, conf, pod, runs, faults>>
      /\ logging' = [logging EXCEPT ![Site(cr)] = ComputeLoggingConfig(cr)]
      /\ \/ UNCHANGED <<template, input>>
         \/ /\ template' = [template EXCEPT ![w] = new]
            /\ input' = [input EXCEPT ![w] = Inputs(Service(w), cr, read)]
      /\ \/ pc' = After(w) /\ ready' \in BOOLEAN /\ UNCHANGED <<cr, copied, todo, read, edited>>
         \/ pc' = "idle" /\ Forget
  BY <1>0 DEF EnsureService, CommandType, counts
<1> HIDE DEF new
<1>3. TemplateType'
  BY <1>0, <1>1, <1>2 DEF TemplateType
<1>4. CommandType'
  <2>1. CASE pc' = "idle" /\ Forget
    BY <1>0, <1>2, <2>1, ForgetType DEF CommandType
  <2>2. CASE pc' = After(w) /\ ready' \in BOOLEAN /\ UNCHANGED <<cr, copied, todo, read, edited>>
    <3>1. PICK i \in DOMAIN Order(cr) : Order(cr)[i] = w
      BY <1>2 DEF WalkInv
    <3>2. After(w) \in Workloads \cup {"end"}
      <4>1. CASE i = Len(Order(cr))
        BY <3>1, <4>1, AfterShape
      <4>2. CASE i # Len(Order(cr))
        <5>1. i + 1 \in DOMAIN Order(cr)
          BY <4>2, OrderShape
        <5> QED BY <3>1, <4>2, <5>1, AfterShape, OrderShape
      <4> QED BY <4>1, <4>2
    <3>3. pc' \in PCs
      BY <2>2, <3>2 DEF PCs
    <3> QED BY <1>0, <1>2, <2>2, <3>3 DEF CommandType
  <2> QED BY <1>2, <2>1, <2>2
<1> QED BY <1>0, <1>2, <1>3, <1>4, TypeParts, PartsUnchanged

LEMMA EndType == TypeOK /\ (Finish \/ Kill) => TypeOK'
<1> SUFFICES ASSUME TypeOK, Finish \/ Kill PROVE TypeOK'
  OBVIOUS
<1>0. CommandType /\ SecretsType /\ ConfType /\ TemplateType
  BY TypeParts
<1>1. UNCHANGED <<secrets, conf, logging, template, pod, input>>
  BY DEF Finish, Kill, cluster
<1>2. CommandType'
  <2>1. CASE Finish /\ pc' = "ok"
    <3>1. Forget
      BY <2>1 DEF Finish
    <3> QED BY <1>0, <2>1, <3>1, ForgetType DEF Finish, counts, CommandType
  <2>2. CASE Finish /\ pc' # "ok"
    <3>1. pc' \in PCs
      BY <2>2 DEF Finish, PCs
    <3> QED BY <1>0, <2>2, <3>1 DEF Finish, CommandType, counts
  <2>3. CASE Kill
    <3>1. faults' \in 0..MaxFaults /\ pc' = "idle" /\ Forget /\ UNCHANGED <<controlCR, runs>>
      BY <1>0, <2>3, BoundsAssumption DEF Kill, CommandType
    <3> QED BY <1>0, <3>1, ForgetType
  <2> QED BY <2>1, <2>2, <2>3
<1> QED BY <1>0, <1>1, <1>2, TypeParts, PartsUnchanged

LEMMA PodType ==
    ASSUME TypeOK, NEW w \in Workloads, PodStart(w) \/ PodRestart(w)
    PROVE  TypeOK'
<1>0. CommandType /\ SecretsType /\ ConfType /\ TemplateType
  BY TypeParts
<1>1. /\ UNCHANGED <<pc, cr, copied, todo, ready, controlCR, secrets, conf, logging, template,
                     read, input, edited, runs>>
      /\ faults' \in 0..MaxFaults
  BY <1>0, BoundsAssumption
     DEF PodStart, PodRestart, command, cluster, history, counts, CommandType
<1>4. PICK from : pod' = [pod EXCEPT ![w] = [template |-> from, conf |-> conf[SiteOf(w)],
                                             level |-> logging[SiteOf(w)][Service(w)]]]
  BY DEF PodStart, PodRestart, Load
<1>2. CommandType'
  BY <1>0, <1>1 DEF CommandType
<1>3. TemplateType'
  BY <1>0, <1>1, <1>4 DEF TemplateType, NoPod
<1> QED BY <1>0, <1>1, <1>2, <1>3, TypeParts, PartsUnchanged

LEMMA EditType ==
    ASSUME TypeOK, NEW n \in Editable, Edit(n)
    PROVE  TypeOK'
<1>0. CommandType /\ SecretsType /\ ConfType /\ TemplateType
  BY TypeParts
<1>1. n \in Secrets
  BY SecretsAssumption
<1>2. UNCHANGED <<conf, logging, template, pod, input>>
  BY DEF Edit
<1>3. SecretsType'
  BY <1>0, <1>1 DEF Edit, SecretsType, Sites
<1>4. CommandType'
  BY <1>0, <1>1, BoundsAssumption DEF Edit, CommandType, command
<1> QED BY <1>0, <1>2, <1>3, <1>4, TypeParts, PartsUnchanged

\* Every step keeps the types.
LEMMA NextType == Inv /\ TypeInv /\ [Next]_vars => TypeInv'
<1> SUFFICES ASSUME Inv, TypeInv, [Next]_vars PROVE TypeInv'
  OBVIOUS
<1>0. TypeOK /\ WalkInv
  BY DEF TypeInv
<1>1. WalkInv'
  BY NextInv DEF Inv
<1> SUFFICES TypeOK'
  BY <1>1 DEF TypeInv
<1>2. ASSUME NEW c \in CRs, NEW copy \in BOOLEAN, Start(c, copy) PROVE TypeOK'
  BY <1>0, <1>2, StartType
<1>3. CASE CopySecret \/ CopyEnds \/ Validate
  BY <1>0, <1>3, CopyType
<1>4. CASE EnsureZuulConfigSecret
  BY <1>0, <1>4, ConfStepType
<1>5. ASSUME NEW w \in Workloads, EnsureService(w) PROVE TypeOK'
  BY <1>0, <1>5, ServiceType
<1>6. CASE Finish \/ Kill
  BY <1>0, <1>6, EndType
<1>7. ASSUME NEW w \in Workloads, PodStart(w) \/ PodRestart(w) PROVE TypeOK'
  BY <1>0, <1>7, PodType
<1>8. ASSUME NEW n \in Editable, Edit(n) PROVE TypeOK'
  BY <1>0, <1>8, EditType
<1>9. CASE UNCHANGED vars
  <2>1. CommandType /\ SecretsType /\ ConfType /\ TemplateType
    BY <1>0, TypeParts
  <2>2. CommandType'
    BY <1>9, <2>1 DEF vars, command, history, counts, CommandType
  <2>3. UNCHANGED <<secrets, conf, logging, template, pod, input>>
    BY <1>9 DEF vars, cluster, history
  <2> QED BY <2>1, <2>2, <2>3, TypeParts, PartsUnchanged
<1> QED BY <1>2, <1>3, <1>4, <1>5, <1>6, <1>7, <1>8, <1>9 DEF Next, Deploy

LEMMA Invariant == Spec => [](Inv /\ TypeInv)
<1>1. Init => Inv /\ TypeInv
  BY InitInv, InitType
<1>2. (Inv /\ TypeInv) /\ [Next]_vars => (Inv /\ TypeInv)'
  BY NextInv, NextType
<1> QED BY <1>1, <1>2, PTL DEF Spec

\* The command, the secrets, zuul.conf and the templates keep their types: zuul.conf
\* never has two sections of one name, though EnsureZuulConfigSecret adds some of
\* them (scheduler, an authenticator that is the default) more than once.
THEOREM TypeCorrect == Spec => []TypeOK
<1>1. TypeInv => TypeOK
  BY DEF TypeInv
<1> QED BY <1>1, Invariant, PTL

-----------------------------------------------------------------------------
(* What of a connection, of an authenticator and of the defaults stays. *)

\* Which keys the sections of each kind have
LEMMA KeysAt ==
    ASSUME NEW c \in CRType, NEW s, NEW i \in 1..Total(c)
    PROVE  LET keys == DOMAIN ZuulConf(c, s)[i].keys IN
           /\ "default" \in keys => Len(AddDefaultAuth(c)) = 1 /\ i = FromDefault(c) + 1
           /\ "app_key" \in keys \/ "sshkey" \in keys =>
                 \E k \in 1..Len(InOrder(c)) : i = 9 + k
<1> DEFINE keys == DOMAIN ZuulConf(c, s)[i].keys
           files == {"app_key", "sshkey", "default"}
<1>1. CASE i \in 1..9
  <2>1. i \in 1..7 \/ i = 8 \/ i = 9
    BY <1>1
  <2>2. keys \subseteq {"driver"}
    BY <1>1, <2>1, ConfShape, ZuulDotConfOf DEF NoKeys
  <2> QED BY <2>2
<1>2. CASE \E k \in 1..Len(InOrder(c)) : i = 9 + k
  <2>1. PICK k \in 1..Len(InOrder(c)) : i = 9 + k
    BY <1>2
  <2>2. keys \subseteq {"driver", "url", "sshkey", "app_key", "token"}
    <3>1. ZuulConf(c, s)[9 + k].keys = AddConnection(InOrder(c)[k], s).keys
          /\ InOrder(c)[k] \in ConnectionType(Drivers)
      BY ConnectionOf
    <3> QED BY <2>1, <3>1, ConnectionKeys
  <2> QED BY <1>2, <2>2
<1>3. CASE \E k \in 1..Len(AddDefaultConnections(c)) : i = FromDefaults(c) + k
  <2> DEFINE D == AddDefaultConnections(c)
  <2>1. PICK k \in 1..Len(D) : i = FromDefaults(c) + k
    BY <1>3
  <2>2. ZuulConf(c, s)[i] = D[k]
    BY <2>1, ConfShape
  <2>3. /\ DOMAIN D[1].keys = {"driver", "url"} /\ DOMAIN D[Len(D)].keys = {}
        /\ Len(D) = 2 \/ (Len(D) = 3 /\ DOMAIN D[2].keys = {"driver", "url"})
    BY DefaultsNames
  <2> HIDE DEF D
  <2>4. k = 1 \/ k = Len(D) \/ (k = 2 /\ Len(D) = 3)
    <3>1. CASE Len(D) = 2
      BY <3>1
    <3>2. CASE Len(D) = 3
      BY <3>2
    <3> QED BY <2>3, <3>1, <3>2
  <2>5. keys \subseteq {"driver", "url"}
    BY <2>2, <2>3, <2>4
  <2> QED BY <2>5
<1>4. CASE \E k \in 1..Len(c.auths) : i = FromAuths(c) + k
  <2>1. PICK k \in 1..Len(c.auths) : i = FromAuths(c) + k
    BY <1>4
  <2>2. keys = {"driver", "realm"}
    BY <2>1, ConfShape, AuthOf
  <2> QED BY <2>2
<1>5. CASE \E k \in 1..Len(AddDefaultAuth(c)) : i = FromDefault(c) + k
  <2> DEFINE E == AddDefaultAuth(c)
  <2>1. PICK k \in 1..Len(E) : i = FromDefault(c) + k
    BY <1>5
  <2>2. Len(E) \in {0, 1}
    BY OffsetsOf
  <2>3. ZuulConf(c, s)[i] = E[k]
    BY <2>1, ConfShape
  <2>4. Len(E) = 1 => E[1].keys = [default |-> TRUE]
    BY DefaultAuthOf
  <2> HIDE DEF E
  <2>5. k = 1 /\ Len(E) = 1
    <3> DEFINE e == Len(E)
    <3>1. e \in {0, 1} /\ k \in 1..e
      BY <2>2
    <3> HIDE DEF e
    <3>2. k = 1 /\ e = 1
      BY <3>1
    <3> QED BY <3>2 DEF e
  <2>6. keys = {"default"}
    BY <2>3, <2>4, <2>5
  <2> QED BY <2>1, <2>5, <2>6 DEF E
<1>6. CASE \E k \in 1..NumSettings(c) : i = FromSettings(c) + k
  <2> DEFINE T == AddSettings(c, s)
  <2>1. PICK k \in 1..NumSettings(c) : i = FromSettings(c) + k
    BY <1>6
  <2>2. ZuulConf(c, s)[i] = T[k]
    BY <2>1, ConfShape
  <2>3. /\ DOMAIN T[1].keys = {"option"} /\ DOMAIN T[2].keys = {"option"}
        /\ DOMAIN T[3].keys = {"option"} /\ DOMAIN T[4].keys = {"root"}
        /\ DOMAIN T[5].keys = {"public"} /\ DOMAIN T[6].keys = {"password"}
    <3>1. /\ T[1].keys = [option |-> c.option["scheduler"]]
          /\ T[2].keys = [option |-> c.option["executor"]]
          /\ T[3].keys = [option |-> c.option["merger"]]
          /\ T[4].keys = [root |-> c.fqdn]
          /\ T[5].keys = [public |-> c.standalone]
          /\ T[6].keys = [password |-> s["zuul-keystore-password"]]
      BY SettingsOf
    <3> HIDE DEF T
    <3> QED BY <3>1
  <2>4. ~c.standalone => DOMAIN T[7].keys = {"dburi"} /\ DOMAIN T[8].keys = {"secret", "realm"}
    <3>1. ~c.standalone => /\ T[7].keys = [dburi |-> s["zuul-db-connection"]]
                           /\ T[8].keys = [secret |-> s["zuul-auth-secret"], realm |-> c.fqdn]
      BY SettingsOf
    <3> HIDE DEF T
    <3> QED BY <3>1
  <2>5. k \in 1..6 \/ (~c.standalone /\ k \in {7, 8})
    <3>1. c.standalone => NumSettings(c) = 6
      BY DEF NumSettings
    <3>2. ~c.standalone => NumSettings(c) = 8
      BY DEF NumSettings
    <3> DEFINE n == NumSettings(c)
    <3>3. n \in {6, 8} /\ k \in 1..n /\ c.standalone \in BOOLEAN
      BY OffsetsOf
    <3>4. (c.standalone => n = 6) /\ (~c.standalone => n = 8)
      BY <3>1, <3>2
    <3> HIDE DEF n
    <3>5. CASE n = 6
      BY <3>3, <3>5
    <3>6. CASE n = 8
      BY <3>3, <3>4, <3>6
    <3> QED BY <3>3, <3>5, <3>6
  <2> HIDE DEF T
  <2>6. keys \subseteq {"option", "root", "public", "password", "dburi", "secret", "realm"}
    BY <2>2, <2>3, <2>4, <2>5
  <2> QED BY <2>6
<1> QED BY <1>1, <1>2, <1>3, <1>4, <1>5, <1>6, PlaceOf

LEMMA DefaultPlaces ==
    ASSUME NEW c \in CRType
    PROVE  /\ 1 \in 1..Len(AddDefaultConnections(c))
           /\ Len(AddDefaultConnections(c)) = 3 => 2 \in 1..Len(AddDefaultConnections(c))
<1> DEFINE d == Len(AddDefaultConnections(c))
<1>1. d \in {2, 3}
  BY OffsetsOf
<1> HIDE DEF d
<1>2. 1 \in 1..d /\ (d = 3 => 2 \in 1..d)
  BY <1>1
<1> QED BY <1>2 DEF d

\* The default connections, at their places.
LEMMA DefaultAt ==
    ASSUME NEW c \in CRType, NEW s, NEW i \in 1..Len(AddDefaultConnections(c))
    PROVE  ZuulConf(c, s)[FromDefaults(c) + i] = AddDefaultConnections(c)[i]
  BY ConfShape, Zenon

\* The section that a connection has of its own, in a CR that is accepted
LEMMA ConnectionNames ==
    ASSUME NEW c \in CRType, Accepted(c), NEW s, NEW i \in 1..Total(c), NEW j \in 1..Total(c),
           ZuulConf(c, s)[i].name[1] = "connection",
           ZuulConf(c, s)[j].name = ZuulConf(c, s)[i].name
    PROVE  j = i
<1> DEFINE a == ZuulConf(c, s)
           conn(x) == \E k \in 1..Len(InOrder(c)) : x = 9 + k
           first(x) == x = FromDefaults(c) + 1
           second(x) == Len(AddDefaultConnections(c)) = 3 /\ x = FromDefaults(c) + 2
<1>1. ASSUME NEW x \in 1..Total(c), a[x].name[1] = "connection"
      PROVE  conn(x) \/ first(x) \/ second(x)
  BY <1>1, Places
<1>2. a[j].name[1] = "connection"
  OBVIOUS
<1>3. ASSUME NEW x \in 1..Total(c), conn(x)
      PROVE  \E k \in 1..Len(InOrder(c)) :
                /\ x = 9 + k /\ a[x].name = Connection(InOrder(c)[k].name)
                /\ InOrder(c)[k] \in ConnectionsOf(c)
  BY <1>3, ConnectionOf
<1>4. ASSUME NEW x \in 1..Total(c), first(x) PROVE a[x].name = Connection("git-server")
  <2>1. 1 \in 1..Len(AddDefaultConnections(c))
    BY DefaultPlaces
  <2>2. a[FromDefaults(c) + 1] = AddDefaultConnections(c)[1]
    BY ONLY c \in CRType, <2>1, DefaultAt
  <2>3. a[x] = AddDefaultConnections(c)[1]
    BY ONLY <1>4, <2>2
  <2> QED BY <2>3, DefaultsNames
<1>5. ASSUME NEW x \in 1..Total(c), second(x)
      PROVE  a[x].name = Connection("opendev.org") /\ "opendev.org" \notin ConnNames(c)
  <2>1. 2 \in 1..Len(AddDefaultConnections(c))
    BY <1>5, DefaultPlaces
  <2>2. a[x] = AddDefaultConnections(c)[2]
    <3>1. x = FromDefaults(c) + 2
      BY <1>5
    <3>2. a[FromDefaults(c) + 2] = AddDefaultConnections(c)[2]
      BY ONLY c \in CRType, <2>1, DefaultAt
    <3> QED BY ONLY <3>1, <3>2
  <2>3. Len(AddDefaultConnections(c)) = 3
    BY ONLY <1>5
  <2> QED BY ONLY <2>2, <2>3, c \in CRType, DefaultsNames
<1>6. \A x, y : Connection(x) = Connection(y) => x = y
  BY NamePrefixes
<1> HIDE DEF a
<1>7. a[i].name = a[j].name
  BY DEF a
<1>8. CASE conn(i)
  <2>1. PICK k \in 1..Len(InOrder(c)) : /\ i = 9 + k /\ a[i].name = Connection(InOrder(c)[k].name)
                                        /\ InOrder(c)[k] \in ConnectionsOf(c)
    BY <1>3, <1>8
  <2>2. InOrder(c)[k].name \in ConnNames(c)
    BY <2>1 DEF ConnNames
  <2>3. InOrder(c)[k].name # "git-server"
    BY <2>2 DEF Accepted
  <2>4. ~first(j)
    BY <1>4, <1>6, <1>7, <2>1, <2>3
  <2>5. ~second(j)
    BY <1>5, <1>6, <1>7, <2>1, <2>2
  <2>6. PICK h \in 1..Len(InOrder(c)) : j = 9 + h /\ a[j].name = Connection(InOrder(c)[h].name)
    BY <1>1, <1>2, <1>3, <2>4, <2>5 DEF a
  <2>7. InOrder(c)[h].name = InOrder(c)[k].name
    BY <1>6, <1>7, <2>1, <2>6
  <2>8. ~(h < k) /\ ~(k < h)
    BY <2>7, OffsetsOf DEF Accepted, HasDuplicate
  <2> QED BY <2>1, <2>6, <2>8, OffsetsOf
<1>9. CASE conn(j)
  <2>1. PICK k \in 1..Len(InOrder(c)) : /\ j = 9 + k /\ a[j].name = Connection(InOrder(c)[k].name)
                                        /\ InOrder(c)[k] \in ConnectionsOf(c)
    BY <1>3, <1>9
  <2>2. InOrder(c)[k].name \in ConnNames(c)
    BY <2>1 DEF ConnNames
  <2>3. InOrder(c)[k].name # "git-server"
    BY <2>2 DEF Accepted
  <2>4. ~first(i)
    BY <1>4, <1>6, <1>7, <2>1, <2>3
  <2>5. ~second(i)
    BY <1>5, <1>6, <1>7, <2>1, <2>2
  <2> QED BY <1>1, <1>8, <2>4, <2>5 DEF a
<1>10. CASE ~conn(i) /\ ~conn(j)
  <2>1. first(i) \/ second(i)
    BY <1>1, <1>10 DEF a
  <2>2. first(j) \/ second(j)
    BY <1>1, <1>2, <1>10 DEF a
  <2>3. ~(first(i) /\ second(j)) /\ ~(second(i) /\ first(j))
    BY <1>4, <1>5, <1>6, <1>7
  <2> QED BY <2>1, <2>2, <2>3
<1> QED BY <1>8, <1>9, <1>10

\* That section has the keys that were added to it, and no others.
LEMMA ConnectionSection ==
    ASSUME NEW c \in CRType, Accepted(c), NEW s, NEW i \in 1..Total(c),
           ZuulConf(c, s)[i].name[1] = "connection"
    PROVE  LET new == NewSections(ZuulConf(c, s)) IN
           /\ i \in DOMAIN new /\ new[i].name = ZuulConf(c, s)[i].name
           /\ new[i].keys = ZuulConf(c, s)[i].keys
<1> DEFINE a == ZuulConf(c, s)
           n == Total(c)
<1>1. n \in Nat /\ DOMAIN a = 1..n
  BY OffsetsOf, ConfShape
<1>2. \A j \in 1..n : a[j].name = a[i].name => j = i
  BY ConnectionNames
<1>3. IsKeys(a[i].keys)
  <2>1. CASE \E k \in 1..Len(InOrder(c)) : i = 9 + k
    <3>1. PICK k \in 1..Len(InOrder(c)) : i = 9 + k
      BY <2>1
    <3>2. a[9 + k].keys = AddConnection(InOrder(c)[k], s).keys
          /\ InOrder(c)[k] \in ConnectionType(Drivers)
      BY ConnectionOf
    <3>3. IsKeys(AddConnection(InOrder(c)[k], s).keys)
      BY <3>2, ConnectionKeys DEF IsKeys
    <3> QED BY <3>1, <3>2, <3>3
  <2>2. CASE \E k \in {1, 2} : k \in 1..Len(AddDefaultConnections(c)) /\ i = FromDefaults(c) + k
                               /\ (k = 2 => Len(AddDefaultConnections(c)) = 3)
    <3>1. PICK k \in {1, 2} : k \in 1..Len(AddDefaultConnections(c)) /\ i = FromDefaults(c) + k
                              /\ (k = 2 => Len(AddDefaultConnections(c)) = 3)
      BY <2>2
    <3>2. a[i] = AddDefaultConnections(c)[k]
      BY <3>1, ConfShape
    <3>3. \E name, url : AddDefaultConnections(c)[k] = AddGitConnection(name, url)
      <4> DEFINE D == AddDefaultConnections(c)
      <4>1. /\ \/ D[1] = AddGitConnection("git-server", "git://public/")
               \/ D[1] = AddGitConnection("git-server", "git://git-server/")
            /\ \/ Len(D) = 2
               \/ D[2] = AddGitConnection("opendev.org", "https://opendev.org/")
        BY DefaultsOf
      <4>2. k = 1 \/ (k = 2 /\ Len(D) = 3)
        BY <3>1
      <4> HIDE DEF D
      <4>3. CASE k = 1
        BY <4>1, <4>3 DEF D
      <4>4. CASE k = 2 /\ Len(D) = 3
        <5>1. D[2] = AddGitConnection("opendev.org", "https://opendev.org/")
          <6>1. Len(D) # 2
            BY <4>4
          <6> QED BY <4>1, <6>1
        <5> QED BY <4>4, <5>1 DEF D
      <4> QED BY <4>2, <4>3, <4>4
    <3>4. ASSUME NEW name, NEW url PROVE IsKeys(AddGitConnection(name, url).keys)
      BY DEF IsKeys, AddGitConnection, Section
    <3> QED BY <3>2, <3>3, <3>4
  <2>3. 1 \in 1..Len(AddDefaultConnections(c))
        /\ (Len(AddDefaultConnections(c)) = 3 => 2 \in 1..Len(AddDefaultConnections(c)))
    BY DefaultPlaces
  <2> QED BY <2>1, <2>2, <2>3, Places
<1> HIDE DEF a, n
<1>4. Merged(a, a[i].name) = a[i].keys
  <2>1. i \in 1..n
    BY DEF n
  <2> QED BY <1>1, <1>2, <1>3, <2>1, MergedOnce
<1>5. i \in DOMAIN NewSections(a)
  <2>1. PICK k \in DOMAIN NewSections(a) : k <= i /\ a[k].name = a[i].name
    BY <1>1, SectionOf DEF n
  <2>2. k \in 1..n
    BY <1>1, SectionsShape
  <2> QED BY <1>2, <2>1, <2>2
<1> QED BY <1>1, <1>4, <1>5, SectionsShape DEF a

\* A section of zuul.conf, by its place
LEMMA SectionIn ==
    ASSUME NEW new, NEW i \in DOMAIN new, NEW name, new[i].name = name
    PROVE  new[i].keys \in SectionsOf(name, new)
BY DEF SectionsOf

\* Every connection of an accepted CR has a section with its keys.
LEMMA ConnectionKept ==
    ASSUME NEW c \in CRType, Accepted(c), NEW s, NEW conn \in ConnectionsOf(c)
    PROVE  \E i \in DOMAIN NewSections(ZuulConf(c, s)) :
              /\ NewSections(ZuulConf(c, s))[i].name = Connection(conn.name)
              /\ NewSections(ZuulConf(c, s))[i].keys = AddConnection(conn, s).keys
<1>1. PICK k \in 1..Len(InOrder(c)) : InOrder(c)[k] = conn
  BY OffsetsOf DEF ConnectionsOf, Range
<1>2. 9 + k \in 1..Total(c)
  BY OffsetsOf DEF FromDefaults
<1>3. ZuulConf(c, s)[9 + k].name = Connection(conn.name)
      /\ ZuulConf(c, s)[9 + k].keys = AddConnection(conn, s).keys
  BY <1>1, ConnectionOf
<1>4. ZuulConf(c, s)[9 + k].name[1] = "connection"
  BY PrefixOf
<1> QED BY <1>2, <1>3, <1>4, ConnectionSection

LEMMA ConnectionsKept ==
    ASSUME NEW c \in CRType, Accepted(c), NEW s, NEW conn \in ConnectionsOf(c)
    PROVE  \E keys \in SectionsOf(Connection(conn.name), NewSections(ZuulConf(c, s))) :
              keys.driver = conn.driver /\ keys.url = conn.url
<1> DEFINE new == NewSections(ZuulConf(c, s))
<1>1. PICK i \in DOMAIN new : /\ new[i].name = Connection(conn.name)
                              /\ new[i].keys = AddConnection(conn, s).keys
  BY ConnectionKept
<1>2. conn \in ConnectionType(Drivers)
  <2>1. PICK k \in 1..Len(InOrder(c)) : InOrder(c)[k] = conn
    BY OffsetsOf DEF ConnectionsOf, Range
  <2> QED BY <2>1, ConnectionOf
<1> HIDE DEF new
<1>3. new[i].keys.driver = conn.driver /\ new[i].keys.url = conn.url
  <2>1. /\ AddConnection(conn, s).keys.driver = conn.driver
        /\ AddConnection(conn, s).keys.url = conn.url
    BY <1>2, ConnectionKeys
  <2> QED BY <1>1, <2>1
<1>4. new[i].keys \in SectionsOf(Connection(conn.name), new)
  BY <1>1, SectionIn
<1> QED BY <1>3, <1>4 DEF new

\* The connections that every zuul.conf has.
LEMMA DefaultsKept ==
    ASSUME NEW c \in CRType, Accepted(c), NEW s
    PROVE  LET new == NewSections(ZuulConf(c, s)) IN
           /\ \E keys \in SectionsOf(Connection("git-server"), new) :
                 keys.driver = "git" /\ keys.url \in {"git://git-server/", "git://public/"}
           /\ \E keys \in SectionsOf(Connection("opendev.org"), new) :
                 keys.url \in {"https://opendev.org/", "https://opendev.org", "review.opendev.org"}
<1> DEFINE a == ZuulConf(c, s)
           new == NewSections(a)
           D == AddDefaultConnections(c)
           i1 == FromDefaults(c) + 1
           i2 == FromDefaults(c) + 2
<1>1. /\ FromDefaults(c) \in Nat /\ Total(c) \in Nat /\ FromAuths(c) \in Nat
      /\ FromAuths(c) = FromDefaults(c) + Len(D) /\ Len(D) \in {2, 3}
      /\ FromAuths(c) <= Total(c)
  BY OffsetsOf DEF FromAuths
<1>2. i1 \in 1..Total(c) /\ (Len(D) = 3 => i2 \in 1..Total(c))
  <2> DEFINE d == Len(D)
  <2>1. FromAuths(c) = FromDefaults(c) + d /\ d \in {2, 3}
    BY <1>1
  <2> HIDE DEF d
  <2>2. i1 \in 1..Total(c) /\ (d = 3 => i2 \in 1..Total(c))
    BY <1>1, <2>1
  <2> QED BY <2>2 DEF d
<1>3. \E keys \in SectionsOf(Connection("git-server"), new) :
         keys.driver = "git" /\ keys.url \in {"git://git-server/", "git://public/"}
  <2>1. a[i1] = D[1]
    BY DefaultPlaces, ConfShape
  <2>2. /\ D[1].name = Connection("git-server") /\ D[1].keys.driver = "git"
        /\ D[1].keys.url \in {"git://git-server/", "git://public/"}
    BY DefaultsNames
  <2>3. a[i1].name[1] = "connection"
    BY PrefixOf
  <2>4. i1 \in DOMAIN new /\ new[i1].name = a[i1].name /\ new[i1].keys = a[i1].keys
    BY <1>2, <2>3, ConnectionSection
  <2> HIDE DEF new, a, i1, D
  <2>5. new[i1].keys \in SectionsOf(Connection("git-server"), new)
    BY <2>1, <2>2, <2>4, SectionIn
  <2> QED BY <2>1, <2>2, <2>4, <2>5
<1>4. \E keys \in SectionsOf(Connection("opendev.org"), new) :
         keys.url \in {"https://opendev.org/", "https://opendev.org", "review.opendev.org"}
  <2>1. CASE "opendev.org" \in ConnNames(c)
    <3>1. PICK conn \in ConnectionsOf(c) : conn.name = "opendev.org"
      BY <2>1 DEF ConnNames
    <3>2. conn.url \in {"https://opendev.org", "review.opendev.org"}
      BY <3>1 DEF Accepted, OpendevIsOpendev
    <3>3. \E keys \in SectionsOf(Connection("opendev.org"), new) : keys.url = conn.url
      BY <3>1, ConnectionsKept
    <3> HIDE DEF new
    <3> QED BY <3>2, <3>3
  <2>2. CASE "opendev.org" \notin ConnNames(c)
    <3>1. /\ Len(D) = 3 /\ D[2].name = Connection("opendev.org")
          /\ D[2].keys.url = "https://opendev.org/"
      BY <2>2, DefaultsNames
    <3>2. a[i2] = D[2]
      BY <3>1, DefaultPlaces, ConfShape
    <3>3. a[i2].name[1] = "connection"
      BY <3>1, PrefixOf
    <3>4. i2 \in DOMAIN new /\ new[i2].name = a[i2].name /\ new[i2].keys = a[i2].keys
      BY <1>2, <3>1, <3>3, ConnectionSection
    <3> HIDE DEF new, a, i2, D
    <3>5. new[i2].keys \in SectionsOf(Connection("opendev.org"), new)
      BY <3>1, <3>2, <3>4, SectionIn
    <3> QED BY <3>1, <3>2, <3>4, <3>5
  <2> QED BY <2>1, <2>2
<1> QED BY <1>3, <1>4

\* The last authenticator of a name is the one whose keys stay.
LEMMA AuthKept ==
    ASSUME NEW c \in CRType, NEW s, NEW h \in DOMAIN c.auths, LastOfItsName(h, c)
    PROVE  \E keys \in SectionsOf(Auth(c.auths[h].name), NewSections(ZuulConf(c, s))) :
              keys.driver = "OpenIDConnect" /\ keys.realm = c.auths[h].realm
<1> DEFINE a == ZuulConf(c, s)
           n == Total(c)
           q == FromAuths(c) + h
           name == Auth(c.auths[h].name)
<1>1. n \in Nat /\ DOMAIN a = 1..n
  BY OffsetsOf, ConfShape
<1>2. h \in 1..Len(c.auths) /\ q \in 1..n
  <2>1. /\ Len(c.auths) \in Nat /\ DOMAIN c.auths = 1..Len(c.auths)
        /\ FromAuths(c) \in Nat /\ FromDefault(c) \in Nat /\ FromSettings(c) \in Nat
        /\ n \in Nat /\ FromDefault(c) <= FromSettings(c) /\ FromSettings(c) < n
    BY OffsetsOf, Zenon
  <2>2. FromDefault(c) = FromAuths(c) + Len(c.auths)
    BY DEF FromDefault
  <2> HIDE DEF n
  <2> QED BY ONLY h \in DOMAIN c.auths, <2>1, <2>2
<1>3. /\ a[q].name = name /\ DOMAIN a[q].keys = {"driver", "realm"}
      /\ a[q].keys.driver = "OpenIDConnect" /\ a[q].keys.realm = c.auths[h].realm
  BY <1>2, ConfShape, AuthOf
<1>4. name[1] = "auth"
  BY NamePrefixes
<1>5. ASSUME NEW m \in 1..n, a[m].name = name, q <= m,
             "driver" \in DOMAIN a[m].keys \/ "realm" \in DOMAIN a[m].keys
      PROVE  m = q
  <2>1. a[m].name[1] = "auth"
    BY <1>4, <1>5
  <2>2. c.auths[h].name # "zuul_client"
    BY DEF LastOfItsName
  <2>3. name # Auth("zuul_client")
    BY <2>2, NamePrefixes
  <2>4. m # 8
    BY <1>5, <2>3, ConfShape, ZuulDotConfOf
  <2>5. ~(~c.standalone /\ m = FromSettings(c) + 8)
    <3> SUFFICES ASSUME ~c.standalone, m = FromSettings(c) + 8 PROVE FALSE
      OBVIOUS
    <3>1. 8 \in 1..NumSettings(c)
      BY DEF NumSettings
    <3>2. a[m] = AddSettings(c, s)[8]
      BY <3>1, ConfShape
    <3>3. a[m].name = Auth("zuul_client")
      BY <3>2, SettingsNames
    <3> QED BY <1>5, <2>3, <3>3
  <2>6. ~(Len(AddDefaultAuth(c)) = 1 /\ m = FromDefault(c) + 1)
    <3> SUFFICES ASSUME Len(AddDefaultAuth(c)) = 1, m = FromDefault(c) + 1 PROVE FALSE
      OBVIOUS
    <3>1. AddDefaultAuth(c)[1].keys = [default |-> TRUE]
      BY DefaultAuthOf
    <3>2. a[m] = AddDefaultAuth(c)[1]
      <4> DEFINE e == Len(AddDefaultAuth(c))
      <4>1. \A x \in 1..e : a[FromDefault(c) + x] = AddDefaultAuth(c)[x]
        BY ConfShape
      <4>2. e = 1
        OBVIOUS
      <4> HIDE DEF e, a
      <4>3. 1 \in 1..e
        BY <4>2
      <4> QED BY <4>1, <4>3
    <3>3. DOMAIN a[m].keys = {"default"}
      <4> HIDE DEF a
      <4> QED BY <3>1, <3>2
    <3> QED BY <1>5, <3>3
  <2>7. PICK j \in 1..Len(c.auths) : m = FromAuths(c) + j
    BY <2>1, <2>4, <2>5, <2>6, Places
  <2>8. a[m].name = Auth(c.auths[j].name)
    BY <2>7, ConfShape, AuthOf
  <2>9. c.auths[j].name = c.auths[h].name
    BY <1>5, <2>8, NamePrefixes
  <2>10. ~(j > h)
    BY <2>9, OffsetsOf DEF LastOfItsName
  <2> QED BY <1>2, <1>5, <2>7, <2>10, OffsetsOf
<1> HIDE DEF a, n, q, name
<1>6. {"driver", "realm"} \subseteq DOMAIN Merged(a, name)
  BY <1>1, <1>2, <1>3, MergedDomain
<1>7. ASSUME NEW key \in {"driver", "realm"} PROVE Merged(a, name)[key] = a[q].keys[key]
  <2>1. PICK m \in 1..n :
           /\ a[m].name = name /\ key \in DOMAIN a[m].keys
           /\ Merged(a, name)[key] = a[m].keys[key]
           /\ \A i \in 1..n : a[i].name = name /\ key \in DOMAIN a[i].keys => i <= m
    BY <1>1, <1>6, MergedKey
  <2>2. q <= m
    BY <1>2, <1>3, <2>1
  <2>3. m = q
    BY <1>5, <2>1, <2>2
  <2> QED BY <2>1, <2>3
<1>8. PICK k \in DOMAIN NewSections(a) : a[k].name = name
  BY <1>1, <1>2, <1>3, SectionOf
<1>9. NewSections(a)[k].name = name /\ NewSections(a)[k].keys = Merged(a, name)
  BY <1>1, <1>8, SectionsShape
<1>10. Merged(a, name) \in SectionsOf(name, NewSections(a))
  BY <1>9, SectionIn
<1>11. Merged(a, name).driver = "OpenIDConnect" /\ Merged(a, name).realm = c.auths[h].realm
  BY <1>3, <1>7
<1> QED BY <1>10, <1>11 DEF a, name

\* At most one authenticator is the default one.
LEMMA OneDefault ==
    ASSUME NEW c \in CRType, NEW s
    PROVE  LET new == NewSections(ZuulConf(c, s)) IN
           Cardinality({i \in DOMAIN new : "default" \in DOMAIN new[i].keys}) <= 1
<1> DEFINE a == ZuulConf(c, s)
           n == Total(c)
           new == NewSections(a)
           S == {i \in DOMAIN new : "default" \in DOMAIN new[i].keys}
<1>1. n \in Nat /\ DOMAIN a = 1..n
  BY OffsetsOf, ConfShape
<1>2. \A m \in 1..n : "default" \in DOMAIN a[m].keys => m = FromDefault(c) + 1
  BY KeysAt
<1> HIDE DEF a, n
<1>3. \A i \in DOMAIN new : new[i].name = a[i].name /\ new[i].keys = Merged(a, a[i].name)
  BY <1>1, SectionsShape
<1>4. \A i, j \in DOMAIN new : new[i].name = new[j].name => i = j
  BY <1>1, SectionsShape
<1>5. ASSUME NEW i \in S PROVE new[i].name = a[FromDefault(c) + 1].name
  <2>1. i \in DOMAIN new /\ "default" \in DOMAIN Merged(a, a[i].name)
    BY <1>3
  <2>2. PICK m \in 1..n : a[m].name = a[i].name /\ "default" \in DOMAIN a[m].keys
    BY <1>1, <2>1, MergedKey
  <2> QED BY <1>2, <1>3, <2>1, <2>2
<1>6. \A i, j \in S : i = j
  BY <1>4, <1>5
<1> HIDE DEF S
<1>7. CASE S = {}
  <2>1. Cardinality(S) = 0
    BY <1>7, FS_EmptySet
  <2> QED BY <2>1 DEF S, new, a
<1>8. CASE S # {}
  <2>1. PICK x : x \in S
    BY <1>8
  <2>2. S = {x}
    BY <1>6, <2>1
  <2>3. Cardinality(S) = 1
    BY <2>2, FS_Singleton
  <2> QED BY <2>3 DEF S, new, a
<1> QED BY <1>7, <1>8

\* All that SectionsKept asks of a zuul.conf.
LEMMA ConfKeeps ==
    ASSUME NEW c \in CRType, Accepted(c), NEW s
    PROVE  Kept(c, NewSections(ZuulConf(c, s)))
BY ConnectionsKept, DefaultsKept, AuthKept, OneDefault DEF Kept

-----------------------------------------------------------------------------
(* What the templates, the pods and zuul.conf were made from. *)

\* What the secrets of a site hold
Contents == [Secrets -> Nat]

\* A zuul.conf that was made from a CR that is accepted
IsConf(f) ==
    \E c \in CRs, s \in Contents : Accepted(c) /\ f = NewSections(ZuulConf(c, s))

\* What a template was made from
MadeFrom(w, c, s) ==
    /\ Accepted(c) /\ (c.standalone <=> w = "remote-executor")
    /\ template[w] = Template(Service(w), c, NewSections(ZuulConf(c, s)))
    /\ input[w] = Inputs(Service(w), c, s)

\* Beyond the checks of a CR, and after zuul.conf is written
PassInv ==
    /\ pc \in {"validate", "conf", "end"} \cup Workloads => Accepted(cr)
    /\ pc \in Workloads \cup {"end"} => conf[Site(cr)] = NewSections(ZuulConf(cr, read))

\* Every template was made from a CR and secrets that were there.
TemplateInv ==
    \A w \in Workloads : template[w] # NoTemplate => \E c \in CRs, s \in Contents : MadeFrom(w, c, s)

\* So was every zuul.conf, at a site or in a pod.
LoadedInv ==
    /\ \A s \in Sites : conf[s] = << >> \/ IsConf(conf[s])
    /\ \A w \in Workloads : pod[w].conf = << >> \/ IsConf(pod[w].conf)

DataInv == PassInv /\ TemplateInv /\ LoadedInv

\* The services of a pass are at the site of its CR.
LEMMA OrderOf ==
    ASSUME NEW c, c.standalone \in BOOLEAN, NEW i \in DOMAIN Order(c)
    PROVE  /\ c.standalone <=> Order(c)[i] = "remote-executor"
           /\ SiteOf(Order(c)[i]) = Site(c)
<1>1. CASE c.standalone
  BY <1>1 DEF Order, SiteOf, Site
<1>2. CASE ~c.standalone /\ c.executor
  BY <1>2 DEF Order, SiteOf, Site
<1>3. CASE ~c.standalone /\ ~c.executor
  BY <1>3 DEF Order, SiteOf, Site
<1> QED BY <1>1, <1>2, <1>3

LEMMA CROf == \A c \in CRs : c \in CRType /\ c.standalone \in BOOLEAN
BY CRsAssumption, OffsetsOf

LEMMA InitData == Init => DataInv
<1> SUFFICES ASSUME Init PROVE DataInv
  OBVIOUS
<1>1. PassInv
  <2>1. pc = "idle"
    BY DEF Init
  <2> QED BY <2>1, ServicesArePlaces DEF PassInv
<1>2. TemplateInv
  BY DEF Init, TemplateInv
<1>3. LoadedInv
  BY DEF Init, LoadedInv, NoPod
<1> QED BY <1>1, <1>2, <1>3 DEF DataInv

LEMMA DataUnchanged ==
    /\ TemplateInv /\ UNCHANGED <<template, input>> => TemplateInv'
    /\ LoadedInv /\ UNCHANGED <<conf, pod>> => LoadedInv'
    /\ PassInv /\ UNCHANGED <<pc, cr, conf, read>> => PassInv'
<1>1. ASSUME TemplateInv, UNCHANGED <<template, input>> PROVE TemplateInv'
  BY <1>1 DEF TemplateInv, MadeFrom
<1>2. ASSUME LoadedInv, UNCHANGED <<conf, pod>> PROVE LoadedInv'
  BY <1>2 DEF LoadedInv, IsConf
<1>3. ASSUME PassInv, UNCHANGED <<pc, cr, conf, read>> PROVE PassInv'
  BY <1>3 DEF PassInv
<1> QED BY <1>1, <1>2, <1>3

\* What is before zuul.conf is written, and what ends a command
LEMMA PassBefore ==
    ASSUME pc' \in {"idle", "ok", "copy"} \/ (pc' \in {"validate", "conf"} /\ Accepted(cr'))
    PROVE  PassInv'
<1>1. pc' \notin Workloads \cup {"end"}
  BY ServicesArePlaces
<1> QED BY <1>1 DEF PassInv

LEMMA ConfStepData == TypeInv /\ DataInv /\ EnsureZuulConfigSecret => DataInv'
<1> SUFFICES ASSUME TypeInv, DataInv, EnsureZuulConfigSecret PROVE DataInv'
  OBVIOUS
<1> DEFINE new == NewSections(ZuulConf(cr, secrets[Site(cr)]))
<1>1. /\ pc = "conf" /\ pc' = Order(cr)[1] /\ cr' = cr /\ cr \in CRs /\ DOMAIN conf = Sites
      /\ read' = secrets[Site(cr)] /\ conf' = [conf EXCEPT ![Site(cr)] = new]
      /\ secrets \in [Sites -> Contents] /\ Site(cr) \in Sites
      /\ DOMAIN template = Workloads /\ DOMAIN pod = Workloads /\ DOMAIN input = Workloads
  BY DEF EnsureZuulConfigSecret, TypeInv, TypeOK, command, Site, Sites, Contents
<1>2. Accepted(cr)
  BY <1>1 DEF DataInv, PassInv
<1>3. IsConf(new)
  BY <1>1, <1>2 DEF IsConf
<1>4. PassInv'
  <2>1. conf'[Site(cr)] = NewSections(ZuulConf(cr', read'))
    BY <1>1
  <2> QED BY <1>1, <1>2, <2>1 DEF PassInv
<1> HIDE DEF new
<1>5. TemplateInv'
  <2> SUFFICES ASSUME NEW w \in Workloads, template'[w] # NoTemplate
               PROVE  \E c \in CRs, s \in Contents : MadeFrom(w, c, s)'
    BY DEF TemplateInv
  <2>1. template'[w] = template[w] /\ input'[w] = input[w]
    BY <1>1 DEF EnsureZuulConfigSecret
  <2>2. PICK c \in CRs, s \in Contents : MadeFrom(w, c, s)
    BY <2>1 DEF DataInv, TemplateInv
  <2> QED BY <2>1, <2>2 DEF MadeFrom
<1>6. LoadedInv'
  <2>1. ASSUME NEW s \in Sites PROVE conf'[s] = << >> \/ IsConf(conf'[s])
    BY <1>1, <1>3 DEF DataInv, LoadedInv
  <2>2. ASSUME NEW w \in Workloads PROVE pod'[w].conf = << >> \/ IsConf(pod'[w].conf)
    <3>1. pod'[w] = pod[w] \/ pod'[w] = NoPod
      BY <1>1 DEF EnsureZuulConfigSecret
    <3>2. pod'[w].conf = pod[w].conf \/ pod'[w].conf = << >>
      BY <3>1 DEF NoPod
    <3> QED BY <3>2 DEF DataInv, LoadedInv
  <2>3. \A f : IsConf(f)' <=> IsConf(f)
    BY DEF IsConf
  <2> QED BY <2>1, <2>2 DEF LoadedInv, IsConf
<1> QED BY <1>4, <1>5, <1>6 DEF DataInv

LEMMA ServiceData ==
    ASSUME TypeInv, DataInv, NEW w \in Workloads, EnsureService(w)
    PROVE  DataInv'
<1> DEFINE new == Template(Service(w), cr, conf[Site(cr)])
<1>1. /\ pc = w /\ UNCHANGED <<conf, pod>>
      /\ \/ UNCHANGED <<template, input>>
         \/ /\ template' = [template EXCEPT ![w] = new]
            /\ input' = [input EXCEPT ![w] = Inputs(Service(w), cr, read)]
      /\ \/ pc' = After(w) /\ UNCHANGED <<cr, read>>
         \/ pc' = "idle"
  BY DEF EnsureService
<1>2. /\ cr \in CRs /\ read \in Contents /\ Accepted(cr)
      /\ conf[Site(cr)] = NewSections(ZuulConf(cr, read))
      /\ DOMAIN template = Workloads /\ DOMAIN input = Workloads
  BY <1>1 DEF DataInv, PassInv, TypeInv, TypeOK, Contents
<1>3. PICK i \in DOMAIN Order(cr) : Order(cr)[i] = w
  BY <1>1 DEF TypeInv, WalkInv
<1>4. cr.standalone <=> w = "remote-executor"
  BY <1>2, <1>3, CROf, OrderOf
<1>5. LoadedInv'
  BY <1>1, DataUnchanged DEF DataInv
<1>6. PassInv'
  <2>1. CASE pc' = "idle"
    BY <2>1, PassBefore
  <2>2. CASE pc' = After(w) /\ UNCHANGED <<cr, read>>
    BY <1>1, <1>2, <2>2 DEF PassInv
  <2> QED BY <1>1, <2>1, <2>2
<1>7. TemplateInv'
  <2>1. CASE UNCHANGED <<template, input>>
    BY <2>1, DataUnchanged DEF DataInv
  <2>2. CASE /\ template' = [template EXCEPT ![w] = new]
             /\ input' = [input EXCEPT ![w] = Inputs(Service(w), cr, read)]
    <3> SUFFICES ASSUME NEW v \in Workloads, template'[v] # NoTemplate
                 PROVE  \E c \in CRs, s \in Contents : MadeFrom(v, c, s)'
      BY DEF TemplateInv
    <3>1. CASE v = w
      <4>1. /\ template'[w] = Template(Service(w), cr, NewSections(ZuulConf(cr, read)))
            /\ input'[w] = Inputs(Service(w), cr, read)
        BY <1>2, <2>2
      <4> QED BY <1>2, <1>4, <3>1, <4>1 DEF MadeFrom
    <3>2. CASE v # w
      <4>1. template'[v] = template[v] /\ input'[v] = input[v]
        BY <1>2, <2>2, <3>2
      <4>2. PICK c \in CRs, s \in Contents : MadeFrom(v, c, s)
        BY <4>1 DEF DataInv, TemplateInv
      <4> QED BY <4>1, <4>2 DEF MadeFrom
    <3> QED BY <3>1, <3>2
  <2> QED BY <1>1, <2>1, <2>2
<1> QED BY <1>5, <1>6, <1>7 DEF DataInv

LEMMA PodData ==
    ASSUME TypeInv, DataInv, NEW w \in Workloads, PodStart(w) \/ PodRestart(w)
    PROVE  DataInv'
<1>1. UNCHANGED <<pc, cr, conf, read, template, input>>
  BY DEF PodStart, PodRestart, command, cluster, history
<1>2. PICK from : pod' = [pod EXCEPT ![w] = [template |-> from, conf |-> conf[SiteOf(w)],
                                             level |-> logging[SiteOf(w)][Service(w)]]]
  BY DEF PodStart, PodRestart, Load
<1>3. DOMAIN pod = Workloads /\ SiteOf(w) \in Sites
  BY DEF TypeInv, TypeOK, SiteOf, Sites
<1>4. ASSUME NEW v \in Workloads PROVE pod'[v].conf = << >> \/ IsConf(pod'[v].conf)
  <2>1. CASE v = w
    <3>1. pod'[v].conf = conf[SiteOf(w)]
      BY <1>2, <1>3, <2>1
    <3> QED BY <1>3, <3>1 DEF DataInv, LoadedInv
  <2>2. CASE v # w
    <3>1. pod'[v] = pod[v]
      BY <1>2, <1>3, <2>2
    <3> QED BY <3>1 DEF DataInv, LoadedInv
  <2> QED BY <2>1, <2>2
<1>5. LoadedInv'
  BY <1>1, <1>4 DEF DataInv, LoadedInv, IsConf
<1>6. TemplateInv' /\ PassInv'
  BY <1>1, DataUnchanged DEF DataInv
<1> QED BY <1>5, <1>6 DEF DataInv

LEMMA NextData == Inv /\ TypeInv /\ DataInv /\ [Next]_vars => DataInv'
<1> SUFFICES ASSUME TypeInv, DataInv, [Next]_vars PROVE DataInv'
  OBVIOUS
<1>0. PassInv /\ TemplateInv /\ LoadedInv
  BY DEF DataInv
<1>1. ASSUME PassInv', UNCHANGED <<conf, pod, template, input>> PROVE DataInv'
  BY <1>0, <1>1, DataUnchanged DEF DataInv
<1>2. ASSUME NEW c \in CRs, NEW copy \in BOOLEAN, Start(c, copy) PROVE DataInv'
  <2>1. /\ UNCHANGED <<conf, pod, template, input>>
        /\ pc' \in {"idle", "ok", "copy"} \/ (pc' = "validate" /\ Accepted(cr'))
    BY <1>2 DEF Start, Running, cluster, history
  <2> QED BY <1>1, <2>1, PassBefore
<1>3. CASE CopySecret
  <2>1. pc' = "copy" /\ UNCHANGED <<conf, pod, template, input>>
    BY <1>3 DEF CopySecret, history
  <2> QED BY <1>1, <2>1, PassBefore
<1>4. CASE CopyEnds
  <2>1. /\ UNCHANGED <<conf, pod, template, input>>
        /\ pc' = "idle" \/ (pc' = "validate" /\ Accepted(cr'))
    BY <1>4 DEF CopyEnds, cluster
  <2> QED BY <1>1, <2>1, PassBefore
<1>5. CASE Validate
  <2>1. /\ UNCHANGED <<conf, pod, template, input, cr>> /\ pc = "validate" /\ pc' = "conf"
    BY <1>5 DEF Validate, history
  <2>2. Accepted(cr')
    BY <1>0, <2>1 DEF PassInv
  <2> QED BY <1>1, <2>1, <2>2, PassBefore
<1>6. CASE EnsureZuulConfigSecret
  BY <1>6, ConfStepData
<1>7. ASSUME NEW w \in Workloads, EnsureService(w) PROVE DataInv'
  BY <1>7, ServiceData
<1>8. CASE Finish
  <2>1. /\ UNCHANGED <<conf, pod, template, input>> /\ pc = "end"
        /\ pc' = "ok" \/ (pc' = "validate" /\ cr' = cr)
    BY <1>8 DEF Finish, cluster
  <2>2. Accepted(cr)
    BY <1>0, <2>1 DEF PassInv
  <2> QED BY <1>1, <2>1, <2>2, PassBefore
<1>9. CASE Kill
  <2>1. pc' = "idle" /\ UNCHANGED <<conf, pod, template, input>>
    BY <1>9 DEF Kill, cluster
  <2> QED BY <1>1, <2>1, PassBefore
<1>10. ASSUME NEW w \in Workloads, PodStart(w) \/ PodRestart(w) PROVE DataInv'
  BY <1>10, PodData
<1>11. ASSUME NEW n \in Editable, Edit(n) PROVE DataInv'
  <2>1. UNCHANGED <<pc, cr, conf, read, pod, template, input>>
    BY <1>11 DEF Edit, command
  <2> QED BY <1>0, <2>1, DataUnchanged DEF DataInv
<1>12. CASE UNCHANGED vars
  <2>1. UNCHANGED <<pc, cr, conf, read, pod, template, input>>
    BY <1>12 DEF vars, command, cluster, history
  <2> QED BY <1>0, <2>1, DataUnchanged DEF DataInv
<1> QED BY <1>2, <1>3, <1>4, <1>5, <1>6, <1>7, <1>8, <1>9, <1>10, <1>11, <1>12 DEF Next, Deploy

\* The inductive invariant.
Inductive == Inv /\ TypeInv /\ DataInv

LEMMA InductiveInvariant == Spec => []Inductive
<1>1. Init => Inductive
  BY InitInv, InitType, InitData DEF Inductive
<1>2. Inductive /\ [Next]_vars => Inductive'
  BY NextInv, NextType, NextData DEF Inductive
<1> QED BY <1>1, <1>2, PTL DEF Spec

\* Of a CR that is accepted, every connection has a section of its own.
LEMMA KeptStep ==
    ASSUME Inductive, [Next]_vars, pc = "conf", pc' # "idle", conf' # conf
    PROVE  Kept(cr, conf'[Site(cr)])
<1>1. EnsureZuulConfigSecret
  <2>1. ASSUME NEW w \in Workloads PROVE pc # w
    BY ServicesArePlaces
  <2> QED BY <2>1
       DEF Next, Deploy, Start, Running, CopySecret, CopyEnds, Validate, Finish, cluster,
           EnsureService, Kill, PodStart, PodRestart, Edit, vars
<1>2. cr \in CRType /\ Accepted(cr) /\ DOMAIN conf = Sites /\ Site(cr) \in Sites
  <2>1. cr \in CRs /\ DOMAIN conf = Sites /\ Site(cr) \in Sites
    BY DEF Inductive, TypeInv, TypeOK, Site, Sites
  <2>2. Accepted(cr)
    BY DEF Inductive, DataInv, PassInv
  <2> QED BY <2>1, <2>2, CROf
<1>3. conf'[Site(cr)] = NewSections(ZuulConf(cr, secrets[Site(cr)]))
  BY <1>1, <1>2 DEF EnsureZuulConfigSecret
<1> QED BY <1>2, <1>3, ConfKeeps

\* The zuul.conf that EnsureZuulConfigSecret writes has a section for every
\* connection of the CR, with its driver and url, for every authenticator, the last
\* of its name, for git-server and opendev.org, and one default authenticator at
\* most: because MkSFController refuses a CR with two connections of a name, and
\* AddDefaultConnections leaves out an opendev.org that the CR has.
THEOREM SectionsStay == Spec => SectionsKept
<1>1. Inductive /\ [Next]_vars =>
         [pc = "conf" /\ pc' # "idle" /\ conf' # conf => Kept(cr, conf'[Site(cr)])]_vars
  BY KeptStep
<1> QED BY <1>1, InductiveInvariant, PTL DEF Spec, SectionsKept

-----------------------------------------------------------------------------
(* The annotations of a service are made of its inputs. *)

\* What is read off the inputs of a service
LEMMA InputsOf ==
    ASSUME NEW service, NEW c, NEW s
    PROVE  LET in == Inputs(service, c, s) IN
           /\ in.conns = c.conns
           /\ in.level = ComputeLoggingConfig(c)[service]
           /\ service # "web" => in.option = c.option[service]
           /\ service \in {"scheduler", "web"} =>
                 in.fqdn = c.fqdn /\ in.auths = <<c.auths, c.defaultAuth>>
           /\ service = "scheduler" => in.repo = c.repo
           /\ in.contents["zuul-keystore-password"] = s["zuul-keystore-password"]
           /\ in.contents["zuul-db-connection"] = s["zuul-db-connection"]
           /\ service \in {"scheduler", "web"} =>
                 in.contents["zuul-auth-secret"] = s["zuul-auth-secret"]
           /\ \A conn \in ConnectionsOf(c) : conn.secret # Empty =>
                 in.contents[conn.secret] = s[conn.secret]
<1> DEFINE own  == {"zuul-keystore-password", "zuul-db-connection"}
                   \cup (IF service \in {"scheduler", "web"} THEN {"zuul-auth-secret"} ELSE {})
           used == own \cup ({conn.secret : conn \in ConnectionsOf(c)} \ {Empty})
           in == Inputs(service, c, s)
<1>1. /\ in.conns = c.conns
      /\ in.level = ComputeLoggingConfig(c)[service]
      /\ in.contents = [n \in used |-> s[n]]
  BY DEF Inputs
<1>2. /\ service # "web" => in.option = c.option[service]
      /\ service \in {"scheduler", "web"} =>
            in.fqdn = c.fqdn /\ in.auths = <<c.auths, c.defaultAuth>>
      /\ service = "scheduler" => in.repo = c.repo
  BY DEF Inputs
<1>3. /\ {"zuul-keystore-password", "zuul-db-connection"} \subseteq used
      /\ service \in {"scheduler", "web"} => "zuul-auth-secret" \in used
      /\ \A conn \in ConnectionsOf(c) : conn.secret # Empty => conn.secret \in used
  OBVIOUS
<1> HIDE DEF in, used
<1>4. \A n \in used : in.contents[n] = s[n]
  BY <1>1
<1> QED BY <1>1, <1>2, <1>3, <1>4 DEF in

\* The inputs of a service that are the same
SameInputs(service, c1, s1, c2, s2) ==
    /\ c1.conns = c2.conns
    /\ ComputeLoggingConfig(c1)[service] = ComputeLoggingConfig(c2)[service]
    /\ service # "web" => c1.option[service] = c2.option[service]
    /\ service \in {"scheduler", "web"} =>
          /\ c1.fqdn = c2.fqdn /\ c1.auths = c2.auths /\ c1.defaultAuth = c2.defaultAuth
          /\ s1["zuul-auth-secret"] = s2["zuul-auth-secret"]
    /\ service = "scheduler" => c1.repo = c2.repo
    /\ s1["zuul-keystore-password"] = s2["zuul-keystore-password"]
    /\ s1["zuul-db-connection"] = s2["zuul-db-connection"]
    /\ \A conn \in ConnectionsOf(c1) : conn.secret # Empty => s1[conn.secret] = s2[conn.secret]

\* The lists of connections decide on what is made of them.
LEMMA SameConnections ==
    ASSUME NEW c1, NEW c2, c1.conns = c2.conns
    PROVE  InOrder(c1) = InOrder(c2) /\ ConnectionsOf(c1) = ConnectionsOf(c2)
           /\ ConnNames(c1) = ConnNames(c2)
<1>1. InOrder(c1) = InOrder(c2)
  BY DEF InOrder
<1>2. ConnectionsOf(c1) = ConnectionsOf(c2)
  BY <1>1 DEF ConnectionsOf
<1> QED BY <1>1, <1>2 DEF ConnNames

LEMMA InputsAreSame ==
    ASSUME NEW service, NEW c1, NEW s1, NEW c2, NEW s2,
           Inputs(service, c1, s1) = Inputs(service, c2, s2)
    PROVE  SameInputs(service, c1, s1, c2, s2)
<1> DEFINE i1 == Inputs(service, c1, s1)
           i2 == Inputs(service, c2, s2)
<1>1. /\ i1.conns = c1.conns
      /\ i1.level = ComputeLoggingConfig(c1)[service]
      /\ service # "web" => i1.option = c1.option[service]
      /\ service \in {"scheduler", "web"} =>
            i1.fqdn = c1.fqdn /\ i1.auths = <<c1.auths, c1.defaultAuth>>
      /\ service = "scheduler" => i1.repo = c1.repo
      /\ i1.contents["zuul-keystore-password"] = s1["zuul-keystore-password"]
      /\ i1.contents["zuul-db-connection"] = s1["zuul-db-connection"]
      /\ service \in {"scheduler", "web"} =>
            i1.contents["zuul-auth-secret"] = s1["zuul-auth-secret"]
      /\ \A conn \in ConnectionsOf(c1) : conn.secret # Empty =>
            i1.contents[conn.secret] = s1[conn.secret]
  BY InputsOf
<1>2. /\ i2.conns = c2.conns
      /\ i2.level = ComputeLoggingConfig(c2)[service]
      /\ service # "web" => i2.option = c2.option[service]
      /\ service \in {"scheduler", "web"} =>
            i2.fqdn = c2.fqdn /\ i2.auths = <<c2.auths, c2.defaultAuth>>
      /\ service = "scheduler" => i2.repo = c2.repo
      /\ i2.contents["zuul-keystore-password"] = s2["zuul-keystore-password"]
      /\ i2.contents["zuul-db-connection"] = s2["zuul-db-connection"]
      /\ service \in {"scheduler", "web"} =>
            i2.contents["zuul-auth-secret"] = s2["zuul-auth-secret"]
      /\ \A conn \in ConnectionsOf(c2) : conn.secret # Empty =>
            i2.contents[conn.secret] = s2[conn.secret]
  BY InputsOf
<1>3. i1 = i2
  OBVIOUS
<1> HIDE DEF i1, i2
<1>4. c1.conns = c2.conns
  BY <1>1, <1>2, <1>3
<1>5. ConnectionsOf(c1) = ConnectionsOf(c2)
  BY <1>4, SameConnections
<1>6. \A conn \in ConnectionsOf(c1) : conn.secret # Empty => s1[conn.secret] = s2[conn.secret]
  BY <1>1, <1>2, <1>3, <1>5
<1>7. service \in {"scheduler", "web"} => c1.auths = c2.auths /\ c1.defaultAuth = c2.defaultAuth
  <2>1. service \in {"scheduler", "web"} => <<c1.auths, c1.defaultAuth>> = <<c2.auths, c2.defaultAuth>>
    BY <1>1, <1>2, <1>3
  <2> QED BY <2>1
<1> QED BY <1>1, <1>2, <1>3, <1>4, <1>6, <1>7 DEF SameInputs

\* A connection's section is made of the connection and of one secret.
LEMMA SameSection ==
    ASSUME NEW conn, NEW s1, NEW s2, conn.secret # Empty => s1[conn.secret] = s2[conn.secret]
    PROVE  AddConnection(conn, s1) = AddConnection(conn, s2)
<1>1. Token(s1, conn.secret) = Token(s2, conn.secret)
  BY DEF Token
<1>2. /\ AddGerritConnection(conn, s1) = AddGerritConnection(conn, s2)
      /\ AddGitHubConnection(conn, s1) = AddGitHubConnection(conn, s2)
      /\ AddGitLabConnection(conn, s1) = AddGitLabConnection(conn, s2)
      /\ AddPagureConnection(conn, s1) = AddPagureConnection(conn, s2)
      /\ AddElasticSearchConnection(conn, s1) = AddElasticSearchConnection(conn, s2)
      /\ AddSMTPConnection(conn, s1) = AddSMTPConnection(conn, s2)
  BY <1>1 DEF AddGerritConnection, AddGitHubConnection, AddGitLabConnection,
              AddPagureConnection, AddElasticSearchConnection, AddSMTPConnection
<1> QED BY <1>2 DEF AddConnection

\* The parts of two CRs with the same connections are at the same places.
LEMMA SameOffsets ==
    ASSUME NEW c1 \in CRType, NEW c2 \in CRType, c1.conns = c2.conns,
           c1.standalone = c2.standalone
    PROVE  /\ AddDefaultConnections(c1) = AddDefaultConnections(c2)
           /\ FromDefaults(c1) = FromDefaults(c2) /\ FromAuths(c1) = FromAuths(c2)
           /\ NumSettings(c1) = NumSettings(c2)
           /\ c1.auths = c2.auths /\ c1.defaultAuth = c2.defaultAuth =>
                 /\ AddDefaultAuth(c1) = AddDefaultAuth(c2)
                 /\ FromDefault(c1) = FromDefault(c2) /\ FromSettings(c1) = FromSettings(c2)
                 /\ Total(c1) = Total(c2)
<1>1. InOrder(c1) = InOrder(c2) /\ ConnNames(c1) = ConnNames(c2)
  BY SameConnections
<1>2. AddDefaultConnections(c1) = AddDefaultConnections(c2)
  BY <1>1 DEF AddDefaultConnections
<1>3. FromDefaults(c1) = FromDefaults(c2) /\ FromAuths(c1) = FromAuths(c2)
  BY <1>1, <1>2 DEF FromDefaults, FromAuths
<1>4. NumSettings(c1) = NumSettings(c2)
  BY DEF NumSettings
<1>5. ASSUME c1.auths = c2.auths, c1.defaultAuth = c2.defaultAuth
      PROVE  AddDefaultAuth(c1) = AddDefaultAuth(c2)
  BY <1>5 DEF AddDefaultAuth
<1> QED BY <1>2, <1>3, <1>4, <1>5 DEF FromDefault, FromSettings, Total

\* The sections of a prefix in one zuul.conf are in the other, at the same places.
Within(a1, n1, a2, n2, p) ==
    \A i \in 1..n1 : a1[i].name[1] = p => i \in 1..n2 /\ a2[i] = a1[i]

LEMMA BodiesAgree ==
    ASSUME NEW c1 \in CRType, NEW s1, NEW c2 \in CRType, NEW s2, NEW p,
           Within(ZuulConf(c1, s1), Total(c1), ZuulConf(c2, s2), Total(c2), p),
           Within(ZuulConf(c2, s2), Total(c2), ZuulConf(c1, s1), Total(c1), p)
    PROVE  Body(NewSections(ZuulConf(c1, s1)), p) = Body(NewSections(ZuulConf(c2, s2)), p)
<1> DEFINE a1 == ZuulConf(c1, s1)
           a2 == ZuulConf(c2, s2)
           n1 == Total(c1)
           n2 == Total(c2)
<1>1. n1 \in Nat /\ n2 \in Nat /\ DOMAIN a1 = 1..n1 /\ DOMAIN a2 = 1..n2
  BY OffsetsOf, ConfShape
<1>2. Within(a1, n1, a2, n2, p) /\ Within(a2, n2, a1, n1, p)
  OBVIOUS
<1> HIDE DEF a1, a2, n1, n2
<1>3. \A i \in 1..n1 : a1[i].name[1] = p => i \in 1..n2 /\ a2[i] = a1[i]
  BY <1>2 DEF Within
<1>4. \A i \in 1..n2 : a2[i].name[1] = p => i \in 1..n1 /\ a2[i] = a1[i]
  BY <1>2 DEF Within
<1>5. Body(NewSections(a1), p) = Body(NewSections(a2), p)
  BY <1>1, <1>3, <1>4, SectionsAgree
<1> QED BY <1>5 DEF a1, a2

\* With the same connections and secrets, the connection sections are the same.
LEMMA ConnectionsWithin ==
    ASSUME NEW c1 \in CRType, NEW s1, NEW c2 \in CRType, NEW s2,
           c1.conns = c2.conns, c1.standalone = c2.standalone,
           \A conn \in ConnectionsOf(c1) : conn.secret # Empty => s1[conn.secret] = s2[conn.secret]
    PROVE  Within(ZuulConf(c1, s1), Total(c1), ZuulConf(c2, s2), Total(c2), "connection")
<1> DEFINE a1 == ZuulConf(c1, s1)
           a2 == ZuulConf(c2, s2)
           D  == AddDefaultConnections(c1)
<1> SUFFICES ASSUME NEW i \in 1..Total(c1), a1[i].name[1] = "connection"
             PROVE  i \in 1..Total(c2) /\ a2[i] = a1[i]
  BY DEF Within
<1>1. /\ InOrder(c1) = InOrder(c2) /\ D = AddDefaultConnections(c2)
      /\ FromDefaults(c1) = FromDefaults(c2) /\ FromAuths(c1) = FromAuths(c2)
  BY SameConnections, SameOffsets
<1>2. i \in 1..Total(c2)
  <2>1. i <= FromAuths(c1)
    <3>1. FromDefaults(c1) = 9 + Len(InOrder(c1)) /\ Len(InOrder(c1)) \in Nat
          /\ FromDefaults(c1) \in Nat /\ FromDefaults(c1) < FromAuths(c1) /\ FromAuths(c1) \in Nat
      BY OffsetsOf DEF FromDefaults
    <3>2. Len(D) = 3 => FromAuths(c1) = FromDefaults(c1) + 3
      BY DEF FromAuths
    <3>3. \/ \E k \in 1..Len(InOrder(c1)) : i = 9 + k
          \/ i = FromDefaults(c1) + 1
          \/ Len(D) = 3 /\ i = FromDefaults(c1) + 2
      BY Places
    <3> QED BY <3>1, <3>2, <3>3
  <2>2. FromAuths(c2) <= Total(c2) /\ Total(c2) \in Nat /\ FromAuths(c2) \in Nat
    <3>1. /\ FromAuths(c2) \in Nat /\ FromDefault(c2) \in Nat /\ FromSettings(c2) \in Nat
          /\ Total(c2) \in Nat /\ FromAuths(c2) <= FromDefault(c2)
          /\ FromDefault(c2) <= FromSettings(c2) /\ FromSettings(c2) < Total(c2)
      BY OffsetsOf, Zenon
    <3> QED BY ONLY <3>1
  <2>3. i \in Nat /\ 1 <= i
    BY OffsetsOf
  <2> QED BY <1>1, <2>1, <2>2, <2>3
<1>3. CASE \E k \in 1..Len(InOrder(c1)) : i = 9 + k
  <2>1. PICK k \in 1..Len(InOrder(c1)) : i = 9 + k
    BY <1>3
  <2>2. a1[i] = AddConnection(InOrder(c1)[k], s1)
    BY <2>1, ConfShape
  <2>3. a2[i] = AddConnection(InOrder(c2)[k], s2)
    BY <1>1, <2>1, ConfShape
  <2>4. InOrder(c1)[k] \in ConnectionsOf(c1)
    BY ConnectionOf
  <2>5. AddConnection(InOrder(c1)[k], s1) = AddConnection(InOrder(c1)[k], s2)
    BY <2>4, SameSection
  <2> QED BY <1>1, <1>2, <2>2, <2>3, <2>5
<1>4. CASE i = FromDefaults(c1) + 1
  <2>1. 1 \in 1..Len(D)
    BY DefaultPlaces
  <2>2. a1[i] = D[1]
    BY <1>4, <2>1, ConfShape
  <2>3. a2[i] = AddDefaultConnections(c2)[1]
    BY <1>1, <1>4, DefaultPlaces, ConfShape
  <2> QED BY <1>1, <1>2, <2>2, <2>3
<1>5. CASE Len(D) = 3 /\ i = FromDefaults(c1) + 2
  <2>1. 2 \in 1..Len(D)
    BY <1>5, DefaultPlaces
  <2>2. a1[i] = D[2]
    BY <1>5, <2>1, ConfShape
  <2>3. a2[i] = AddDefaultConnections(c2)[2]
    <3>1. 2 \in 1..Len(AddDefaultConnections(c2))
      BY <1>1, <2>1
    <3>2. a2[FromDefaults(c2) + 2] = AddDefaultConnections(c2)[2]
      BY <3>1, ConfShape
    <3> HIDE DEF a2
    <3> QED BY <1>1, <1>5, <3>2
  <2> QED BY <1>1, <1>2, <2>2, <2>3
<1> QED BY <1>3, <1>4, <1>5, Places

\* The zuul_client authenticator of a control plane.
LEMMA SettingsLast ==
    ASSUME NEW c \in CRType, NEW s, ~c.standalone
    PROVE  AddSettings(c, s)[8] = Section(Auth("zuul_client"),
                                          [secret |-> s["zuul-auth-secret"], realm |-> c.fqdn])
<1> DEFINE T  == AddSettings(c, s)
           t1 == Section(<<"scheduler">>, [option |-> c.option["scheduler"]])
           t2 == Section(<<"executor">>, [option |-> c.option["executor"]])
           t3 == Section(<<"merger">>, [option |-> c.option["merger"]])
           t4 == Section(<<"web">>, [root |-> c.fqdn])
           t5 == Section(<<"zookeeper">>, [public |-> c.standalone])
           t6 == Section(<<"keystore">>, [password |-> s["zuul-keystore-password"]])
           t7 == Section(<<"database">>, [dburi |-> s["zuul-db-connection"]])
           t8 == Section(Auth("zuul_client"), [secret |-> s["zuul-auth-secret"], realm |-> c.fqdn])
           A == {t1, t2, t3, t4, t5, t6}
           B == {t7, t8}
           six == <<t1, t2, t3, t4, t5, t6>>
           two == <<t7, t8>>
<1>1. T = six \o two
  BY DEF AddSettings
<1> HIDE DEF T, t1, t2, t3, t4, t5, t6, t7, t8
<1>2. six \in Seq(A) /\ Len(six) = 6
  OBVIOUS
<1>3. two \in Seq(B) /\ Len(two) = 2 /\ two[2] = t8
  OBVIOUS
<1> HIDE DEF six, two, A, B
<1>4. \A i \in 1..Len(two) : (six \o two)[Len(six) + i] = two[i]
  <2>1. six \in Seq(A) /\ two \in Seq(B)
    BY <1>2, <1>3
  <2> QED BY <2>1, Concat
<1>5. \A i \in 1..2 : T[6 + i] = two[i]
  BY <1>1, <1>2, <1>3, <1>4, Zenon
<1>6. T[8] = two[2]
  <2>1. 2 \in 1..2 /\ 6 + 2 = 8
    OBVIOUS
  <2> HIDE DEF T
  <2> QED BY <1>5, <2>1
<1> QED BY <1>3, <1>6 DEF T, t8

\* With the same authenticators and fqdn, the auth sections are the same.
LEMMA AuthsWithin ==
    ASSUME NEW c1 \in CRType, NEW s1, NEW c2 \in CRType, NEW s2,
           c1.conns = c2.conns, ~c1.standalone, ~c2.standalone,
           c1.auths = c2.auths, c1.defaultAuth = c2.defaultAuth, c1.fqdn = c2.fqdn,
           s1["zuul-auth-secret"] = s2["zuul-auth-secret"]
    PROVE  Within(ZuulConf(c1, s1), Total(c1), ZuulConf(c2, s2), Total(c2), "auth")
<1> DEFINE a1 == ZuulConf(c1, s1)
           a2 == ZuulConf(c2, s2)
<1>0. c1.standalone = c2.standalone
  BY OffsetsOf
<1>1. /\ AddDefaultAuth(c1) = AddDefaultAuth(c2) /\ FromAuths(c1) = FromAuths(c2)
      /\ FromDefault(c1) = FromDefault(c2) /\ FromSettings(c1) = FromSettings(c2)
      /\ Total(c1) = Total(c2)
  BY <1>0, SameOffsets
<1> SUFFICES ASSUME NEW i \in 1..Total(c1), a1[i].name[1] = "auth" PROVE a2[i] = a1[i]
  BY <1>1 DEF Within
<1>2. CASE i = 8
  BY <1>2, ConfShape
<1>3. CASE \E k \in 1..Len(c1.auths) : i = FromAuths(c1) + k
  BY <1>1, <1>3, ConfShape
<1>4. CASE Len(AddDefaultAuth(c1)) = 1 /\ i = FromDefault(c1) + 1
  <2> DEFINE e == Len(AddDefaultAuth(c1))
  <2>1. \A x \in 1..e : a1[FromDefault(c1) + x] = AddDefaultAuth(c1)[x]
    BY ConfShape
  <2>2. \A x \in 1..e : a2[FromDefault(c2) + x] = AddDefaultAuth(c2)[x]
    BY <1>1, ConfShape
  <2>3. e = 1 /\ i = FromDefault(c1) + 1
    BY <1>4
  <2> HIDE DEF e, a1, a2
  <2>4. 1 \in 1..e
    BY <2>3
  <2> QED BY <1>1, <2>1, <2>2, <2>3, <2>4
<1>5. CASE i = FromSettings(c1) + 8
  <2>1. 8 \in 1..NumSettings(c1) /\ 8 \in 1..NumSettings(c2)
    BY DEF NumSettings
  <2>2. a1[i] = AddSettings(c1, s1)[8]
    BY <1>5, <2>1, ConfShape
  <2>3. a2[i] = AddSettings(c2, s2)[8]
    BY <1>1, <1>5, <2>1, ConfShape
  <2>4. ASSUME NEW c \in CRType, NEW s, ~c.standalone
        PROVE  AddSettings(c, s)[8] = Section(Auth("zuul_client"),
                                              [secret |-> s["zuul-auth-secret"], realm |-> c.fqdn])
    BY <2>4, SettingsLast
  <2> QED BY <2>2, <2>3, <2>4
<1> QED BY <1>2, <1>3, <1>4, <1>5, Places

\* With the same setting, each of the seven sections is the same.
LEMMA PlainAgree ==
    ASSUME NEW c1 \in CRType, NEW s1, NEW c2 \in CRType, NEW s2, NEW b \in 1..7,
           c1.standalone = c2.standalone,
           \/ b = 3 /\ c1.standalone
           \/ AddSettings(c1, s1)[SettingOf[b]].keys = AddSettings(c2, s2)[SettingOf[b]].keys
    PROVE  Body(NewSections(ZuulConf(c1, s1)), Plain[b]) = Body(NewSections(ZuulConf(c2, s2)), Plain[b])
<1> DEFINE new1 == NewSections(ZuulConf(c1, s1))
           new2 == NewSections(ZuulConf(c2, s2))
           k1 == AddSettings(c1, s1)[SettingOf[b]].keys
           k2 == AddSettings(c2, s2)[SettingOf[b]].keys
           p == Plain[b]
<1>1. /\ b \in DOMAIN new1 /\ new1[b].name[1] = p
      /\ \A i \in DOMAIN new1 : new1[i].name[1] = p => i = b
      /\ (b = 3 /\ c1.standalone) \/ new1[b].keys = k1
      /\ b = 3 /\ c1.standalone => new1[b].keys = NoKeys
  BY PlainSection
<1>2. /\ b \in DOMAIN new2 /\ new2[b].name[1] = p
      /\ \A i \in DOMAIN new2 : new2[i].name[1] = p => i = b
      /\ (b = 3 /\ c2.standalone) \/ new2[b].keys = k2
      /\ b = 3 /\ c2.standalone => new2[b].keys = NoKeys
  BY PlainSection
<1>3. DOMAIN ZuulConf(c1, s1) = 1..Total(c1) /\ Total(c1) \in Nat
  BY ConfShape, OffsetsOf
<1>4. DOMAIN new1 \subseteq 1..Total(c1)
  BY <1>3, SectionsShape
<1>5. (b = 3 /\ c1.standalone) \/ k1 = k2
  OBVIOUS
<1> HIDE DEF new1, new2, k1, k2, p
<1>6. new1[b].keys = new2[b].keys
  BY <1>1, <1>2, <1>5
<1>7. {i \in DOMAIN new1 : new1[i].name[1] = p} = {i \in DOMAIN new2 : new2[i].name[1] = p}
  BY <1>1, <1>2
<1>8. \A i \in DOMAIN new1 : new1[i].name[1] = p => new1[i].keys = new2[i].keys
  BY <1>1, <1>6
<1>9. Body(new1, p) = Body(new2, p)
  BY <1>3, <1>4, <1>7, <1>8, BodyAgree
<1> QED BY <1>9 DEF new1, new2, p

\* The settings, by the section that they fill.
LEMMA SettingKeys ==
    ASSUME NEW c \in CRType, NEW s
    PROVE  LET keys(b) == AddSettings(c, s)[SettingOf[b]].keys IN
           /\ keys(1) = [password |-> s["zuul-keystore-password"]]
           /\ keys(2) = [public |-> c.standalone]
           /\ ~c.standalone => keys(3) = [dburi |-> s["zuul-db-connection"]]
           /\ keys(4) = [option |-> c.option["scheduler"]]
           /\ keys(5) = [root |-> c.fqdn]
           /\ keys(6) = [option |-> c.option["executor"]]
           /\ keys(7) = [option |-> c.option["merger"]]
<1>1. /\ SettingOf[1] = 6 /\ SettingOf[2] = 5 /\ SettingOf[3] = 7 /\ SettingOf[4] = 1
      /\ SettingOf[5] = 4 /\ SettingOf[6] = 2 /\ SettingOf[7] = 3
  BY DEF SettingOf
<1> DEFINE T == AddSettings(c, s)
<1>2. /\ T[1].keys = [option |-> c.option["scheduler"]]
      /\ T[2].keys = [option |-> c.option["executor"]]
      /\ T[3].keys = [option |-> c.option["merger"]]
      /\ T[4].keys = [root |-> c.fqdn]
      /\ T[5].keys = [public |-> c.standalone]
      /\ T[6].keys = [password |-> s["zuul-keystore-password"]]
      /\ ~c.standalone => T[7].keys = [dburi |-> s["zuul-db-connection"]]
  BY SettingsOf
<1> HIDE DEF T
<1> QED BY <1>1, <1>2 DEF T

LEMMA PlainPlaces ==
    /\ Plain[1] = "keystore" /\ Plain[2] = "zookeeper" /\ Plain[3] = "database"
    /\ Plain[4] = "scheduler" /\ Plain[5] = "web" /\ Plain[6] = "executor" /\ Plain[7] = "merger"
BY DEF Plain

\* The sections that a service's annotations are made of are the same.
LEMMA SameBodies ==
    ASSUME NEW service \in {"scheduler", "executor", "web", "merger"},
           NEW c1 \in CRType, NEW s1, NEW c2 \in CRType, NEW s2,
           c1.standalone = c2.standalone,
           service \in {"scheduler", "web"} => ~c1.standalone,
           SameInputs(service, c1, s1, c2, s2)
    PROVE  LET same(p) == Body(NewSections(ZuulConf(c1, s1)), p)
                             = Body(NewSections(ZuulConf(c2, s2)), p)
           IN  /\ same("zookeeper") /\ same("keystore") /\ same("database")
               /\ same("connection") /\ same(service)
               /\ service \in {"scheduler", "web"} => same("auth")
<1> DEFINE same(p) == Body(NewSections(ZuulConf(c1, s1)), p)
                         = Body(NewSections(ZuulConf(c2, s2)), p)
           k1(b) == AddSettings(c1, s1)[SettingOf[b]].keys
           k2(b) == AddSettings(c2, s2)[SettingOf[b]].keys
<1>0. c1.standalone \in BOOLEAN /\ c2.standalone \in BOOLEAN
  BY OffsetsOf
<1>1. /\ k1(1) = [password |-> s1["zuul-keystore-password"]]
      /\ k1(2) = [public |-> c1.standalone]
      /\ ~c1.standalone => k1(3) = [dburi |-> s1["zuul-db-connection"]]
      /\ k1(4) = [option |-> c1.option["scheduler"]]
      /\ k1(5) = [root |-> c1.fqdn]
      /\ k1(6) = [option |-> c1.option["executor"]]
      /\ k1(7) = [option |-> c1.option["merger"]]
  BY SettingKeys
<1>2. /\ k2(1) = [password |-> s2["zuul-keystore-password"]]
      /\ k2(2) = [public |-> c2.standalone]
      /\ ~c2.standalone => k2(3) = [dburi |-> s2["zuul-db-connection"]]
      /\ k2(4) = [option |-> c2.option["scheduler"]]
      /\ k2(5) = [root |-> c2.fqdn]
      /\ k2(6) = [option |-> c2.option["executor"]]
      /\ k2(7) = [option |-> c2.option["merger"]]
  BY SettingKeys
<1>3. ASSUME NEW b \in 1..7, (b = 3 /\ c1.standalone) \/ k1(b) = k2(b) PROVE same(Plain[b])
  BY <1>3, PlainAgree
<1>4. /\ s1["zuul-keystore-password"] = s2["zuul-keystore-password"]
      /\ s1["zuul-db-connection"] = s2["zuul-db-connection"]
      /\ service # "web" => c1.option[service] = c2.option[service]
      /\ service \in {"scheduler", "web"} => c1.fqdn = c2.fqdn
      /\ c1.conns = c2.conns
  BY DEF SameInputs
<1> HIDE DEF same, k1, k2
<1>5. same("zookeeper")
  <2>1. k1(2) = k2(2)
    BY <1>1, <1>2
  <2> QED BY <1>3, <2>1, PlainPlaces
<1>6. same("keystore")
  <2>1. k1(1) = k2(1)
    BY <1>1, <1>2, <1>4
  <2> QED BY <1>3, <2>1, PlainPlaces
<1>7. same("database")
  <2>1. c1.standalone \/ k1(3) = k2(3)
    BY <1>0, <1>1, <1>2, <1>4
  <2> QED BY <1>3, <2>1, PlainPlaces
<1>8. same(service)
  <2>1. CASE service = "scheduler"
    <3>1. k1(4) = k2(4)
      BY <1>1, <1>2, <1>4, <2>1
    <3> QED BY <1>3, <2>1, <3>1, PlainPlaces
  <2>2. CASE service = "web"
    <3>1. k1(5) = k2(5)
      BY <1>1, <1>2, <1>4, <2>2
    <3> QED BY <1>3, <2>2, <3>1, PlainPlaces
  <2>3. CASE service = "executor"
    <3>1. k1(6) = k2(6)
      BY <1>1, <1>2, <1>4, <2>3
    <3> QED BY <1>3, <2>3, <3>1, PlainPlaces
  <2>4. CASE service = "merger"
    <3>1. k1(7) = k2(7)
      BY <1>1, <1>2, <1>4, <2>4
    <3> QED BY <1>3, <2>4, <3>1, PlainPlaces
  <2> QED BY <2>1, <2>2, <2>3, <2>4
<1>9. same("connection")
  <2>1. \A conn \in ConnectionsOf(c1) : conn.secret # Empty => s1[conn.secret] = s2[conn.secret]
    BY DEF SameInputs
  <2>2. ConnectionsOf(c1) = ConnectionsOf(c2)
    BY <1>4, SameConnections
  <2>3. \A conn \in ConnectionsOf(c2) : conn.secret # Empty => s2[conn.secret] = s1[conn.secret]
    BY <2>1, <2>2
  <2>4. Within(ZuulConf(c1, s1), Total(c1), ZuulConf(c2, s2), Total(c2), "connection")
    BY <1>4, <2>1, ConnectionsWithin
  <2>5. Within(ZuulConf(c2, s2), Total(c2), ZuulConf(c1, s1), Total(c1), "connection")
    BY <1>4, <2>3, ConnectionsWithin
  <2> QED BY <2>4, <2>5, BodiesAgree DEF same
<1>10. ASSUME service \in {"scheduler", "web"} PROVE same("auth")
  <2>1. /\ ~c1.standalone /\ ~c2.standalone /\ c1.fqdn = c2.fqdn
        /\ c1.auths = c2.auths /\ c1.defaultAuth = c2.defaultAuth
        /\ s1["zuul-auth-secret"] = s2["zuul-auth-secret"]
    BY <1>10 DEF SameInputs
  <2>2. Within(ZuulConf(c1, s1), Total(c1), ZuulConf(c2, s2), Total(c2), "auth")
    BY <1>4, <2>1, AuthsWithin
  <2>3. Within(ZuulConf(c2, s2), Total(c2), ZuulConf(c1, s1), Total(c1), "auth")
    BY <1>4, <2>1, AuthsWithin
  <2> QED BY <2>2, <2>3, BodiesAgree DEF same
<1> QED BY <1>5, <1>6, <1>7, <1>8, <1>9, <1>10 DEF same

\* The config repository is found among the connections.
LEMMA SameRepo ==
    ASSUME NEW c1, NEW c2, c1.conns = c2.conns, c1.repo = c2.repo
    PROVE  ConfigRepo(c1) = ConfigRepo(c2)
<1>1. ConnectionsOf(c1) = ConnectionsOf(c2)
  BY SameConnections
<1>2. ResolveConfigBaseURL(c1) = ResolveConfigBaseURL(c2)
  BY <1>1 DEF ResolveConfigBaseURL
<1> QED BY <1>2 DEF ConfigRepo

\* The annotations of a service depend on its inputs alone.
LEMMA InputsDetermine ==
    ASSUME NEW w \in Workloads, NEW c1 \in CRType, NEW s1, NEW c2 \in CRType, NEW s2,
           c1.standalone <=> w = "remote-executor", c2.standalone <=> w = "remote-executor",
           Inputs(Service(w), c1, s1) = Inputs(Service(w), c2, s2)
    PROVE  Template(Service(w), c1, NewSections(ZuulConf(c1, s1))).annotations
              = Template(Service(w), c2, NewSections(ZuulConf(c2, s2))).annotations
<1> DEFINE f1 == NewSections(ZuulConf(c1, s1))
           f2 == NewSections(ZuulConf(c2, s2))
           v == Service(w)
           common == <<"zookeeper", "keystore", "database">>
<1>1. SameInputs(v, c1, s1, c2, s2)
  BY InputsAreSame
<1>2. /\ v \in {"scheduler", "executor", "web", "merger"}
      /\ v \in {"scheduler", "web"} => ~c1.standalone
      /\ c1.standalone = c2.standalone
  <2>1. c1.standalone \in BOOLEAN /\ c2.standalone \in BOOLEAN
    BY OffsetsOf
  <2> QED BY <2>1 DEF Service, Workloads
<1> HIDE DEF v
<1>3. /\ Body(f1, "zookeeper") = Body(f2, "zookeeper")
      /\ Body(f1, "keystore") = Body(f2, "keystore")
      /\ Body(f1, "database") = Body(f2, "database")
      /\ Body(f1, "connection") = Body(f2, "connection")
      /\ Body(f1, v) = Body(f2, v)
      /\ v \in {"scheduler", "web"} => Body(f1, "auth") = Body(f2, "auth")
  BY <1>1, <1>2, SameBodies
<1>4. /\ ComputeLoggingConfig(c1)[v] = ComputeLoggingConfig(c2)[v]
      /\ v = "scheduler" => ConfigRepo(c1) = ConfigRepo(c2)
  BY <1>1, SameRepo DEF SameInputs
<1> HIDE DEF f1, f2
<1>5. Bodies(f1, common) = Bodies(f2, common)
  <2>1. \A k \in DOMAIN common : common[k] \in {"zookeeper", "keystore", "database"}
    OBVIOUS
  <2> HIDE DEF common
  <2> QED BY <1>3, <2>1 DEF Bodies
<1>6. Bodies(f1, ComponentSections(v)) = Bodies(f2, ComponentSections(v))
  <2> DEFINE q == ComponentSections(v)
  <2>1. \A k \in DOMAIN q : \/ q[k] \in {"connection", v}
                            \/ v \in {"scheduler", "web"} /\ q[k] = "auth"
    BY DEF ComponentSections
  <2> HIDE DEF q
  <2>2. Bodies(f1, q) = Bodies(f2, q)
    BY <1>3, <2>1 DEF Bodies
  <2> QED BY <2>2 DEF q
<1>7. Annotations(v, f1, ComputeLoggingConfig(c1)[v], ConfigRepo(c1))
         = Annotations(v, f2, ComputeLoggingConfig(c2)[v], ConfigRepo(c2))
  BY <1>4, <1>5, <1>6 DEF Annotations
<1>8. /\ Template(v, c1, f1).annotations
            = Annotations(v, f1, ComputeLoggingConfig(c1)[v], ConfigRepo(c1))
      /\ Template(v, c2, f2).annotations
            = Annotations(v, f2, ComputeLoggingConfig(c2)[v], ConfigRepo(c2))
  BY DEF Template
<1> QED BY <1>7, <1>8 DEF f1, f2, v

\* EnsureService gives another template only for other inputs.
LEMMA OwnStep ==
    ASSUME Inductive, [Next]_vars, NEW w \in Workloads,
           template[w] # NoTemplate, template'[w] \notin {template[w], NoTemplate}
    PROVE  input'[w] # input[w]
<1>1. DOMAIN template = Workloads /\ DOMAIN input = Workloads /\ cr \in CRs
  BY DEF Inductive, TypeInv, TypeOK
<1>2. \E v \in Workloads : EnsureService(v)
  <2>1. ~EnsureZuulConfigSecret
    BY <1>1 DEF EnsureZuulConfigSecret
  <2> QED BY <2>1 DEF Next, Deploy, Start, CopySecret, CopyEnds, Validate, Finish, Kill,
                      PodStart, PodRestart, Edit, vars
<1>3. PICK v \in Workloads : EnsureService(v)
  BY <1>2
<1> DEFINE new == Template(Service(v), cr, conf[Site(cr)])
<1>4. /\ pc = v /\ template[v].annotations # new.annotations
      /\ template' = [template EXCEPT ![v] = new]
      /\ input' = [input EXCEPT ![v] = Inputs(Service(v), cr, read)]
  BY <1>3 DEF EnsureService
<1>5. v = w
  BY <1>1, <1>4
<1>6. Accepted(cr) /\ conf[Site(cr)] = NewSections(ZuulConf(cr, read))
  BY <1>4 DEF Inductive, DataInv, PassInv
<1>7. cr.standalone <=> w = "remote-executor"
  <2>1. PICK i \in DOMAIN Order(cr) : Order(cr)[i] = w
    BY <1>4, <1>5 DEF Inductive, TypeInv, WalkInv
  <2> QED BY <1>1, <2>1, CROf, OrderOf
<1>8. PICK c \in CRs, s \in Contents : MadeFrom(w, c, s)
  BY DEF Inductive, DataInv, TemplateInv
<1>9. /\ c.standalone <=> w = "remote-executor"
      /\ template[w] = Template(Service(w), c, NewSections(ZuulConf(c, s)))
      /\ input[w] = Inputs(Service(w), c, s)
  BY <1>8 DEF MadeFrom
<1>10. input'[w] = Inputs(Service(w), cr, read)
  BY <1>1, <1>4, <1>5
<1>11. ASSUME input'[w] = input[w] PROVE FALSE
  <2>1. Inputs(Service(w), c, s) = Inputs(Service(w), cr, read)
    BY <1>9, <1>10, <1>11
  <2>2. c \in CRType /\ cr \in CRType
    BY <1>1, CROf
  <2>3. template[w].annotations
           = Template(Service(w), cr, NewSections(ZuulConf(cr, read))).annotations
    BY <1>7, <1>9, <2>1, <2>2, InputsDetermine
  <2> QED BY <1>4, <1>5, <1>6, <2>3
<1> QED BY <1>11

\* When EnsureZuulScheduler and its like change the template of a service, so that
\* its pods restart, an input of that service changed: the checksums take in no
\* section that belongs to another service.
THEOREM RestartsForItsOwn == Spec => OnlyForItsOwn
<1>1. Inductive /\ [Next]_vars =>
         [\A w \in Workloads :
             template[w] # NoTemplate /\ template'[w] \notin {template[w], NoTemplate} =>
                input'[w] # input[w]]_vars
  BY OwnStep
<1> QED BY <1>1, InductiveInvariant, PTL DEF Spec, OnlyForItsOwn

-----------------------------------------------------------------------------
(* The files that zuul.conf names are in the pods. *)

\* A zuul.conf has finitely many places, and names once.
LEMMA ConfPlaces ==
    ASSUME NEW c \in CRType, NEW s
    PROVE  Total(c) \in Nat /\ DOMAIN NewSections(ZuulConf(c, s)) \subseteq 1..Total(c)
<1>1. DOMAIN ZuulConf(c, s) = 1..Total(c) /\ Total(c) \in Nat
  BY ConfShape, OffsetsOf
<1> QED BY <1>1, SectionsShape

\* Only the section of a connection names a file.
LEMMA FileOf ==
    ASSUME NEW c \in CRType, Accepted(c), NEW s, NEW k \in DOMAIN NewSections(ZuulConf(c, s)),
           NEW f \in {"app_key", "sshkey"}, f \in DOMAIN NewSections(ZuulConf(c, s))[k].keys
    PROVE  /\ NewSections(ZuulConf(c, s))[k].name[1] = "connection"
           /\ \E conn \in ConnectionsOf(c) :
                 NewSections(ZuulConf(c, s))[k].keys = AddConnection(conn, s).keys
<1> DEFINE a == ZuulConf(c, s)
           new == NewSections(a)
           n == Total(c)
<1>1. n \in Nat /\ DOMAIN a = 1..n
  BY ConfShape, OffsetsOf
<1>2. k \in 1..n /\ new[k].name = a[k].name /\ new[k].keys = Merged(a, a[k].name)
  <2> HIDE DEF a, n
  <2> QED BY <1>1, SectionsShape DEF a
<1>3. PICK m \in 1..n : a[m].name = a[k].name /\ f \in DOMAIN a[m].keys
  <2>1. f \in DOMAIN Merged(a, a[k].name)
    BY <1>2
  <2> HIDE DEF a, n
  <2> QED BY <1>1, <2>1, MergedKey
<1>4. PICK h \in 1..Len(InOrder(c)) : m = 9 + h
  BY <1>3, KeysAt
<1>5. a[m].name[1] = "connection"
  BY <1>4, PrefixOf
<1>6. k = m
  BY <1>2, <1>3, <1>5, ConnectionNames
<1>7. new[m].keys = a[m].keys
  BY <1>5, ConnectionSection
<1>8. a[m].keys = AddConnection(InOrder(c)[h], s).keys /\ InOrder(c)[h] \in ConnectionsOf(c)
  BY <1>4, ConnectionOf
<1> HIDE DEF new, a
<1>9. new[k].name[1] = "connection" /\ new[k].keys = AddConnection(InOrder(c)[h], s).keys
  BY <1>2, <1>5, <1>6, <1>7, <1>8
<1> QED BY <1>8, <1>9 DEF new, a

\* A connection is in the list of its driver.
LEMMA DriverLists ==
    ASSUME NEW c \in CRType, NEW conn \in ConnectionsOf(c)
    PROVE  /\ conn \in ConnectionType(Drivers)
           /\ conn.driver = "github" => conn \in Range(c.conns.github)
           /\ conn.driver = "gerrit" => conn \in Range(c.conns.gerrit)
<1>1. \A d \in Drivers : \A x \in Range(c.conns[d]) : x.driver = d
  BY InOrderOf
<1>2. /\ \A x \in Range(c.conns.gerrit) : x.driver = "gerrit"
      /\ \A x \in Range(c.conns.github) : x.driver = "github"
      /\ \A x \in Range(c.conns.gitlab) : x.driver = "gitlab"
      /\ \A x \in Range(c.conns.pagure) : x.driver = "pagure"
      /\ \A x \in Range(c.conns.git) : x.driver = "git"
      /\ \A x \in Range(c.conns.elasticsearch) : x.driver = "elasticsearch"
      /\ \A x \in Range(c.conns.smtp) : x.driver = "smtp"
  BY <1>1 DEF Drivers
<1>3. conn \in ConnectionType(Drivers)
  <2>1. PICK k \in 1..Len(InOrder(c)) : InOrder(c)[k] = conn
    BY OffsetsOf DEF ConnectionsOf, Range
  <2> QED BY <2>1, ConnectionOf
<1>4. conn.driver = "github" => conn \in Range(c.conns.github)
  BY <1>2, InOrderOf
<1>5. conn.driver = "gerrit" => conn \in Range(c.conns.gerrit)
  BY <1>2, InOrderOf
<1> QED BY <1>3, <1>4, <1>5

\* The secret whose file the section of a connection names
LEMMA FileSecret ==
    ASSUME NEW c \in CRType, NEW s, NEW conn \in ConnectionsOf(c), NEW keys,
           keys = AddConnection(conn, s).keys
    PROVE  /\ "app_key" \in DOMAIN keys => keys["app_key"] \in GitHubAppSecrets(c)
           /\ "sshkey" \in DOMAIN keys =>
                 keys["sshkey"] = "zuul-ssh" \/ keys["sshkey"] \in GerritKeys(c)
<1>1. conn \in ConnectionType(Drivers)
  BY DriverLists
<1>2. /\ "app_key" \in DOMAIN keys <=> conn.driver = "github" /\ conn.app
      /\ "app_key" \in DOMAIN keys => keys["app_key"] = conn.secret
      /\ "sshkey" \in DOMAIN keys =>
            \/ keys["sshkey"] = "zuul-ssh"
            \/ conn.driver = "gerrit" /\ conn.sshkey # Empty /\ keys["sshkey"] = conn.sshkey
  BY <1>1, ConnectionKeys
<1>3. conn.driver = "github" /\ conn.app => conn.secret \in GitHubAppSecrets(c)
  BY DriverLists DEF GitHubAppSecrets
<1>4. conn.driver = "gerrit" /\ conn.sshkey # Empty => conn.sshkey \in GerritKeys(c)
  BY DriverLists DEF GerritKeys
<1> QED BY <1>2, <1>3, <1>4

\* The app_key of a GitHub application is in zuul.conf.
LEMMA AppKeyKept ==
    ASSUME NEW c \in CRType, Accepted(c), NEW s, NEW x \in GitHubAppSecrets(c)
    PROVE  \E k \in DOMAIN NewSections(ZuulConf(c, s)) :
              LET sec == NewSections(ZuulConf(c, s))[k] IN
              sec.name[1] = "connection" /\ "app_key" \in DOMAIN sec.keys /\ sec.keys["app_key"] = x
<1> DEFINE new == NewSections(ZuulConf(c, s))
<1>1. PICK conn \in Range(c.conns.github) : conn.app /\ conn.secret = x
  BY DEF GitHubAppSecrets
<1>2. conn \in ConnectionsOf(c) /\ conn.driver = "github"
  <2>1. \A d \in Drivers : \A y \in Range(c.conns[d]) : y.driver = d
    BY InOrderOf
  <2> QED BY <2>1, InOrderOf DEF Drivers
<1>3. PICK k \in DOMAIN new : /\ new[k].name = Connection(conn.name)
                              /\ new[k].keys = AddConnection(conn, s).keys
  BY <1>2, ConnectionKept
<1>4. conn \in ConnectionType(Drivers)
  BY <1>2, DriverLists
<1>5. LET keys == AddConnection(conn, s).keys IN "app_key" \in DOMAIN keys /\ keys["app_key"] = x
  BY <1>1, <1>2, <1>4, ConnectionKeys
<1> HIDE DEF new
<1>6. new[k].name[1] = "connection"
  BY <1>3, NamePrefixes
<1> QED BY <1>3, <1>5, <1>6 DEF new

\* Every service reads the connections and the keystore.
LEMMA ReadsOf ==
    ASSUME NEW service, NEW f1, NEW f2, Bodies(f1, Reads(service)) = Bodies(f2, Reads(service))
    PROVE  Body(f1, "connection") = Body(f2, "connection")
           /\ Body(f1, "keystore") = Body(f2, "keystore")
<1> DEFINE four == <<"connection", "zookeeper", "keystore", service>>
           more == IF service \in {"scheduler", "web"} THEN <<"auth", "database">> ELSE << >>
           r == Reads(service)
<1>1. r = four \o more
  BY DEF Reads
<1>2. four \in Seq(Range(four)) /\ Len(four) = 4 /\ four[1] = "connection" /\ four[3] = "keystore"
  BY DEF Range
<1>3. more \in Seq({"auth", "database"})
  <2>1. <<"auth", "database">> \in Seq({"auth", "database"}) /\ << >> \in Seq({"auth", "database"})
    OBVIOUS
  <2>2. more = <<"auth", "database">> \/ more = << >>
    OBVIOUS
  <2> QED BY <2>1, <2>2, Zenon
<1> HIDE DEF four, more, r
<1>4. /\ DOMAIN r = 1..(Len(four) + Len(more)) /\ Len(four) \in Nat /\ Len(more) \in Nat
      /\ \A i \in 1..Len(four) : r[i] = four[i]
  <2>1. four \in Seq(Range(four))
    BY <1>2
  <2> QED BY <1>1, <1>3, <2>1, Concat
<1>5. 1 \in DOMAIN r /\ 3 \in DOMAIN r /\ r[1] = "connection" /\ r[3] = "keystore"
  <2> DEFINE m == Len(more)
             l == Len(four)
  <2>1. /\ DOMAIN r = 1..(l + m) /\ l = 4 /\ m \in Nat
        /\ \A i \in 1..l : r[i] = four[i]
    BY <1>2, <1>4
  <2> HIDE DEF m, l
  <2> QED BY <1>2, <2>1
<1>6. \A k \in DOMAIN r : Body(f1, r[k]) = Body(f2, r[k])
  BY DEF Bodies, r
<1> QED BY <1>5, <1>6

\* When deploy succeeds, the template of a service is one that was made, and the
\* connections in its zuul.conf are those of the one there now and of the one in
\* the pod that is settled.
LEMMA SuccessBodies ==
    ASSUME Inductive, [Next]_vars, Succeeds, NEW i \in DOMAIN Order(cr),
           ~Unsettled(Order(cr)[i])
    PROVE  LET w == Order(cr)[i]
               now == NewSections(ZuulConf(cr, read))
           IN  /\ w \in Workloads /\ cr \in CRType /\ Accepted(cr) /\ read \in Contents
               /\ conf[Site(cr)] = now /\ pod[w].template = template[w]
               /\ Body(pod[w].conf, "connection") = Body(now, "connection")
               /\ Body(pod[w].conf, "keystore") = Body(now, "keystore")
               /\ \E c \in CRs, s \in Contents :
                     /\ MadeFrom(w, c, s)
                     /\ Body(NewSections(ZuulConf(c, s)), "connection") = Body(now, "connection")
<1> DEFINE w == Order(cr)[i]
           now == NewSections(ZuulConf(cr, read))
<1>0. Inv /\ TypeOK /\ PassInv /\ TemplateInv /\ pc = "end"
  BY DEF Inductive, TypeInv, DataInv, Succeeds
<1>1. w \in Workloads /\ Fit(w)
  BY <1>0, SuccessFits, OrderShape
<1>2. /\ cr \in CRs /\ cr \in CRType /\ Accepted(cr) /\ read \in Contents
      /\ conf[Site(cr)] = now
  BY <1>0, CROf DEF PassInv, TypeOK, Contents
<1>3. /\ pod[w].template = template[w]
      /\ template[w].annotations =
            Annotations(Service(w), now, ComputeLoggingConfig(cr)[Service(w)], ConfigRepo(cr))
  BY <1>1, <1>2 DEF Fit, Unsettled
<1> DEFINE ann == Annotations(Service(w), now, ComputeLoggingConfig(cr)[Service(w)], ConfigRepo(cr))
<1>4. template[w] # NoTemplate
  <2>1. "common" \in DOMAIN ann
    BY DEF Annotations
  <2>2. "common" \notin DOMAIN NoTemplate.annotations
    BY DEF NoTemplate
  <2> HIDE DEF ann
  <2> QED BY <1>3, <2>1, <2>2 DEF ann
<1>5. Annotations(Service(w), pod[w].conf, pod[w].level, pod[w].template.repo) = ann
  BY <1>3 DEF Unsettled, Ahead
<1>6. Bodies(pod[w].conf, Reads(Service(w))) = Bodies(now, Reads(Service(w)))
  BY <1>1, <1>5, AnnotationsDetermine
<1>7. PICK c \in CRs, s \in Contents : MadeFrom(w, c, s)
  BY <1>0, <1>1, <1>4 DEF TemplateInv
<1> DEFINE then == NewSections(ZuulConf(c, s))
<1>8. template[w].annotations
         = Annotations(Service(w), then, ComputeLoggingConfig(c)[Service(w)], ConfigRepo(c))
  <2>1. template[w] = Template(Service(w), c, then)
    BY <1>7 DEF MadeFrom
  <2> HIDE DEF then
  <2>2. Template(Service(w), c, then).annotations
           = Annotations(Service(w), then, ComputeLoggingConfig(c)[Service(w)], ConfigRepo(c))
    BY DEF Template
  <2> QED BY <2>1, <2>2
<1>9. Bodies(then, Reads(Service(w))) = Bodies(now, Reads(Service(w)))
  <2>1. Annotations(Service(w), then, ComputeLoggingConfig(c)[Service(w)], ConfigRepo(c)) = ann
    BY <1>3, <1>8
  <2> HIDE DEF then, now, w
  <2> QED BY <1>1, <2>1, AnnotationsDetermine
<1>10. Body(then, "connection") = Body(now, "connection")
  BY <1>9, ReadsOf
<1>11. Body(pod[w].conf, "connection") = Body(now, "connection")
       /\ Body(pod[w].conf, "keystore") = Body(now, "keystore")
  BY <1>6, ReadsOf
<1> QED BY <1>1, <1>2, <1>3, <1>7, <1>10, <1>11

\* What a success means for the files of one service.
LEMMA MountedStep ==
    ASSUME Inductive, [Next]_vars, Succeeds, GitHubSecrets(cr) \cap GerritKeys(cr) = {},
           NEW i \in DOMAIN Order(cr)
    PROVE  Unsettled(Order(cr)[i]) \/ Mounted(Order(cr)[i])
<1> SUFFICES ASSUME ~Unsettled(Order(cr)[i]) PROVE Mounted(Order(cr)[i])
  OBVIOUS
<1> DEFINE w == Order(cr)[i]
           now == NewSections(ZuulConf(cr, read))
           loaded == pod[w].conf
<1>1. /\ w \in Workloads /\ cr \in CRType /\ Accepted(cr) /\ read \in Contents
      /\ pod[w].template = template[w]
      /\ Body(loaded, "connection") = Body(now, "connection")
  BY SuccessBodies
<1>2. PICK c \in CRs, s \in Contents :
         /\ MadeFrom(w, c, s)
         /\ Body(NewSections(ZuulConf(c, s)), "connection") = Body(now, "connection")
  BY SuccessBodies
<1> DEFINE then == NewSections(ZuulConf(c, s))
<1>3. c \in CRType /\ Accepted(c) /\ pod[w].template.mounts = ConnectionMounts(c)
  <2>1. c \in CRType
    BY CROf
  <2>2. Accepted(c) /\ template[w] = Template(Service(w), c, then)
    BY <1>2 DEF MadeFrom
  <2> HIDE DEF then
  <2>3. Template(Service(w), c, then).mounts = ConnectionMounts(c)
    BY DEF Template
  <2> QED BY <1>1, <2>1, <2>2, <2>3
<1>4. loaded = << >> \/ IsConf(loaded)
  BY <1>1 DEF Inductive, DataInv, LoadedInv
<1> HIDE DEF w, loaded
<1> SUFFICES ASSUME NEW k \in DOMAIN loaded,
                    NEW f \in {"app_key", "sshkey"}, f \in DOMAIN loaded[k].keys,
                    loaded[k].keys[f] # "zuul-ssh"
             PROVE  <<f, loaded[k].keys[f]>> \in ConnectionMounts(c)
  BY <1>3 DEF Mounted, loaded, w
<1> DEFINE keys == loaded[k].keys
           x == keys[f]
<1>5. IsConf(loaded)
  BY <1>4
<1>6. PICK cl \in CRs, sl \in Contents : Accepted(cl) /\ loaded = NewSections(ZuulConf(cl, sl))
  BY <1>5 DEF IsConf
<1>7. cl \in CRType
  BY CROf
<1>8. loaded[k].name[1] = "connection" /\ Total(cl) \in Nat /\ DOMAIN loaded \subseteq 1..Total(cl)
  BY <1>6, <1>7, FileOf, ConfPlaces
<1>9. /\ Total(cr) \in Nat /\ DOMAIN now \subseteq 1..Total(cr)
      /\ Total(c) \in Nat /\ DOMAIN then \subseteq 1..Total(c)
  BY <1>1, <1>3, ConfPlaces
<1>10. /\ Body(loaded, "connection") = Body(then, "connection")
       /\ Body(then, "connection") = Body(now, "connection")
  BY <1>1, <1>2
<1> HIDE DEF now, then
<1>11. PICK j \in DOMAIN then : then[j].name[1] = "connection" /\ then[j].keys = keys
  BY <1>8, <1>9, <1>10, SameBody
<1>12. PICK h \in DOMAIN now : now[h].name[1] = "connection" /\ now[h].keys = keys
  BY <1>1, <1>8, <1>9, SameBody
<1>13. PICK conn \in ConnectionsOf(c) : keys = AddConnection(conn, s).keys
  <2>1. f \in DOMAIN then[j].keys
    BY <1>11
  <2>2. \E conn \in ConnectionsOf(c) : then[j].keys = AddConnection(conn, s).keys
    BY <1>3, <2>1, FileOf DEF then
  <2> QED BY <1>11, <2>2
<1>14. PICK cn \in ConnectionsOf(cr) : keys = AddConnection(cn, read).keys
  <2>1. f \in DOMAIN now[h].keys
    BY <1>12
  <2>2. \E cn \in ConnectionsOf(cr) : now[h].keys = AddConnection(cn, read).keys
    BY <1>1, <2>1, FileOf DEF now
  <2> QED BY <1>12, <2>2
<1>15. CASE f = "app_key"
  <2>1. x \in GitHubAppSecrets(c)
    BY <1>3, <1>13, <1>15, FileSecret
  <2> QED BY <1>15, <2>1 DEF ConnectionMounts
<1>16. CASE f = "sshkey"
  <2>1. x \in GerritKeys(c)
    BY <1>3, <1>13, <1>16, FileSecret
  <2>2. x \in GerritKeys(cr)
    BY <1>1, <1>14, <1>16, FileSecret
  <2>3. ASSUME x \in GitHubAppSecrets(c) PROVE FALSE
    <3>1. PICK m \in DOMAIN then : /\ then[m].name[1] = "connection"
                                   /\ "app_key" \in DOMAIN then[m].keys
                                   /\ then[m].keys["app_key"] = x
      BY <1>3, <2>3, AppKeyKept DEF then
    <3>2. PICK l \in DOMAIN now : now[l].name[1] = "connection" /\ now[l].keys = then[m].keys
      BY <1>9, <1>10, <3>1, SameBody
    <3>3. "app_key" \in DOMAIN now[l].keys
      BY <3>1, <3>2
    <3>4. PICK cm \in ConnectionsOf(cr) : now[l].keys = AddConnection(cm, read).keys
      <4>1. \A g \in {"app_key", "sshkey"} : g \in DOMAIN now[l].keys =>
               \E cm \in ConnectionsOf(cr) : now[l].keys = AddConnection(cm, read).keys
        BY <1>1, FileOf DEF now
      <4> QED BY <3>3, <4>1
    <3>5. x \in GitHubAppSecrets(cr)
      BY <1>1, <3>1, <3>2, <3>3, <3>4, FileSecret
    <3>6. x \in GitHubSecrets(cr)
      BY <2>2, <3>5 DEF GitHubAppSecrets, GitHubSecrets, GerritKeys
    <3> QED BY <2>2, <3>6
  <2> QED BY <1>16, <2>1, <2>3 DEF ConnectionMounts
<1> QED BY <1>15, <1>16

\* When deploy succeeds, the files that the zuul.conf of a pod names (the app_key of a
\* GitHub application, the sshkey of a Gerrit connection) are mounted in it, except in
\* a pod that restarted on the zuul.conf of a command that was cut short, and in a
\* zuul-web that is being replaced.  The volumes
\* are in no checksum: it rests on the checksum of the connection sections.
THEOREM FilesAreMounted == Spec => FilesMounted
<1>1. Inductive /\ [Next]_vars =>
         [Succeeds /\ GitHubSecrets(cr) \cap GerritKeys(cr) = {} =>
            \A i \in DOMAIN Order(cr) : Unsettled(Order(cr)[i]) \/ Mounted(Order(cr)[i])]_vars
  BY MountedStep
<1> QED BY <1>1, InductiveInvariant, PTL DEF Spec, FilesMounted

-----------------------------------------------------------------------------
(* The secrets of a remote executor. *)

\* The secrets that are copied
Needed(c) ==
    Range(<<"zuul-keystore-password", "zookeeper-client-tls", "zuul-ssh-key">> \o CRSecrets(c))

\* Some contents have that of the control plane, unless it changed meanwhile.
Same(contents, n) ==
    n \in edited \/ (contents[n] = secrets["control"][n] /\ contents[n] # 0)

\* Once they were copied, the secrets of the remote site are those of the control
\* plane, and so are the ones that zuul.conf was made of.
CopyInv ==
    /\ ~Running => ~copied
    /\ copied =>
       /\ cr.standalone
       /\ pc # "copy" => todo = << >>
       /\ \A n \in Needed(cr) : n \in Range(todo) \/ Same(secrets["remote"], n)
       /\ pc \in Workloads \cup {"end"} => \A n \in Needed(cr) : Same(read, n)

\* The secrets that are copied, and those of them that a zuul.conf has.
LEMMA NeededOf ==
    ASSUME NEW c \in CRType
    PROVE  /\ Needed(c) \subseteq Secrets /\ "zuul-keystore-password" \in Needed(c)
           /\ \A conn \in ConnectionsOf(c) :
                 conn.driver \in {"github", "gitlab", "pagure"} /\ conn.secret # Empty =>
                    conn.secret \in Needed(c)
<1> DEFINE three == <<"zuul-keystore-password", "zookeeper-client-tls", "zuul-ssh-key">>
<1>1. CRSecrets(c) \in Seq(Secrets)
  BY CRSecretsOf
<1>2. three \in Seq(Secrets)
  BY DEF Secrets, OpSecrets
<1>3. "zuul-keystore-password" \in Range(three)
  <2>1. 1 \in DOMAIN three /\ three[1] = "zuul-keystore-password"
    OBVIOUS
  <2> HIDE DEF three
  <2> QED BY <2>1 DEF Range
<1>4. Needed(c) = Range(three \o CRSecrets(c))
  BY DEF Needed
<1> HIDE DEF three
<1>5. Needed(c) = Range(three) \cup Range(CRSecrets(c))
  BY <1>1, <1>2, <1>4, ConcatRange
<1>6. Range(three) \subseteq Secrets /\ Range(CRSecrets(c)) \subseteq Secrets
  BY <1>1, <1>2 DEF Range
<1>7. \A conn \in ConnectionsOf(c) :
         conn.driver \in {"github", "gitlab", "pagure"} /\ conn.secret # Empty =>
            conn.secret \in Range(CRSecrets(c))
  BY CRSecretsOf
<1> QED BY <1>3, <1>5, <1>6, <1>7

\* A member of a list is the first one or among the others.
LEMMA HeadOrTail ==
    ASSUME NEW A, NEW t \in Seq(A), t # << >>, NEW n \in Range(t)
    PROVE  n = Head(t) \/ n \in Range(Tail(t))
<1>1. PICK i \in 1..Len(t) : t[i] = n
  BY DEF Range
<1>2. CASE i = 1
  BY <1>1, <1>2
<1>3. CASE i # 1
  <2>1. i - 1 \in 1..Len(Tail(t)) /\ Tail(t)[i - 1] = t[i]
    BY <1>3
  <2>2. DOMAIN Tail(t) = 1..Len(Tail(t))
    OBVIOUS
  <2> QED BY <1>1, <2>1, <2>2 DEF Range
<1> QED BY <1>2, <1>3

LEMMA InitCopy == Init => CopyInv
BY DEF Init, CopyInv, Running

LEMMA NotCopied == ~copied' => CopyInv'
BY DEF CopyInv

\* What changes none of the secrets, and not where the command is
LEMMA CopyUnchanged ==
    ASSUME CopyInv, UNCHANGED <<pc, cr, copied, todo, secrets, read, edited>>
    PROVE  CopyInv'
BY DEF CopyInv, Same, Running

\* A command that copies starts with all the secrets to copy.
LEMMA StartCopy ==
    ASSUME CopyInv, NEW c \in CRs, NEW copy \in BOOLEAN, Start(c, copy)
    PROVE  CopyInv'
<1>1. ~copied
  BY DEF CopyInv, Start
<1>2. CASE ~copied'
  BY <1>2, NotCopied
<1>3. CASE copied'
  <2>1. /\ pc' = "copy" /\ cr' = c /\ c.standalone
        /\ todo' = <<"zuul-keystore-password", "zookeeper-client-tls", "zuul-ssh-key">>
                   \o CRSecrets(c)
    BY <1>1, <1>3, Zenon DEF Start
  <2>2. Range(todo') = Needed(cr')
    BY <2>1 DEF Needed
  <2>3. pc' \notin Workloads \cup {"end"} /\ Running'
    BY <2>1, ServicesArePlaces DEF Running
  <2> QED BY <2>1, <2>2, <2>3 DEF CopyInv
<1> QED BY <1>2, <1>3

\* A secret that is copied is the same at both sites.
LEMMA CopySecretCopy == TypeOK /\ CopyInv /\ CopySecret => CopyInv'
<1> SUFFICES ASSUME TypeOK, CopyInv, CopySecret, copied' PROVE CopyInv'
  BY NotCopied
<1>1. /\ pc = "copy" /\ todo # << >> /\ secrets["control"][Head(todo)] # 0
      /\ secrets' = [secrets EXCEPT !["remote"][Head(todo)] = secrets["control"][Head(todo)]]
      /\ todo' = Tail(todo) /\ UNCHANGED <<pc, cr, copied, read, edited>>
  BY DEF CopySecret, history
<1>2. todo \in Seq(Secrets) /\ secrets \in [Sites -> [Secrets -> Nat]] /\ cr \in CRs
  BY DEF TypeOK
<1>3. Head(todo) \in Secrets
  BY <1>1, <1>2
<1>4. secrets'["control"] = secrets["control"]
  BY <1>1, <1>2 DEF Sites
<1>5. secrets'["remote"] = [secrets["remote"] EXCEPT ![Head(todo)] = secrets["control"][Head(todo)]]
  BY <1>1, <1>2 DEF Sites
<1>6. ASSUME NEW n \in Needed(cr) PROVE n \in Range(todo') \/ Same(secrets["remote"], n)'
  <2>1. n \in Secrets
    BY <1>2, CROf, NeededOf
  <2>2. secrets["remote"] \in [Secrets -> Nat]
    BY <1>2 DEF Sites
  <2>3. CASE n = Head(todo)
    <3>1. secrets'["remote"][n] = secrets'["control"][n] /\ secrets'["remote"][n] # 0
      BY <1>1, <1>4, <1>5, <2>1, <2>2, <2>3
    <3> QED BY <3>1 DEF Same
  <2>4. CASE n # Head(todo) /\ n \in Range(todo)
    BY <1>1, <1>2, <2>4, HeadOrTail
  <2>5. CASE n # Head(todo) /\ n \notin Range(todo)
    <3>1. Same(secrets["remote"], n)
      BY <1>1, <2>5 DEF CopyInv
    <3>2. secrets'["remote"][n] = secrets["remote"][n]
      BY <1>5, <2>1, <2>2, <2>5
    <3> QED BY <1>1, <1>4, <3>1, <3>2 DEF Same
  <2> QED BY <2>3, <2>4, <2>5
<1>7. pc' \notin Workloads \cup {"end"} /\ Running' /\ pc' = "copy" /\ cr'.standalone
  BY <1>1, ServicesArePlaces DEF Running, CopyInv
<1> QED BY <1>1, <1>6, <1>7 DEF CopyInv

\* The zuul.conf of the remote site is made of the copied secrets.
LEMMA ConfStepCopy == TypeOK /\ CopyInv /\ EnsureZuulConfigSecret => CopyInv'
<1> SUFFICES ASSUME TypeOK, CopyInv, EnsureZuulConfigSecret, copied' PROVE CopyInv'
  BY NotCopied
<1>1. /\ pc = "conf" /\ pc' = Order(cr)[1] /\ read' = secrets[Site(cr)]
      /\ UNCHANGED <<cr, copied, todo, secrets, edited>>
  BY DEF EnsureZuulConfigSecret, command
<1>2. cr.standalone /\ todo = << >> /\ Site(cr) = "remote"
  BY <1>1 DEF CopyInv, Site
<1>3. Range(todo) = {}
  BY <1>2 DEF Range
<1>4. \A n \in Needed(cr) : Same(secrets["remote"], n)
  BY <1>1, <1>3 DEF CopyInv
<1>5. \A n \in Needed(cr) : Same(read, n)' /\ Same(secrets["remote"], n)'
  BY <1>1, <1>2, <1>4 DEF Same
<1>6. pc' \in Workloads
  BY <1>1, OrderShape
<1>7. Running'
  BY <1>6, ServicesArePlaces DEF Running
<1> QED BY <1>1, <1>2, <1>5, <1>7 DEF CopyInv

\* The command goes on at another place, with what it has.
LEMMA GoesOnCopy ==
    ASSUME CopyInv, UNCHANGED <<cr, copied, todo, read, edited>>, pc # "copy" \/ todo = << >>,
           Running, Running', copied => secrets' = secrets,
           pc' \in Workloads \cup {"end"} => pc \in Workloads \cup {"end"}
    PROVE  CopyInv'
BY DEF CopyInv, Same

\* A secret that changes meanwhile is one of those edited.
LEMMA EditCopy ==
    ASSUME TypeOK, CopyInv, NEW m \in Editable, Edit(m)
    PROVE  CopyInv'
<1> SUFFICES ASSUME copied' PROVE CopyInv'
  BY NotCopied
<1>1. /\ UNCHANGED <<pc, cr, copied, todo, read>> /\ edited' = edited \cup {m}
      /\ secrets' = [secrets EXCEPT !["control"][m] = @ + 1]
  BY DEF Edit, command
<1>2. secrets \in [Sites -> [Secrets -> Nat]]
  BY DEF TypeOK
<1>3. /\ secrets'["remote"] = secrets["remote"]
      /\ \A n : n # m => secrets'["control"][n] = secrets["control"][n]
  BY <1>1, <1>2 DEF Sites
<1>4. ASSUME NEW n, Same(secrets["remote"], n) PROVE Same(secrets["remote"], n)'
  BY <1>1, <1>3, <1>4 DEF Same
<1>5. ASSUME NEW n, Same(read, n) PROVE Same(read, n)'
  BY <1>1, <1>3, <1>5 DEF Same
<1> QED BY <1>1, <1>4, <1>5 DEF CopyInv, Running

\* Every step keeps what the copied secrets are.
LEMMA NextCopy == Inductive /\ CopyInv /\ [Next]_vars => CopyInv'
<1> SUFFICES ASSUME Inductive, CopyInv, [Next]_vars PROVE CopyInv'
  OBVIOUS
<1>0. TypeOK /\ WalkInv /\ copied \in BOOLEAN
  BY DEF Inductive, TypeInv, TypeOK
<1>1. ASSUME Forget PROVE CopyInv'
  BY <1>1, NotCopied DEF Forget
<1>2. ASSUME NEW c \in CRs, NEW copy \in BOOLEAN, Start(c, copy) PROVE CopyInv'
  BY <1>2, StartCopy
<1>3. CASE CopySecret
  BY <1>0, <1>3, CopySecretCopy
<1>4. CASE CopyEnds
  <2>1. CASE pc' = "validate"
    <3>1. /\ UNCHANGED <<cr, copied, todo, read, edited, secrets>> /\ todo = << >>
          /\ Running /\ Running' /\ pc' \notin Workloads \cup {"end"}
      BY <1>4, <2>1, ServicesArePlaces DEF CopyEnds, Running, cluster
    <3> QED BY <3>1, GoesOnCopy
  <2>2. CASE pc' # "validate"
    <3>1. Forget
      BY <1>4, <2>2 DEF CopyEnds
    <3> QED BY <1>1, <3>1
  <2> QED BY <2>1, <2>2
<1>5. CASE Validate
  <2>1. /\ UNCHANGED <<cr, copied, todo, read, edited>> /\ pc # "copy"
        /\ Running /\ Running' /\ pc' \notin Workloads \cup {"end"}
    BY <1>5, ServicesArePlaces DEF Validate, Running, history
  <2>2. copied => secrets' = secrets
    BY <1>5 DEF Validate, CopyInv
  <2> QED BY <2>1, <2>2, GoesOnCopy
<1>6. CASE EnsureZuulConfigSecret
  BY <1>0, <1>6, ConfStepCopy
<1>7. ASSUME NEW w \in Workloads, EnsureService(w) PROVE CopyInv'
  <2>1. CASE Forget
    BY <1>1, <2>1
  <2>2. CASE pc' = After(w) /\ UNCHANGED <<cr, copied, todo, read, edited>>
    <3>1. pc = w /\ UNCHANGED secrets
      BY <1>7 DEF EnsureService
    <3>2. PICK i \in DOMAIN Order(cr) : Order(cr)[i] = w
      BY <1>0, <3>1 DEF WalkInv
    <3>3. After(w) \in Workloads \cup {"end"}
      <4>1. CASE i = Len(Order(cr))
        BY <3>2, <4>1, AfterShape
      <4>2. CASE i # Len(Order(cr))
        <5>1. i + 1 \in DOMAIN Order(cr)
          BY <4>2, OrderShape
        <5> QED BY <3>2, <4>2, <5>1, AfterShape, OrderShape
      <4> QED BY <4>1, <4>2
    <3>4. Running /\ Running' /\ pc # "copy"
      BY <2>2, <3>1, <3>3, ServicesArePlaces DEF Running
    <3> QED BY <2>2, <3>1, <3>4, GoesOnCopy
  <2> QED BY <1>7, <2>1, <2>2 DEF EnsureService
<1>8. CASE Finish
  <2>1. CASE pc' = "ok"
    <3>1. Forget
      BY <1>8, <2>1 DEF Finish
    <3> QED BY <1>1, <3>1
  <2>2. CASE pc' # "ok"
    <3>1. /\ UNCHANGED <<cr, copied, todo, read, edited, secrets>> /\ pc # "copy"
          /\ Running /\ Running' /\ pc' \notin Workloads \cup {"end"}
      BY <1>8, <2>2, ServicesArePlaces DEF Finish, Running, cluster
    <3> QED BY <3>1, GoesOnCopy
  <2> QED BY <2>1, <2>2
<1>9. CASE Kill
  BY <1>1, <1>9 DEF Kill
<1>10. ASSUME NEW w \in Workloads, PodStart(w) \/ PodRestart(w) PROVE CopyInv'
  BY <1>10, CopyUnchanged DEF PodStart, PodRestart, command, cluster, history
<1>11. ASSUME NEW n \in Editable, Edit(n) PROVE CopyInv'
  BY <1>0, <1>11, EditCopy
<1>12. CASE UNCHANGED vars
  BY <1>12, CopyUnchanged DEF vars, command, cluster, history
<1> QED BY <1>2, <1>3, <1>4, <1>5, <1>6, <1>7, <1>8, <1>9, <1>10, <1>11, <1>12 DEF Next, Deploy

\* The zuul.conf of a pass that copied the secrets has those of the control plane.
LEMMA TokenKept ==
    ASSUME NEW c \in CRType, Accepted(c), NEW s, NEW conn \in ConnectionsOf(c),
           conn.driver \in {"github", "gitlab", "pagure"}, conn.secret # Empty
    PROVE  \E k \in DOMAIN NewSections(ZuulConf(c, s)) :
              LET sec == NewSections(ZuulConf(c, s))[k] IN
              /\ sec.name[1] = "connection"
              /\ sec.keys.driver = conn.driver /\ sec.keys.url = conn.url
              /\ s[conn.secret] # 0 => sec.keys["token"] = s[conn.secret]
<1> DEFINE new == NewSections(ZuulConf(c, s))
           keys == AddConnection(conn, s).keys
<1>1. PICK k \in DOMAIN new : new[k].name = Connection(conn.name) /\ new[k].keys = keys
  BY ConnectionKept
<1>2. conn \in ConnectionType(Drivers)
  BY DriverLists
<1>3. /\ keys.driver = conn.driver /\ keys.url = conn.url
      /\ Token(s, conn.secret) # 0 => keys["token"] = Token(s, conn.secret)
  BY <1>2, ConnectionKeys
<1>4. Token(s, conn.secret) = s[conn.secret]
  BY DEF Token
<1> HIDE DEF new, keys
<1>5. new[k].name[1] = "connection"
  BY <1>1, NamePrefixes
<1> QED BY <1>1, <1>3, <1>4, <1>5 DEF new

\* What a success of a remote executor means for its zuul.conf.
LEMMA AgreesStep ==
    ASSUME Inductive, CopyInv, [Next]_vars, Succeeds, copied, ~Ahead("remote-executor")
    PROVE  Agrees(cr, pod["remote-executor"].conf)
<1> DEFINE loaded == pod["remote-executor"].conf
           now == NewSections(ZuulConf(cr, read))
<1>1. pc = "end" /\ cr.standalone /\ \A n \in Needed(cr) : Same(read, n)
  BY DEF Succeeds, CopyInv
<1>2. /\ 1 \in DOMAIN Order(cr) /\ Order(cr)[1] = "remote-executor"
      /\ ~Unsettled("remote-executor")
  BY <1>1 DEF Order, Unsettled, Rolling
<1>3. /\ cr \in CRType /\ Accepted(cr) /\ "remote-executor" \in Workloads
      /\ Body(loaded, "connection") = Body(now, "connection")
      /\ Body(loaded, "keystore") = Body(now, "keystore")
  BY <1>2, SuccessBodies
<1>4. Total(cr) \in Nat /\ DOMAIN now \subseteq 1..Total(cr)
  BY <1>3, ConfPlaces
<1>5. PICK m \in Nat : DOMAIN loaded \subseteq 1..m
  <2>1. loaded = << >> \/ IsConf(loaded)
    BY <1>3 DEF Inductive, DataInv, LoadedInv
  <2>2. CASE loaded = << >>
    <3>1. DOMAIN loaded \subseteq 1..0
      BY <2>2
    <3> QED BY <3>1
  <2>3. CASE IsConf(loaded)
    <3>1. PICK c \in CRs, s \in Contents : loaded = NewSections(ZuulConf(c, s))
      BY <2>3 DEF IsConf
    <3>2. Total(c) \in Nat /\ DOMAIN loaded \subseteq 1..Total(c)
      BY <3>1, CROf, ConfPlaces
    <3> QED BY <3>2
  <2> QED BY <2>1, <2>2, <2>3
<1> HIDE DEF loaded
<1>6. ASSUME NEW k \in DOMAIN loaded, loaded[k].name = <<"keystore">>
      PROVE  UpToDate("zuul-keystore-password", "password", loaded[k].keys)
  <2>1. loaded[k].name[1] = "keystore"
    BY <1>6
  <2>2. PICK h \in DOMAIN now : now[h].name[1] = "keystore" /\ now[h].keys = loaded[k].keys
    <3> HIDE DEF now
    <3> QED BY <1>3, <1>4, <1>5, <2>1, SameBody
  <2>3. now[h].keys = AddSettings(cr, read)[SettingOf[1]].keys
    <3>1. /\ \A j \in DOMAIN now : now[j].name[1] = Plain[1] => j = 1
          /\ now[1].keys = AddSettings(cr, read)[SettingOf[1]].keys
      BY <1>3, PlainSection
    <3>2. Plain[1] = "keystore"
      BY PlainPlaces
    <3> HIDE DEF now
    <3> QED BY <2>2, <3>1, <3>2
  <2>4. AddSettings(cr, read)[SettingOf[1]].keys = [password |-> read["zuul-keystore-password"]]
    BY <1>3, SettingKeys
  <2>5. loaded[k].keys["password"] = read["zuul-keystore-password"]
    <3>1. loaded[k].keys = [password |-> read["zuul-keystore-password"]]
      BY <2>2, <2>3, <2>4
    <3> QED BY <3>1
  <2>6. Same(read, "zuul-keystore-password")
    BY <1>1, <1>3, NeededOf
  <2> QED BY <2>5, <2>6 DEF Same, UpToDate
<1>7. ASSUME NEW conn \in ConnectionsOf(cr),
             conn.driver \in {"github", "gitlab", "pagure"}, conn.secret # Empty
      PROVE  \E k \in DOMAIN loaded :
                /\ loaded[k].name[1] = "connection"
                /\ loaded[k].keys.driver = conn.driver /\ loaded[k].keys.url = conn.url
                /\ UpToDate(conn.secret, "token", loaded[k].keys)
  <2>1. PICK h \in DOMAIN now :
           /\ now[h].name[1] = "connection"
           /\ now[h].keys.driver = conn.driver /\ now[h].keys.url = conn.url
           /\ read[conn.secret] # 0 => now[h].keys["token"] = read[conn.secret]
    BY <1>3, <1>7, TokenKept
  <2> HIDE DEF now
  <2>2. PICK k \in DOMAIN loaded : loaded[k].name[1] = "connection" /\ loaded[k].keys = now[h].keys
    BY <1>3, <1>4, <1>5, <2>1, SameBody
  <2>3. Same(read, conn.secret)
    BY <1>1, <1>3, <1>7, NeededOf
  <2>4. UpToDate(conn.secret, "token", loaded[k].keys)
    BY <2>1, <2>2, <2>3 DEF Same, UpToDate
  <2> QED BY <2>1, <2>2, <2>4
<1> QED BY <1>6, <1>7 DEF Agrees, loaded

\* When deploy succeeds after the secrets were copied, the remote executor runs with
\* the keystore password and the tokens of the control plane, but for those that were
\* edited meanwhile: copySecrets replaces what is there, and fails unless it has all.
THEOREM RemoteHasTheSecrets == Spec => RemoteAgrees
<1>1. Init => CopyInv
  BY InitCopy
<1>2. Inductive /\ CopyInv /\ [Next]_vars => CopyInv'
  BY NextCopy
<1>3. Inductive /\ CopyInv /\ [Next]_vars =>
         [Succeeds /\ copied /\ ~Ahead("remote-executor") =>
             Agrees(cr, pod["remote-executor"].conf)]_vars
  BY AgreesStep
<1> QED BY <1>1, <1>2, <1>3, InductiveInvariant, PTL DEF Spec, RemoteAgrees
=============================================================================
