------------------------------- MODULE Proxy -------------------------------
(***************************************************************************)
(* Proxy objects of quickjs.c: the internal methods of a proxy call a trap *)
(* of its handler, written in JavaScript, and let the answer through only  *)
(* when the target does not contradict it.  The traps here answer          *)
(* anything, throw, or revoke the proxy while they run; between two        *)
(* operations the target changes as it likes.                              *)
(*                                                                         *)
(* The target is an ordinary object, or a second proxy of that object      *)
(* whose handler has no traps.  Each method is given with the test the     *)
(* code makes and the test the ECMAScript standard prescribes.             *)
(***************************************************************************)
EXTENDS EsObjects

CONSTANTS
    Keys,        \* property keys
    Values,      \* property values
    Protos,      \* objects that may be a prototype
    Descriptors, \* descriptors that are defined, or that a trap returns
    Nested,      \* is the target itself a proxy?
    Operations   \* the internal methods that are called

VARIABLES
    target,   \* the object at the end: its properties, prototype, and extensibility
    revoked,  \* is_revoked
    last,     \* the last operation on the proxy, its result in code and standard, and
              \* which of the known differences it meets
    seen      \* what the results of earlier operations promised
vars == <<target, revoked, last, seen>>

Exception == <<"exception">>
Returns(v) == <<"returns", v>>

\* A trap: none in the handler, one that throws, or one that returns a value; it may
\* revoke the proxy.
NoTrap == [kind |-> "none", value |-> {}, revokes |-> FALSE]
Traps(answers) ==
    {NoTrap} \cup {[kind |-> "throws", value |-> {}, revokes |-> b] : b \in BOOLEAN}
    \cup {[kind |-> "answers", value |-> {v}, revokes |-> b] : v \in answers, b \in BOOLEAN}
Answer(tr) == CHOOSE v \in tr.value : TRUE

\* get_proxy_method and the call: direct is the operation on the target, checked the
\* result when the trap answered.
ProxyMethod(tr, direct, checked) ==
    IF revoked \/ tr.kind = "throws" THEN Exception
    ELSE IF tr.kind = "none" THEN direct ELSE checked

Let(ok, v) == IF ok THEN Returns(v) ELSE Exception

\* JS_GetOwnPropertyInternal and JS_IsExtensible on the target; p->extensible is the
\* flag of the object the proxy points at.
Has(k) == k \in DOMAIN target.props
Own(k) == target.props[k]
IsExtensible == target.ext
PExtensible == Nested \/ target.ext

Stuck(k) == Has(k) /\ ~Own(k).configurable
Frozen(k) == Stuck(k) /\ ~Own(k).getset /\ ~Own(k).writable

HidesAllowed_any(k) == Has(k) => Own(k).configurable

HidesAllowed(k) == Has(k) => Own(k).configurable /\ PExtensible
EsHidesAllowed(k) == Has(k) => Own(k).configurable /\ IsExtensible
js_proxy_has(k, v) == Let(v \/ HidesAllowed(k), v)
EsHas(k, v) == Let(v \/ EsHidesAllowed(k), v)

GetAllowed(k, v) ==
    /\ Frozen(k) => v = Own(k).value
    /\ Stuck(k) /\ Own(k).getset /\ Own(k).get = NoFunction => v = Undefined
js_proxy_get(k, v) == Let(GetAllowed(k, v), v)

SetAllowed(k, v) ==
    /\ Frozen(k) => v = Own(k).value
    /\ ~(Stuck(k) /\ Own(k).getset /\ Own(k).set = NoFunction)
js_proxy_set(k, v, ok) == Let(ok => SetAllowed(k, v), ok)

check_define_prop_flags(q, d) ==
    q.configurable \/
    /\ ~("configurable" \in d.has /\ d.configurable)
    /\ "enumerable" \in d.has => d.enumerable = q.enumerable
    /\ OfAccessor(d) \/ OfData(d) =>
          /\ OfAccessor(d) = q.getset
          /\ ~q.getset /\ ~q.writable => ~("writable" \in d.has /\ d.writable)

\* js_obj_to_desc: the flags of the descriptor, JS_PROP_GETSET never among them, so what
\* js_proxy_get_own_property returns reads as a data property.
js_obj_to_desc(d) ==
    Data(IF "value" \in d.has THEN d.value ELSE Undefined, d.writable, d.enumerable,
         d.configurable)

DescriptorAllowed_loose(k, d) ==
    LET flags1 == [d EXCEPT !.has = @ \cup {"configurable", "enumerable", "value", "writable"}]
    IN  Has(k) => check_define_prop_flags(Own(k), flags1)

DescriptorAllowed(k, d) ==
    LET flags1 == [d EXCEPT !.has = @ \cup {"configurable", "enumerable", "value", "writable"}]
    IN  /\ IF Has(k) THEN check_define_prop_flags(Own(k), flags1) ELSE IsExtensible
        /\ ~d.configurable => Stuck(k) /\ ~(~d.writable /\ Own(k).writable)

js_proxy_get_own_property(k, d) == Let(DescriptorAllowed(k, d), <<js_obj_to_desc(d)>>)

\* CompletePropertyDescriptor
Complete(d) == [d EXCEPT !.has = {"enumerable", "configurable"} \cup
                    IF OfAccessor(d) THEN {"get", "set"} ELSE {"value", "writable"}]
EsGetOwnProperty(k, d) ==
    Let(/\ IF Has(k) THEN Compatible(Own(k), Complete(d)) ELSE IsExtensible
        /\ ~d.configurable => /\ Stuck(k)
                              /\ ~OfAccessor(d) /\ ~d.writable => ~Own(k).writable,
        <<Applied(Data(Undefined, FALSE, FALSE, FALSE), d)>>)

\* The answer undefined.
NoProperty(k) == Let(HidesAllowed(k), <<>>)
EsNoProperty(k) == Let(EsHidesAllowed(k), <<>>)

SetsNotConfigurable(d) == "configurable" \in d.has /\ ~d.configurable
Sets(d, f) == f \in d.has /\ d[f]

DefineAllowed_new(k, d) ==
    Has(k) => /\ check_define_prop_flags(Own(k), d)
              /\ ~(Own(k).configurable /\ SetsNotConfigurable(d))

DefineAllowed(k, d) ==
    IF ~Has(k) THEN PExtensible /\ ~SetsNotConfigurable(d)
    ELSE LET q == Own(k)
         IN  /\ check_define_prop_flags(q, d)
             /\ ~(q.configurable /\ SetsNotConfigurable(d))
             /\ OfAccessor(d) /\ q.getset /\ ~q.configurable =>
                   /\ "get" \in d.has => d.get = q.get
                   /\ "set" \in d.has => d.set = q.set
             /\ ~OfAccessor(d) /\ "value" \in d.has /\ ~q.configurable =>
                   /\ q.writable => Sets(d, "writable")
                   /\ ~q.writable => d.value = q.value
             /\ "writable" \in d.has => ~(~q.getset /\ ~q.configurable /\ q.writable)

EsDefineAllowed(k, d) ==
    IF ~Has(k) THEN IsExtensible /\ ~SetsNotConfigurable(d)
    ELSE /\ Compatible(Own(k), d)
         /\ ~(Own(k).configurable /\ SetsNotConfigurable(d))
         /\ ~(Stuck(k) /\ Own(k).writable /\ "writable" \in d.has /\ ~d.writable)

js_proxy_define_own_property(k, d, ok) == Let(ok => DefineAllowed(k, d), ok)
EsDefineOwnProperty(k, d, ok) == Let(ok => EsDefineAllowed(k, d), ok)

DeleteAllowed_any(k) == Has(k) => Own(k).configurable

DeleteAllowed(k) == Has(k) => Own(k).configurable /\ IsExtensible
js_proxy_delete_property(k, ok) == Let(ok => DeleteAllowed(k), ok)
EsDeleteOwn(k, ok) == Let(ok => EsHidesAllowed(k), ok)

\* The keys, with the proxy revoked or not once the trap has returned.
KeysAllowed_more(s) ==
    /\ Cardinality({s[i] : i \in DOMAIN s}) = Len(s)
    /\ \A k \in DOMAIN target.props : Stuck(k) => k \in {s[i] : i \in DOMAIN s}

KeysAllowed(s) ==
    LET ks == {s[i] : i \in DOMAIN s}
    IN  /\ Cardinality(ks) = Len(s)
        /\ {k \in DOMAIN target.props : Stuck(k) \/ ~IsExtensible} \subseteq ks
        /\ ~IsExtensible => ks \subseteq DOMAIN target.props
js_proxy_get_own_property_names(s, revokes) == Let(KeysAllowed(s) /\ ~revokes, s)
EsOwnKeys(s) == Let(KeysAllowed(s), s)

ProtoAllowed(v) == IsExtensible \/ v = target.proto
js_proxy_getPrototypeOf(v) == Let(ProtoAllowed(v), v)
js_proxy_setPrototypeOf(v, ok) == Let(ok => ProtoAllowed(v), ok)
js_proxy_isExtensible_any(v) == Returns(v)
js_proxy_isExtensible(v) == Let(v = IsExtensible, v)
js_proxy_preventExtensions(ok) == Let(ok => ~IsExtensible, ok)
-----------------------------------------------------------------------------
\* What a result of the proxy promises for good.
Promises(l) ==
    IF Len(l.code) < 2 THEN {}
    ELSE LET v == l.code[2]
         IN  CASE l.op = "isExtensible" /\ ~v -> {<<"not extensible">>}
               [] l.op = "preventExtensions" /\ v -> {<<"not extensible">>}
               [] l.op = "getOwnProperty" /\ v # <<>> /\ ~v[1].configurable
                    -> {<<"has", l.key>>}
               [] l.op = "define" /\ v /\ SetsNotConfigurable(l.arg) -> {<<"has", l.key>>}
               [] OTHER -> {}

Init ==
    /\ target = [props |-> <<>>, ext |-> TRUE, proto |-> Null]
    /\ revoked = FALSE
    /\ last = [op |-> "none", key |-> LENGTH, arg |-> Blank, code |-> <<>>, es |-> <<>>,
               differs |-> "no"]
    /\ seen = {}

\* An operation op on the proxy: its results, the target when there is no trap, and the
\* difference between code and standard that it meets.
OperateWith(op, k, d, tr, code, std, t, differs) ==
    /\ op \in Operations
    /\ last' = [op |-> op, key |-> k, arg |-> d, code |-> code, es |-> std, differs |-> differs]
    /\ seen' = seen \cup Promises(last)
    /\ revoked' = (revoked \/ tr.revokes)
    /\ target' = IF tr.kind = "none" /\ ~revoked THEN t ELSE target
Operate(op, k, d, tr, code, std, t) == OperateWith(op, k, d, tr, code, std, t, "no")

\* The target is a proxy of an object that is not extensible (44629).
Hidden == IF Nested /\ ~target.ext THEN "nested" ELSE "no"

ProxyHas(k) ==
    \E tr \in Traps(BOOLEAN) :
        OperateWith("has", k, Blank, tr,
                ProxyMethod(tr, Returns(Has(k)), js_proxy_has(k, Answer(tr))),
                ProxyMethod(tr, Returns(Has(k)), EsHas(k, Answer(tr))), target, Hidden)

ProxyGet(k) ==
    \E tr \in Traps(Values \cup {Undefined}) :
    \E r \in {ProxyMethod(tr, Returns(IF Has(k) THEN Own(k).value ELSE Undefined),
                          js_proxy_get(k, Answer(tr)))} :
        Operate("get", k, Blank, tr, r, r, target)

\* A set without a trap ends in the defineProperty of the receiver and is left out.
ProxySet(k, v) ==
    \E tr \in Traps(BOOLEAN) \ {NoTrap} :
    \E r \in {ProxyMethod(tr, Exception, js_proxy_set(k, v, Answer(tr)))} :
        Operate("set", k, Blank, tr, r, r, target)

\* The answer is a descriptor of an accessor, or of a frozen property with another value
\* (44848).
DescriptorDiffers(k, d) ==
    CASE OfAccessor(d) -> "accessor"
      [] Frozen(k) /\ ~("value" \in d.has /\ d.value = Own(k).value) -> "value"
      [] OTHER -> "no"

ProxyGetOwnProperty(k) ==
    \E tr \in Traps({<<>>} \cup {<<d>> : d \in Descriptors}) :
        \E mine \in {Returns(IF Has(k) THEN <<Own(k)>> ELSE <<>>)} :
        \E a \in IF tr.value = {} THEN {<<>>} ELSE tr.value :
            OperateWith("getOwnProperty", k, Blank, tr,
                ProxyMethod(tr, mine, IF a = <<>> THEN NoProperty(k)
                                      ELSE js_proxy_get_own_property(k, a[1])),
                ProxyMethod(tr, mine, IF a = <<>> THEN EsNoProperty(k)
                                      ELSE EsGetOwnProperty(k, a[1])), target,
                IF a = <<>> THEN Hidden ELSE DescriptorDiffers(k, a[1]))

\* The definitions of a property that is writable and not configurable (44958, 44969).
Writes(k, d) == Stuck(k) /\ Own(k).writable /\ OfData(d)

ProxyDefine(k, d) ==
    \E tr \in Traps(BOOLEAN) : \E direct \in {OrdinaryDefine(target, k, d)} :
        OperateWith("define", k, d, tr,
              ProxyMethod(tr, Returns(direct.ok), js_proxy_define_own_property(k, d, Answer(tr))),
              ProxyMethod(tr, Returns(direct.ok), EsDefineOwnProperty(k, d, Answer(tr))),
              direct.o, IF Writes(k, d) THEN "define" ELSE IF Has(k) THEN "no" ELSE Hidden)

ProxyDelete(k) ==
    \E tr \in Traps(BOOLEAN) : \E done \in {Returns(~Stuck(k))} :
        Operate("delete", k, Blank, tr,
                ProxyMethod(tr, done, js_proxy_delete_property(k, Answer(tr))),
                ProxyMethod(tr, done, EsDeleteOwn(k, Answer(tr))),
                IF Stuck(k) THEN target ELSE Without(target, k))

KeyLists == {<<>>} \cup {<<k>> : k \in Keys} \cup {<<j, k>> : j, k \in Keys}

OwnKeyList == CHOOSE s \in KeyLists : /\ {s[i] : i \in DOMAIN s} = DOMAIN target.props
                                      /\ Len(s) = Cardinality(DOMAIN target.props)
                                      /\ \A i, j \in DOMAIN s : i < j => s[i] < s[j]

ProxyOwnKeys ==
    \E tr \in Traps(KeyLists) :
        OperateWith("ownKeys", LENGTH, Blank, tr,
              ProxyMethod(tr, Returns(OwnKeyList),
                          js_proxy_get_own_property_names(Answer(tr), tr.revokes)),
              ProxyMethod(tr, Returns(OwnKeyList), EsOwnKeys(Answer(tr))), target,
              IF tr.revokes THEN "revoke" ELSE "no")

ProxyGetPrototypeOf ==
    \E tr \in Traps(Protos \cup {Null}) :
    \E r \in {ProxyMethod(tr, Returns(target.proto), js_proxy_getPrototypeOf(Answer(tr)))} :
        Operate("getPrototypeOf", LENGTH, Blank, tr, r, r, target)

ProxySetPrototypeOf(v) ==
    \E tr \in Traps(BOOLEAN) : \E ok \in {IsExtensible \/ v = target.proto} :
    \E r \in {ProxyMethod(tr, Returns(ok), js_proxy_setPrototypeOf(v, Answer(tr)))} :
        Operate("setPrototypeOf", LENGTH, Blank, tr, r, r,
                IF ok THEN [target EXCEPT !.proto = v] ELSE target)

ProxyIsExtensible ==
    \E tr \in Traps(BOOLEAN) :
    \E r \in {ProxyMethod(tr, Returns(IsExtensible), js_proxy_isExtensible(Answer(tr)))} :
        Operate("isExtensible", LENGTH, Blank, tr, r, r, target)

ProxyPreventExtensions ==
    \E tr \in Traps(BOOLEAN) :
    \E r \in {ProxyMethod(tr, Returns(TRUE), js_proxy_preventExtensions(Answer(tr)))} :
        Operate("preventExtensions", LENGTH, Blank, tr, r, r, [target EXCEPT !.ext = FALSE])

\* The target changes behind the proxy.
DefineTarget(k, d) ==
    \E r \in {OrdinaryDefine(target, k, d)} :
        r.ok /\ target' = r.o /\ UNCHANGED <<revoked, last, seen>>

js_proxy_revoke == revoked' = TRUE /\ UNCHANGED <<target, last, seen>>

Next ==
    \/ \E k \in Keys : ProxyHas(k) \/ ProxyGet(k) \/ ProxyGetOwnProperty(k) \/ ProxyDelete(k)
    \/ \E k \in Keys, v \in Values : ProxySet(k, v)
    \/ \E k \in Keys, d \in Descriptors : ProxyDefine(k, d) \/ DefineTarget(k, d)
    \/ ProxyOwnKeys
    \/ ProxyGetPrototypeOf
    \/ \E v \in Protos \cup {Null} : ProxySetPrototypeOf(v)
    \/ ProxyIsExtensible
    \/ ProxyPreventExtensions
    \/ js_proxy_revoke

Spec == Init /\ [][Next]_vars
-----------------------------------------------------------------------------
(***************************************************************************)
(* Whatever a trap answers, and whenever it revokes the proxy, the caller  *)
(* of the internal method gets what the standard says, the answer or a     *)
(* TypeError because the target contradicts it, except in five cases.      *)
(* The code only refuses more: an answer to define for a property that is  *)
(* writable and not configurable, and keys from a trap that revoked the    *)
(* proxy.  It only refuses less: a descriptor with another value for a     *)
(* frozen property, and what a target hides that is itself a proxy and not *)
(* extensible.  A descriptor of an accessor comes back as one of data.     *)
(***************************************************************************)
TrapsExact ==
    CASE last.differs = "no" -> last.code = last.es
      [] last.differs \in {"define", "revoke"} -> last.code \in {last.es, Exception}
      [] last.differs \in {"value", "nested"} -> last.es \in {last.code, Exception}
      [] last.differs = "accessor" ->
            last.code = Exception \/ ~last.code[2][1].getset

(***************************************************************************)
(* What the proxy said for good stays so, whatever the handler answers     *)
(* later: once it was not extensible it is never extensible again, gets no *)
(* property and hides none (unless its target is a proxy: 44629); once a   *)
(* property was not configurable, the proxy always has it, lists it and    *)
(* never lets it be deleted.                                               *)
(***************************************************************************)
PromisesKept ==
    Len(last.code) = 2 =>
        LET v == last.code[2]
        IN  /\ <<"not extensible">> \in seen =>
                  CASE last.op = "isExtensible" -> ~v
                    [] last.op = "define" /\ last.differs # "nested" -> v => Has(last.key)
                    [] last.op = "has" /\ last.differs # "nested" -> Has(last.key) => v
                    [] last.op = "ownKeys" -> {v[i] : i \in DOMAIN v} = DOMAIN target.props
                    [] OTHER -> TRUE
            /\ <<"has", last.key>> \in seen =>
                  CASE last.op = "has" -> v
                    [] last.op = "delete" -> ~v
                    [] last.op = "getOwnProperty" -> v # <<>> /\ ~v[1].configurable
                    [] OTHER -> TRUE
            /\ last.op = "ownKeys" =>
                  {k \in Keys : <<"has", k>> \in seen} \subseteq {v[i] : i \in DOMAIN v}
=============================================================================
