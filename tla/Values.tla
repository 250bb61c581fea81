--------------------------------- MODULE Values --------------------------------
(***************************************************************************)
(* The values of an object, as servers read and write them: a resource in  *)
(* text, an instance or an object in TLV (src/lwm2m_device_management.c,   *)
(* src/lwm2m_bootstrap.c), and the entries of a multiple resource.         *)
(*                                                                         *)
(* Every instance has a resource of one type, which is readable and        *)
(* writeable, and what a server holds is the payload of the last READ,     *)
(* which it may write back to wherever such a payload can go.  Handlers run *)
(* on the MQTT library's thread, one at a time; their locks and            *)
(* notifications are in Registration and Observe.                          *)
(***************************************************************************)
EXTENDS Tlv, FiniteSets

CONSTANTS
  Sample,       \* for each type, values the application gives a resource
  Rounded,      \* for a DOUBLE, what atof() makes of what "%f" prints
  InstanceId,   \* ids of instances
  EntrySample,  \* what a multiple resource may hold: functions from ids to INTEGERs
  BufferSize,   \* the size of the buffers payloads are put together in
  MaxSteps,     \* bound: steps
  Unset

Types == {"INTEGER", "BOOLEAN", "DOUBLE", "STRING", "LINK"}

ResourceId == 0   \* of a resource_def_len of 1

ValuesOf(t) ==
  CASE t = "INTEGER" -> Int32
    [] t = "BOOLEAN" -> BOOLEAN
    [] t = "DOUBLE"  -> DOMAIN Rounded
    [] t = "STRING"  -> Seq(1..255)
    [] t = "LINK"    -> Word \X Word

ASSUME ValuesAssumption ==
  /\ DOMAIN Sample \subseteq Types
  /\ \A t \in DOMAIN Sample : Sample[t] \subseteq ValuesOf(t)
  /\ \A t \in Types : Unset \notin ValuesOf(t)
  /\ \A v \in DOMAIN Rounded :
       v \in [1..8 -> Byte] /\ {Rounded[v], Reverse(v)} \subseteq DOMAIN Rounded
  /\ [k \in 1..8 |-> 0] \in DOMAIN Rounded
  /\ InstanceId \subseteq Word
  /\ \A e \in EntrySample :
       e \in [DOMAIN e -> Int32] /\ DOMAIN e \subseteq Word
  /\ BufferSize \in Nat /\ BufferSize < 16777215
  /\ MaxSteps \in Nat

VARIABLES
  signed,      \* char has a sign
  type,        \* the type of the resource
  instances,   \* by id, the value of the resource
  response,    \* what the server holds
  sent,        \* history: what it was sent when it read that
  steps

ValuesVars == <<signed, type, instances, response, sent, steps>>

Nothing == [kind |-> "nothing", payload |-> <<>>]

(* What two chars can say, whether they have a sign or not. *)
AnyId == -32896..65535

(* What the variables may be. *)
ValuesTypeOK ==
  /\ signed \in BOOLEAN
  /\ type \in Types
  /\ DOMAIN instances \subseteq AnyId
  /\ \A i \in DOMAIN instances : instances[i] = Unset \/ instances[i] \in ValuesOf(type)
  /\ response.kind \in {"nothing", "resource", "entries", "instance", "object", "wrecked"}
  /\ steps \in 0..MaxSteps

ValuesInit ==
  /\ signed \in BOOLEAN
  /\ type \in DOMAIN Sample
  /\ \E S \in SUBSET InstanceId :
       /\ Cardinality(S) = 2
       /\ instances \in [S -> {Unset} \cup Sample[type]]
  /\ response = Nothing
  /\ sent = <<>>
  /\ steps = 0

-----------------------------------------------------------------------------
(* set_value() by the application *)
SetValue(i, v) ==
  /\ response.kind # "wrecked"
  /\ instances' = [instances EXCEPT ![i] = v]
  /\ UNCHANGED <<signed, type, response, sent>>

(* serialize_instance() of what on_instance_read() and on_object_read()    *)
(* leave: resources that have a value.                                     *)
InstancePayload(t, v) ==
  IF v = Unset THEN <<>> ELSE Element(ResourceKind, ResourceId, Encode(t, v))

(* serialize_object(): instances that have resources *)
Shown(tree) == {i \in DOMAIN tree : tree[i] # Unset}

ObjectPayload(t, tree) ==
  LET ids == SetToSeq(Shown(tree))
      show(i) == Element(InstanceKind, i, InstancePayload(t, tree[i]))
  IN  FlattenSeq([n \in DOMAIN ids |-> show(ids[n])])

(* serialize_multiple_resource() *)
EntriesPayload(entries) ==
  LET ids == SetToSeq(DOMAIN entries)
      show(i) == Element(ResourceInstanceKind, i, Encode("INTEGER", entries[i]))
  IN  FlattenSeq([n \in DOMAIN ids |-> show(ids[n])])

Ellipsis == <<46, 46, 46>>

(* serialize_resource_text() and parse_value_text() together: a STRING is  *)
(* cut, a number printed and read, and of a LINK object_id is read twice,  *)
(* the second strtok() starting again at the zero the first one wrote.     *)
(* What has no value is printed as nothing.                                *)
TextOf(t, v) ==
  IF v = Unset THEN
    CASE t = "INTEGER" -> 0
      [] t = "BOOLEAN" -> FALSE
      [] t = "DOUBLE"  -> [k \in 1..8 |-> 0]
      [] t = "STRING"  -> <<>>
      [] t = "LINK"    -> <<0, 0>>
  ELSE
    CASE t = "DOUBLE" -> Rounded[v]
      [] t = "STRING" -> IF Len(v) > 30 THEN SubSeq(v, 1, 27) \o Ellipsis ELSE v
      [] t = "LINK"   -> <<v[1], v[1]>>
      [] OTHER        -> v

Wreck ==
  /\ response' = [kind |-> "wrecked", payload |-> <<>>]
  /\ UNCHANGED <<signed, type, instances, sent>>

Read(kind, payload, what) ==
  /\ response.kind # "wrecked"
  /\ response' = [kind |-> kind, payload |-> payload]
  /\ sent' = what
  /\ UNCHANGED <<signed, type, instances>>

(* Nothing looks whether the buffers are long enough. *)
ReadTlv(kind, payload, what) ==
  \/ Len(payload) <= BufferSize /\ Read(kind, payload, what)
  \/ Len(payload) > BufferSize /\ response.kind # "wrecked" /\ Wreck

ReadResource(i) == Read("resource", TextOf(type, instances[i]), instances[i])

ReadInstance(i) == ReadTlv("instance", InstancePayload(type, instances[i]), instances[i])

ReadObject == ReadTlv("object", ObjectPayload(type, instances), instances)

ReadEntries == \E e \in EntrySample : ReadTlv("entries", EntriesPayload(e), e)

-----------------------------------------------------------------------------
Set(tree) ==
  /\ instances' = tree
  /\ UNCHANGED <<signed, type, response, sent>>

(* parse_instance() takes what it copies from resource_def by the id it    *)
(* reads, and gives an element that says it is multiple no value.          *)
MultipleKind == 2   \* MULTIPLE_RESOURCE_TYPE

Sound(elements) ==
  \A n \in DOMAIN elements : elements[n].id = ResourceId /\ elements[n].kind # MultipleKind

(* merge_resources() of what parse_instance() returns, the last element of *)
(* the message first.                                                      *)
Merged(elements, old) ==
  IF elements = <<>> THEN old ELSE Decode(type, elements[1].value)

(* on_resource_write() *)
WriteResource(i) ==
  /\ response.kind = "resource"
  /\ Set([instances EXCEPT ![i] = response.payload])

(* on_instance_write(), on_bootstrap_instance_write() *)
WriteInstance(i) ==
  /\ response.kind = "instance"
  /\ LET elements == Elements(signed, response.payload)
     IN  IF Sound(elements) THEN Set([instances EXCEPT ![i] = Merged(elements, @)]) ELSE Wreck

(* on_bootstrap_object_write(): instances that do not exist are created.   *)
WriteObject ==
  /\ response.kind = "object"
  /\ LET found == Elements(signed, response.payload)
         parsed(n) == Elements(signed, found[n].value)
         old(i) == IF i \in DOMAIN instances THEN instances[i] ELSE Unset
         ids == {found[n].id : n \in DOMAIN found}
         first(i) == CHOOSE n \in DOMAIN found :
                       found[n].id = i /\ \A m \in 1..(n - 1) : found[m].id # i
     IN  IF \A n \in DOMAIN found : found[n] # Astray /\ Sound(parsed(n))
         THEN Set([i \in DOMAIN instances \cup ids |->
                     IF i \in ids THEN Merged(parsed(first(i)), old(i)) ELSE instances[i]])
         ELSE Wreck

(* on_instance_delete(), on_bootstrap_delete() *)
Delete(i) ==
  /\ response.kind # "wrecked"
  /\ Set(Restrict(instances, DOMAIN instances \ {i}))

Step ==
  \/ \E i \in DOMAIN instances :
       \/ ReadResource(i) \/ ReadInstance(i)
       \/ WriteResource(i) \/ WriteInstance(i)
       \/ Delete(i)
       \/ \E v \in Sample[type] \cup {Unset} : SetValue(i, v)
  \/ ReadObject \/ ReadEntries \/ WriteObject

ValuesNext == steps < MaxSteps /\ Step /\ steps' = steps + 1

ValuesSpec == ValuesInit /\ [][ValuesNext]_ValuesVars

-----------------------------------------------------------------------------
(* The same bytes from either end: an INTEGER goes out with the lowest     *)
(* first and comes in with the highest first.                              *)
PortableInt(n) ==
  CASE IntBytes(n) = 1 -> n >= 0
    [] IntBytes(n) = 2 -> n \div 256 = n % 256
    [] IntBytes(n) = 3 -> n \div 65536 = n % 256
    [] IntBytes(n) = 4 -> n \div 16777216 = n % 256 /\ (n \div 65536) % 256 = (n \div 256) % 256

Swapped(n) == 256 * (n % 256) + n \div 256

(* One byte is enough, and it is no negative char; 255 has two bytes, which *)
(* have no sign, the first of them 0.                                      *)
PortableLength(len) == len < 128 \/ (~signed /\ len < 255) \/ len = 255

PortableId(i) ==
  \/ ~signed
  \/ i \in -128..127
  \/ i >= 255 /\ i % 256 < 128 /\ i \div 256 < 128

Portable(t, v) ==
  CASE t = "INTEGER" -> PortableInt(v)
    [] t = "BOOLEAN" -> TRUE
    [] t = "DOUBLE"  -> \A k \in 1..4 : v[k] = v[9 - k]
    [] t = "STRING"  -> PortableLength(Len(v))
    [] t = "LINK"    -> v[1] = Swapped(v[2])

PortableTree(tree) ==
  \A i \in Shown(tree) :
    PortableId(i) /\ Portable(type, tree[i]) /\ PortableLength(Len(InstancePayload(type, tree[i])))

PortableText ==
  /\ sent # Unset
  /\ type = "STRING" => Len(sent) <= 30
  /\ type = "DOUBLE" => Rounded[sent] = sent
  /\ type = "LINK" => sent[1] = sent[2]

(* Each element is one of f, and none is missing. *)
Says(elements, t, f) ==
  /\ Len(elements) = Cardinality(DOMAIN f)
  /\ \A i \in DOMAIN f : \E n \in DOMAIN elements :
       elements[n].id = i /\ Decode(t, elements[n].value) = f[i]

Resources(v) == IF v = Unset THEN <<>> ELSE [i \in {ResourceId} |-> v]

(* The elements an object is written as. *)
Written(t, tree) ==
  [n \in 1..Cardinality(Shown(tree)) |->
     LET i == SetToSeq(Shown(tree))[n]
     IN  [kind |-> InstanceKind, id |-> i, value |-> InstancePayload(t, tree[i])]]

(* What the client reads from a payload is what it put into it, if and     *)
(* only if the ids, lengths and values are portable: an INTEGER or DOUBLE  *)
(* only when it is the same from either end, a LINK when its halves mirror *)
(* each other, lengths up to 255, and those from 128 to 254, as bytes of   *)
(* ids, only where char has no sign.                                       *)
DecodesIffPortable ==
  LET elements == Elements(signed, response.payload)
  IN  CASE response.kind = "instance" ->
             Says(elements, type, Resources(sent)) <=> (sent = Unset \/ Portable(type, sent))
        [] response.kind = "entries" ->
             Says(elements, "INTEGER", sent)
               <=> \A i \in DOMAIN sent : PortableId(i) /\ PortableInt(sent[i])
        [] response.kind = "object" ->
             PortableTree(sent) <=>
               /\ elements = Written(type, sent)
               /\ \A n \in DOMAIN elements :
                    Says(Elements(signed, elements[n].value), type,
                         Resources(sent[elements[n].id]))
        [] OTHER -> TRUE

(* A server that writes back what it read, whatever was set, deleted or    *)
(* written meanwhile, brings back just what it read, in each instance its  *)
(* own, as far as that is portable; what had no value stays as it has      *)
(* become, and so does an instance that was not there.  In text it brings  *)
(* back what has a value, is short, is no LINK to another id, and survives *)
(* "%f".                                                                   *)
WriteBackRestores ==
  [][/\ \A i \in DOMAIN instances :
          /\ WriteResource(i) => (instances'[i] = sent <=> PortableText)
          /\ WriteInstance(i) /\ (sent = Unset \/ Portable(type, sent)) =>
               instances' = [instances EXCEPT ![i] = IF sent = Unset THEN @ ELSE sent]
     /\ WriteObject /\ PortableTree(sent) =>
          /\ DOMAIN instances' = DOMAIN instances \cup Shown(sent)
          /\ \A i \in DOMAIN instances' :
               instances'[i] = IF i \in Shown(sent) THEN sent[i] ELSE instances[i]]_ValuesVars
=============================================================================
