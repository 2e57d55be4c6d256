--------------------------- MODULE EmitterEncoding ---------------------------
(* encode_emitter_data under the lock of message_emitter_details: the members *)
(* of one render emitter go into the answer one by one, while the engine may  *)
(* give one of its buffers other contents.                                    *)
EXTENDS EngineTypes, FiniteSets

CONSTANTS
  Lengths,   \* how many items a buffer may have; all but one have one item
  Odd        \* the buffers that may be that one

ASSUME LengthsAssumption == Lengths \subseteq Nat

VARIABLES
  odd, length,   \* the one buffer and its length
  rewritten,     \* has the engine changed it? (once)
  torn,          \* and did it do so between its length and its last item?
  k,             \* the member to encode next
  step, item,    \* inside encode_buffer
  response,      \* what each member appended: [field, said, items]
  sent           \* the answer: a message type and its contents

vars == <<odd, length, rewritten, torn, k, step, item, response, sent>>

-----------------------------------------------------------------------------

Wire ==
  <<
   "initializer_bitset", "modificator_bitset", "alpha", "color", "lifetime", "position",
   "position_offset", "rotation", "rotation_3d", "rotation_rate", "rotation_rate_3d",
   "size", "size_3d", "size_keep_ratio", "spawn_extents", "spawn_inner_radius",
   "spawn_outer_radius", "spawn_world_space", "spawn_surface_only", "p0A8",
   "spawn_to_local_matrix", "velocity", "velocity_world_space", "velocity_inherit_scale",
   "velocity_spread_scale", "velocity_spread_conserve_momentum",
   "texture_animation_initial_frame", "p140", "p144", "p148", "velocity_over_life",
   "acceleration_direction", "acceleration_scale", "rotation_over_life",
   "rotation_rate_over_life", "rotation_3d_over_life", "rotation_rate_3d_over_life",
   "color_over_life", "alpha_over_life", "size_over_life", "size_over_life_orientation",
   "texture_animation_speed", "velocity_turbulize_scale",
   "velocity_turbulize_timelife_limit", "velocity_turbulize_noise_interval",
   "velocity_turbulize_duration", "target_force_scale", "target_kill_radius",
   "target_max_force", "target_position", "spawn_positive_x", "spawn_negative_x",
   "spawn_positive_y", "spawn_negative_y", "spawn_position_z", "spawn_negative_z",
   "spawn_velocity", "collision_triggering_group_index", "collision_dynamic_friction",
   "collision_static_friction", "collision_restitution", "collision_velocity_dampening",
   "collision_disable_gravity", "collision_use_gpu", "collision_radius",
   "collision_kill_when_collide", "collision_self_emitter_index",
   "collision_spawn_probability", "collision_spawn_parent_emitter_index",
   "alpha_by_distance_far", "alpha_by_distance_near">>

Bitsets == {"initializer_bitset", "modificator_bitset"}
Members == {f.name : f \in ToSet(ModuleData)} \ {"unnamed"}
Type(name) == IF name \in Bitsets THEN U32
              ELSE (CHOOSE f \in ToSet(ModuleData) : f.name = name).type
IsBuffer(name) == Type(name).floats > 0
LengthOf(name) == IF name = odd THEN length ELSE 1

Appended(name, said, bytes) == [name |-> name, said |-> said, bytes |-> bytes]
Member == Wire[k]

Init ==
  /\ odd \in Odd /\ length \in Lengths
  /\ rewritten = FALSE /\ torn = FALSE
  /\ k = 1 /\ step = "check" /\ item = 0
  /\ response = <<Appended("found", 0, 1)>>
  /\ sent = [type |-> 0, response |-> <<>>]

Encoding == sent.type = 0 /\ k <= Len(Wire)
Thread   == UNCHANGED <<odd, length, rewritten, torn>>

\* message_append, encode_float and encode_vector3 of a member
AppendMember ==
  /\ Encoding /\ ~IsBuffer(Member)
  /\ response' = Append(response, Appended(Member, 0, Type(Member).size))
  /\ k' = k + 1
  /\ Thread /\ UNCHANGED <<step, item, sent>>

Partial == response   \* mutant: the response is not cleared
Cleared == <<>>

CheckLength ==
  /\ Encoding /\ IsBuffer(Member) /\ step = "check"
  /\ \/ LengthOf(Member) < 64 /\ step' = "length" /\ UNCHANGED <<response, sent>>
     \/ LengthOf(Member) >= 64
        /\ response' = Cleared /\ sent' = [type |-> 2, response |-> response']
        /\ UNCHANGED step
  /\ Thread /\ UNCHANGED <<k, item>>

Uncut(n)   == n         \* mutant: the length is not cut to a byte
AsUint8(n) == n % 256

AppendLength ==
  /\ Encoding /\ IsBuffer(Member) /\ step = "length"
  /\ response' = Append(response, Appended(Member, AsUint8(LengthOf(Member)), 0))
  /\ step' = "items" /\ item' = 0
  /\ Thread /\ UNCHANGED <<k, sent>>

AppendItem ==
  /\ Encoding /\ IsBuffer(Member) /\ step = "items"
  /\ \/ item < LengthOf(Member)
        /\ response' = [response EXCEPT ![Len(response)].bytes = @ + 4 * Type(Member).floats]
        /\ item' = item + 1 /\ UNCHANGED <<k, step>>
     \/ item >= LengthOf(Member)
        /\ k' = k + 1 /\ step' = "check" /\ UNCHANGED <<item, response>>
  /\ Thread /\ UNCHANGED sent

Send ==
  /\ sent.type = 0 /\ k > Len(Wire)
  /\ sent' = [type |-> 8, response |-> response]
  /\ Thread /\ UNCHANGED <<k, step, item, response>>

\* The engine does not take emitter_lock to change an emitter.
Rewrite ==
  /\ sent.type = 0 /\ ~rewritten
  /\ rewritten' = TRUE
  /\ length' \in Lengths \ {length}
  /\ torn' = (Encoding /\ Member = odd /\ step # "check")
  /\ UNCHANGED <<odd, k, step, item, response, sent>>

Next == AppendMember \/ CheckLength \/ AppendLength \/ AppendItem \/ Send \/ Rewrite

Spec == Init /\ [][Next]_vars

-----------------------------------------------------------------------------
(* Properties.                                                                *)

\* Types: what is appended as a length is a byte.
TypeOK ==
  /\ odd \in Odd /\ length \in Lengths /\ k \in 1 .. Len(Wire) + 1
  /\ step \in {"check", "length", "items"} /\ item \in Nat
  /\ \A n \in DOMAIN response : response[n].said \in 0 .. 255 /\ response[n].bytes \in Nat
  /\ sent.type \in {0, 2, 8}

\* Every member is where the comment before it says, in every structure the mod
\* shares with the engine, and so the encoder reads what it names.
LayoutAsCommented ==
  Encoding => \A s \in Structures : s.commented

\* Message 8 has every known member of the emitter, each once and whole, and a
\* reader can tell from the length bytes where each ends, but for a buffer that
\* the engine changed while it was being encoded.  Message 2 comes only of a
\* buffer with 64 items or more, and has nothing in it.
Whole(e) ==
  IF IsBuffer(e.name)
  THEN (e.name = odd => ~torn) =>
         /\ e.bytes = e.said * 4 * Type(e.name).floats
         /\ ~rewritten => e.said = LengthOf(e.name)
  ELSE e.bytes = Type(e.name).size
DetailsWhole ==
  /\ sent.type = 8 =>
      LET entries == Tail(sent.response)
      IN  /\ Len(entries) = Cardinality(Bitsets \cup Members)
          /\ {entries[n].name : n \in DOMAIN entries} = Bitsets \cup Members
          /\ \A n \in DOMAIN entries : Whole(entries[n])
  /\ sent.type = 2 => sent.response = <<>> /\ LengthOf(odd) >= 64
=============================================================================
