----------------------------- MODULE EngineTypes -----------------------------
(* engine_types.h: the engine's structures as the mod reads them, each member *)
(* with the offset that the comment before it gives, and what the compiler    *)
(* makes of them.                                                             *)
EXTENDS Integers, Sequences, SequencesExt

\* A type; `floats` are those of an item where the type is a WXBuffer.
Scalar(bytes) == [size |-> bytes, align |-> bytes, floats |-> 0, commented |-> TRUE]

Pointer == Scalar(8)
U8      == Scalar(1)
U32     == Scalar(4)
U64     == Scalar(8)
F32     == Scalar(4)

Array(n, type) == [type EXCEPT !.size = n * type.size]
Pad(n)         == Array(n, U8)

At(offset, type)          == [name |-> "unnamed", offset |-> offset, type |-> type]
Named(name, offset, type) == [name |-> name, offset |-> offset, type |-> type]

Natural(offset, align)  == ((offset + align - 1) \div align) * align   \* mutant: no pack
Packed(offset, align)   == offset   \* #pragma pack(push, 1)

\* A member, behind those there are so far.
Nothing == [size |-> 0, align |-> 1, commented |-> TRUE]
Behind(s, f) ==
  LET start == Packed(s.size, f.type.align)
  IN  [size |-> start + f.type.size,
       align |-> IF s.align < f.type.align THEN f.type.align ELSE s.align,
       commented |-> s.commented /\ start = f.offset /\ f.type.commented]

\* A structure of these members that ends at `end`: its size is the sum of
\* theirs, and it is as commented if each member is where its comment says.
Struct(end, fields) ==
  LET upto[n \in 0 .. Len(fields)] ==
        IF n = 0 THEN Nothing ELSE Behind(upto[n - 1], fields[n])
      all  == upto[Len(fields)]
      size == Packed(all.size, all.align)
  IN  [size |-> size, align |-> all.align, floats |-> 0,
       commented |-> all.commented /\ size = end]

-----------------------------------------------------------------------------

WXString     == Struct(\h00C, <<At(\h000, Pointer), At(\h008, U32)>>)
WXWideString == WXString

WXSortedListEntry ==
  Struct(\h010, <<At(\h000, U32), At(\h004, Pad(4)), At(\h008, Pointer)>>)
WXSortedList ==
  Struct(\h010, <<At(\h000, Pointer), At(\h008, U32), At(\h00C, U8), At(\h00D, Pad(3))>>)

WDirectory ==
  Struct(\h050, <<At(\h000, Pointer), At(\h008, WXSortedList), At(\h018, WXSortedList),
    At(\h028, Pointer), At(\h030, WXWideString), At(\h03C, Pad(\h14))>>)
WBundleDiskFile ==
  Struct(\h044, <<At(\h000, Pointer), At(\h008, Pointer), At(\h010, Pointer),
    At(\h018, WXWideString), At(\h024, Pad(\h1C)), At(\h040, U32)>>)

WXVector3 == Struct(\h00C, <<At(\h000, F32), At(\h004, F32), At(\h008, F32)>>)
WXVector2 == Struct(\h008, <<At(\h000, F32), At(\h004, F32)>>)

\* WXBuffer of items of so many floats.
Buffer(floats) == [WXString EXCEPT !.floats = floats]

ModuleData ==
  <<
   Named("alpha", \h000, Buffer(1)), Named("color", \h00C, Buffer(3)),
   Named("lifetime", \h018, Buffer(1)), Named("position", \h024, Buffer(3)),
   Named("position_offset", \h030, F32), Named("rotation", \h034, Buffer(1)),
   Named("rotation_3d", \h040, Buffer(3)), Named("rotation_rate", \h04C, Buffer(1)),
   Named("rotation_rate_3d", \h058, Buffer(3)), Named("size", \h064, Buffer(2)),
   Named("size_3d", \h070, Buffer(3)), Named("size_keep_ratio", \h07C, U8),
   At(\h07D, Pad(3)), Named("spawn_extents", \h080, Buffer(3)),
   Named("spawn_inner_radius", \h08C, Buffer(1)),
   Named("spawn_outer_radius", \h098, Buffer(1)), Named("spawn_world_space", \h0A4, U8),
   Named("spawn_surface_only", \h0A5, U8), At(\h0A6, Pad(2)),
   Named("p0A8", \h0A8, WXVector3), At(\h0B4, Pad(12)),
   Named("spawn_to_local_matrix", \h0C0, Array(16, F32)),
   Named("spawn_positive_x", \h100, U8), Named("spawn_negative_x", \h101, U8),
   Named("spawn_positive_y", \h102, U8), Named("spawn_negative_y", \h103, U8),
   Named("spawn_position_z", \h104, U8), Named("spawn_negative_z", \h105, U8),
   Named("spawn_velocity", \h106, U8), At(\h107, Pad(1)),
   Named("velocity", \h108, Buffer(3)), Named("velocity_world_space", \h114, U8),
   At(\h115, Pad(3)), Named("velocity_inherit_scale", \h118, Buffer(1)),
   Named("velocity_spread_scale", \h124, Buffer(1)),
   Named("velocity_spread_conserve_momentum", \h130, U8), At(\h131, Pad(3)),
   Named("texture_animation_initial_frame", \h134, Buffer(1)), Named("p140", \h140, U32),
   Named("p144", \h144, U32), Named("p148", \h148, U32),
   Named("velocity_over_life", \h14C, Buffer(3)),
   Named("acceleration_direction", \h158, Buffer(3)),
   Named("acceleration_scale", \h164, Buffer(1)),
   Named("rotation_over_life", \h170, Buffer(1)),
   Named("rotation_rate_over_life", \h17C, Buffer(1)),
   Named("rotation_3d_over_life", \h188, Buffer(3)),
   Named("rotation_rate_3d_over_life", \h194, Buffer(3)),
   Named("color_over_life", \h1A0, Buffer(3)), Named("alpha_over_life", \h1AC, Buffer(1)),
   Named("size_over_life", \h1B8, Buffer(2)),
   Named("size_over_life_orientation", \h1C4, Buffer(3)),
   Named("texture_animation_speed", \h1D0, Buffer(1)),
   Named("velocity_turbulize_scale", \h1DC, Buffer(3)),
   Named("velocity_turbulize_timelife_limit", \h1E8, Buffer(1)),
   Named("velocity_turbulize_noise_interval", \h1F4, F32),
   Named("velocity_turbulize_duration", \h1F8, F32),
   Named("target_force_scale", \h1FC, Buffer(1)),
   Named("target_kill_radius", \h208, Buffer(1)), Named("target_max_force", \h214, F32),
   Named("target_position", \h218, Buffer(3)),
   Named("collision_spawn_probability", \h224, F32),
   Named("collision_spawn_parent_emitter_index", \h228, U32), At(\h22C, Pad(4)),
   Named("collision_triggering_group_index", \h230, U64),
   Named("collision_dynamic_friction", \h238, F32),
   Named("collision_static_friction", \h23C, F32),
   Named("collision_restitution", \h240, F32),
   Named("collision_velocity_dampening", \h244, F32),
   Named("collision_disable_gravity", \h248, U8), Named("collision_use_gpu", \h249, U8),
   At(\h24A, Pad(2)), Named("collision_radius", \h24C, F32),
   Named("collision_kill_when_collide", \h250, U8), At(\h251, Pad(3)),
   Named("collision_self_emitter_index", \h254, U32),
   Named("alpha_by_distance_far", \h258, F32), Named("alpha_by_distance_near", \h25C, F32)>>

WXParticleEmitterModuleData == Struct(\h260, ModuleData)

WRenderParticleEmitter ==
  Struct(\h2F8, <<At(\h000, Pad(\h10)), At(\h010, WXParticleEmitterModuleData),
    At(\h270, Pad(\h74)), Named("modificator_bitset", \h2E4, U32), At(\h2E8, Pad(\h0C)),
    Named("initializer_bitset", \h2F4, U32)>>)

WBundleDataHandleReader ==
  Struct(\h030, <<At(\h000, Pointer), At(\h008, U32), At(\h00C, U32), At(\h010, Pointer),
    At(\h018, Pointer), At(\h020, Pointer), At(\h028, U32), At(\h02C, U32)>>)
WMemoryFileReader ==
  Struct(\h030, <<At(\h000, Pointer), At(\h008, U32), At(\h00C, U32), At(\h010, Pointer),
    At(\h018, Pointer), At(\h020, U64), At(\h028, U64)>>)

WXBundleFileMapping == Struct(\h020, <<At(\h000, Pad(\h10)), At(\h010, U32), At(\h014, Pad(\h0C))>>)
WXBitSet == Struct(\h010, <<At(\h000, Pointer), At(\h008, U32), At(\h00C, U32)>>)
WXBundleFileLocation ==
  Struct(\h014, <<At(\h000, U32), At(\h004, U32), At(\h008, U32), At(\h00C, U32), At(\h010, U32)>>)
WXBundleFileIndex ==
  Struct(\h044, <<At(\h000, Pad(\h30)), At(\h030, Pointer), At(\h038, U32), At(\h03C, Pointer)>>)
WDiskBundle ==
  Struct(\h03C, <<At(\h000, Pointer), At(\h008, WXString), At(\h014, WXString), At(\h020, U32),
    At(\h024, Pad(\h0C)), At(\h030, WXWideString)>>)
WXBundleManager ==
  Struct(\h068, <<At(\h000, Pad(\h10)), At(\h010, Pointer), At(\h018, WXBitSet),
    At(\h028, WXBitSet), At(\h038, WXBitSet), At(\h048, Pad(8)), At(\h050, Pointer),
    At(\h058, U32), At(\h05C, Pointer), At(\h064, U32)>>)
WDepot ==
  Struct(\h160, <<At(\h000, WDirectory), At(\h050, Pointer), At(\h058, Pad(\h100)),
    At(\h158, Pointer)>>)

WIReferencable == Struct(\h010, <<At(\h000, Pointer), At(\h008, Pointer)>>)
WProperty ==
  Struct(\h030, <<At(\h000, Pointer), At(\h008, Pointer), At(\h010, Pad(\h10)), At(\h020, U32),
    At(\h024, U32), At(\h028, Pad(8))>>)
WParticleEmitter  == Struct(\h118, <<At(\h000, Pointer), At(\h008, Pad(\h110))>>)
WDependencyLoader == Struct(\h020, <<At(\h000, Pointer), At(\h008, Pad(\h10)), At(\h018, Pointer)>>)

Structures ==
  {WXString, WXSortedListEntry, WXSortedList, WDirectory, WBundleDiskFile, WXVector3, WXVector2,
   WXParticleEmitterModuleData, WRenderParticleEmitter, WBundleDataHandleReader,
   WMemoryFileReader, WXBundleFileMapping, WXBitSet, WXBundleFileLocation, WXBundleFileIndex,
   WDiskBundle, WXBundleManager, WDepot, WIReferencable, WProperty, WParticleEmitter,
   WDependencyLoader}
=============================================================================
