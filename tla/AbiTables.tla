------------------------------ MODULE AbiTables ------------------------------
(***************************************************************************)
(* The tables of spec/wali/spec/abi.py: primitives, aliases, array types   *)
(* and struct definitions, in the order of the file.  A struct is given by *)
(* its name, the set holding its expected_size if it has one, and the type *)
(* names of its fields (none of them has an explicit offset).              *)
(***************************************************************************)
EXTENDS Integers, Sequences, TLC

SignedPrimitives ==
    [n \in {"int8_t"} |-> 1] @@
    [n \in {"short", "int16_t"} |-> 2] @@
    [n \in {"int", "int32_t"} |-> 4] @@
    [n \in {"long", "long long", "reg", "syscall_result", "int64_t"} |-> 8]

UnsignedPrimitives ==
    [n \in {"uint8_t"} |-> 1] @@
    [n \in {"unsigned short", "uint16_t"} |-> 2] @@
    [n \in {"unsigned", "unsigned int", "uint32_t", "ptr", "ptr_func"} |-> 4] @@
    [n \in {"unsigned long", "unsigned long long", "unsigned reg", "uint64_t"} |-> 8]

c_primitives == SignedPrimitives @@ UnsignedPrimitives

type_aliases ==
    [n \in {"off_t"} |-> "long long"] @@
    [n \in {"size_t", "socklen_t"} |-> "unsigned int"] @@
    [n \in {"nfds_t", "rlim_t"} |-> "unsigned long long"] @@
    [n \in {"clockid_t", "mode_t", "uid_t", "pid_t", "gid_t"} |-> "int"] @@
    [n \in {"time_t", "suseconds_t", "blkcnt_t", "epoll_data_t"} |-> "int64_t"] @@
    [n \in {"sa_family_t"} |-> "unsigned short"] @@
    [n \in {"ino_t", "dev_t", "fsblkcnt_t", "fsfilcnt_t"} |-> "uint64_t"] @@
    [n \in {"nlink_t"} |-> "unsigned reg"] @@
    [n \in {"blksize_t"} |-> "long"]

ArrayOf(t, n) == [element_type |-> t, count |-> n]

array_types ==
    "sigset_t" :> ArrayOf("long", 16) @@
    "fsid_t"   :> ArrayOf("int32_t", 2) @@
    "uts_str"  :> ArrayOf("uint8_t", 65)

(* parse_inline_array on the T[N] names that occur in the tables. *)
inline_arrays ==
    "long[3]"          :> ArrayOf("long", 3) @@
    "long[16]"         :> ArrayOf("long", 16) @@
    "unsigned[2]"      :> ArrayOf("unsigned", 2) @@
    "unsigned long[3]" :> ArrayOf("unsigned long", 3) @@
    "unsigned long[4]" :> ArrayOf("unsigned long", 4) @@
    "uint64_t[14]"     :> ArrayOf("uint64_t", 14) @@
    "uint8_t[14]"      :> ArrayOf("uint8_t", 14) @@
    "uint8_t[128]"     :> ArrayOf("uint8_t", 128) @@
    "uint8_t[256]"     :> ArrayOf("uint8_t", 256)

Struct(n, e, ts) == [name |-> n, expected |-> e, types |-> ts, packed |-> FALSE]
Packed(n, e, ts) == [name |-> n, expected |-> e, types |-> ts, packed |-> TRUE]
Times(n, t) == [i \in 1..n |-> t]

LeafStructs ==
    << Struct("struct timespec", {16}, <<"time_t", "long">>),
       Struct("struct timeval", {16}, <<"time_t", "suseconds_t">>),
       Struct("struct timezone", {8}, <<"int", "int">>),
       Struct("stack_t", {}, <<"void*", "int32_t", "size_t">>),
       Struct("struct dirent", {},
              <<"ino_t", "off_t", "unsigned short", "uint8_t", "uint8_t[256]">>),
       Packed("struct epoll_event", {12}, <<"uint32_t", "epoll_data_t">>),
       Struct("struct iovec", {}, <<"void*", "size_t">>),
       Struct("struct pollfd", {}, <<"int32_t", "short", "short">>),
       Struct("struct rlimit", {16}, <<"rlim_t", "rlim_t">>),
       Packed("struct k_sigaction", {24},
              <<"ptr_func", "unsigned long", "ptr_func", "unsigned[2]">>),
       Struct("struct sockaddr", {}, <<"sa_family_t", "uint8_t[14]">>),
       Struct("struct statfs", {},
              Times(2, "unsigned long") \o Times(3, "fsblkcnt_t") \o Times(2, "fsfilcnt_t")
              \o <<"fsid_t">> \o Times(3, "unsigned long") \o <<"unsigned long[4]">>),
       Struct("stx_time", {16}, <<"int64_t", "uint32_t", "int32_t">>),
       Struct("struct sysinfo", {},
              <<"unsigned long", "unsigned long[3]">> \o Times(6, "unsigned long")
              \o Times(2, "unsigned short") \o Times(2, "unsigned long")
              \o <<"uint32_t", "uint8_t[256]">>),
       Struct("struct utimbuf", {16}, <<"time_t", "time_t">>),
       Struct("struct utsname", {}, Times(6, "uts_str")),
       Struct("fd_set", {}, <<"uint8_t[128]">>),
       Struct("cpu_set_t", {}, <<"uint8_t[128]">>) >>

DependentStructs ==
    << Struct("struct itimerval", {}, Times(2, "struct timeval")),
       Struct("struct msghdr", {},
              <<"void*", "socklen_t", "struct iovec*", "int32_t", "int32_t", "void*",
                "socklen_t", "int32_t", "int32_t">>),
       Struct("struct rusage", {},
              Times(2, "struct timeval") \o Times(14, "long") \o <<"long[16]">>),
       Struct("struct stat", {144},
              <<"dev_t", "ino_t", "nlink_t", "mode_t", "uid_t", "gid_t", "uint32_t",
                "dev_t", "off_t", "blksize_t", "blkcnt_t">>
              \o Times(3, "struct timespec") \o <<"long[3]">>),
       Struct("struct statx", {},
              <<"uint32_t", "uint32_t", "uint64_t">> \o Times(3, "uint32_t")
              \o Times(2, "uint16_t") \o Times(4, "uint64_t") \o Times(4, "stx_time")
              \o Times(4, "uint32_t") \o <<"uint64_t[14]">>) >>

=============================================================================
