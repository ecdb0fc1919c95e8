------------------------- MODULE StaffCapabilities -------------------------
(***************************************************************************)
(* Which staff role may do what, and in which classes                      *)
(* (packages/staff-identity/src/services/capability.ts, authorization.ts). *)
(***************************************************************************)
Roles == {"SCHOOL_ADMIN", "INDEPENDENT_EDUCATOR", "TEACHER", "SUPPORT_TEACHER", "ASACOM"}

TeacherCapabilities ==
    {"roster.manage", "assignment.create", "learning_path.class.manage",
     "learning_path.student.manage", "learning_path.preview",
     "learning_path.alternative.assign", "learning_path.waiver.manage"}

IndependentEducatorCapabilities ==
    {"class.create", "class.manage", "roster.manage", "assignment.create",
     "convergence.request", "convergence.read", "convergence.approve.teacher"}

AsacomCapabilities ==
    {"asacom.read.assigned_students", "asacom.support.record", "asacom.observation.record",
     "asacom.facilitation.read", "asacom.facilitation.apply", "asacom.facilitation.propose",
     "asacom.difficulty.propose", "asacom.progress.read.assigned", "learning_path.student.propose"}

SupportTeacherCapabilities ==
    {"support_teacher.support.record", "support_teacher.observation.record",
     "support_teacher.facilitation.read", "support_teacher.facilitation.apply",
     "support_teacher.difficulty.apply", "support_teacher.progress.read.assigned",
     "learning_path.student.manage", "learning_path.student.propose", "learning_path.preview",
     "learning_path.alternative.assign", "learning_path.waiver.manage"}

HasStaffCapability(role, capability) ==
    CASE role = "SCHOOL_ADMIN"         -> TRUE
      [] role = "INDEPENDENT_EDUCATOR" -> capability \in IndependentEducatorCapabilities
      [] role = "ASACOM"               -> capability \in AsacomCapabilities
      [] role = "SUPPORT_TEACHER"      -> capability \in SupportTeacherCapabilities
      [] OTHER                         -> capability \in TeacherCapabilities

\* scope: the classes of the identity, the empty set for a role without any.
IsClassInScope(role, scope, class) ==
    role \in {"SCHOOL_ADMIN", "INDEPENDENT_EDUCATOR"} \/ class \in scope
=============================================================================
