SPECIFICATION Spec
CONSTANTS
  s1 = s1
  s2 = s2
  s3 = s3
  Absent = Absent
  Instances <- ThreeInstances
INVARIANT Handover
PROPERTY ProbeHonoured
